------------------------- MODULE RuntimeOperator_proofs -------------------------
(***************************************************************************)
(* Proofs about RuntimeOperator for any number of replicas, releases,       *)
(* processes and changes of the manifest.                                   *)
(*                                                                         *)
(* The argument: what a pass remembers may be old, but what it is used for  *)
(* does not age.  That a release was ready, or its migration succeeded,     *)
(* stays true (proven only grows), so an old active release, backend or     *)
(* completed migration is as good as a current one (PassProven).  And a     *)
(* pass writes the generation that it took its manifest from, which is the  *)
(* current one only while that manifest is (PassFresh).                     *)
(*                                                                         *)
(* The second part is about the deletions.  What a pass has seen of the     *)
(* cluster stays so but for what other replicas bring back meanwhile        *)
(* (crossed), so each pass is followed with a sight of its own.             *)
(***************************************************************************)
EXTENDS RuntimeOperator, TLAPS

Proven(r) == /\ \A p \in Process : Deployment(r, p) \in proven
             /\ r \in Migrating => Job(r) \in proven
Holds(r) == r = None \/ Proven(r)
Migrated(r) == r = None \/ Job(r) \in proven

Rollouts == {"policy", "route", "job", "getjob", "deploy", "observe", "service", "check",
             "active"}

PassProven(w) ==
  /\ Holds(w.backend)
  /\ Holds(w.status.active)
  /\ Holds(w.status.backend)
  /\ Migrated(w.status.migrated)
  /\ (w.at \in {"deploy", "observe", "service", "check"} /\ w.spec.release \in Migrating)
       => Job(w.spec.release) \in proven
  /\ w.at = "check" =>
       \A p \in Process : p < w.process => Deployment(w.spec.release, p) \in proven

PassFresh(w) ==
  /\ w.status.observed <= generation
  /\ w.status.observed = generation => w.spec = spec
  /\ w.at \in Rollouts => Runs(w.spec.life)
  /\ w.at = "active" => w.status.phase # "Ready"
  /\ (w.at \in {"putroute", "putstatus"} /\ w.status.phase = "Ready") =>
       w.status.active = w.spec.release /\ Runs(w.spec.life)

PassGood(w) == w \in Passes /\ PassProven(w) /\ PassFresh(w)
PassesGood == \A o \in Operator : PassGood(pass[o])

ClusterHolds ==
  /\ Holds(route.backend)
  /\ \A x \in Object : objects[x] = "ready" => x \in proven
  /\ MigrationGate

StatusHolds ==
  /\ Holds(status.active)
  /\ Holds(status.backend)
  /\ Migrated(status.migrated)
  /\ status.observed <= generation
  /\ ReadyIsOfTheManifest

Inv ==
  /\ TypeOK
  /\ ClusterHolds
  /\ StatusHolds
  /\ PassesGood

-----------------------------------------------------------------------------
(* The children of a release are objects of their own.                      *)
LEMMA ObjectFacts ==
  /\ \A r \in Release : /\ Service(r) \in Object
                        /\ Job(r) \in Object
                        /\ \A p \in Process : Deployment(r, p) \in Object
  /\ \A x \in Object : x.release \in Release
  /\ None \notin Release
  /\ Release \subseteq Nat
  /\ Generation \subseteq Nat \ {0}
BY BoundsAssumption DEF Object, Service, Job, Deployment, Release, Generation, None

(* What was ready stays so in the history.                                  *)
LEMMA Ages ==
  ASSUME proven \subseteq proven'
  PROVE  /\ \A r : Holds(r) => Holds(r)'
         /\ \A r : Migrated(r) => Migrated(r)'
BY DEF Holds, Proven, Migrated

LEMMA PassAges ==
  ASSUME NEW w, PassGood(w), proven \subseteq proven', UNCHANGED manifestVars
  PROVE  PassGood(w)'
<1>1. PassProven(w)'
  <2>1. Holds(w.backend)' /\ Holds(w.status.active)' /\ Holds(w.status.backend)'
        /\ Migrated(w.status.migrated)'
    BY Ages DEF PassGood, PassProven
  <2>2. QED
    BY <2>1 DEF PassGood, PassProven
<1>2. PassFresh(w)'
  BY DEF PassGood, PassFresh, manifestVars
<1>3. QED
  BY <1>1, <1>2 DEF PassGood, Passes, Spaces, Statuses

(* A step of one replica puts a good pass in place of its own.              *)
LEMMA OnePass ==
  ASSUME Inv, proven \subseteq proven', UNCHANGED manifestVars,
         NEW o \in Operator, NEW w, PassGood(w)', pass' = [pass EXCEPT ![o] = w]
  PROVE  PassesGood' /\ pass' \in [Operator -> Passes]
<1>1. ASSUME NEW q \in Operator PROVE PassGood(pass[q])'
  <2>1. CASE q = o
    <3>1. pass'[q] = w
      BY <2>1 DEF Inv, TypeOK
    <3>2. QED
      BY <3>1 DEF PassGood, PassProven, PassFresh
  <2>2. CASE q # o
    <3>1. PICK v : v = pass[q]
      OBVIOUS
    <3>2. PassGood(v)
      BY <3>1 DEF Inv, PassesGood
    <3>3. PassGood(v)'
      BY <3>2, PassAges
    <3>4. pass'[q] = v
      BY <2>2, <3>1 DEF Inv, TypeOK
    <3>5. QED
      BY <3>3, <3>4 DEF PassGood, PassProven, PassFresh
  <2>3. QED
    BY <2>1, <2>2
<1>2. pass' \in [Operator -> Passes]
  BY DEF Inv, TypeOK, PassGood
<1>3. QED
  BY <1>1, <1>2 DEF PassesGood

-----------------------------------------------------------------------------
(* What the status and the cluster hold survives a step that leaves them    *)
(* alone or only removes objects.                                           *)
LEMMA StatusAges ==
  ASSUME Inv, proven \subseteq proven', UNCHANGED <<manifestVars, status>>
  PROVE  StatusHolds'
<1>1. Holds(status.active)' /\ Holds(status.backend)' /\ Migrated(status.migrated)'
  BY Ages DEF Inv, StatusHolds
<1>2. QED
  BY <1>1 DEF Inv, StatusHolds, ReadyIsOfTheManifest, manifestVars

LEMMA ClusterAges ==
  ASSUME Inv, proven \subseteq proven', Holds(route.backend)',
         \A x \in Object : Exists(x)' => Exists(x),
         \A x \in Object : objects'[x] = "ready" => x \in proven'
  PROVE  ClusterHolds'
<1>1. MigrationGate'
  BY ObjectFacts, MigratingAssumption DEF Inv, ClusterHolds, MigrationGate, Release
<1>2. QED
  BY <1>1 DEF ClusterHolds

(* A step of a replica that writes neither the manifest nor the status.     *)
LEMMA PassStep ==
  ASSUME Inv, NEW o \in Operator, NEW w, PassGood(w), Becomes(o, w),
         UNCHANGED <<manifestVars, status, proven>>,
         route' \in Routes, policy' \in {"absent", "live", "terminating"},
         objects' \in [Object -> States], ClusterHolds',
         crossed' \in [Operator -> SUBSET Crossings]
  PROVE  Inv'
<1>1. PassGood(w)'
  BY PassAges DEF manifestVars
<1>2. PassesGood' /\ pass' \in [Operator -> Passes]
  BY <1>1, OnePass DEF Becomes
<1>3. TypeOK'
  BY <1>2 DEF Inv, TypeOK, manifestVars
<1>4. StatusHolds'
  BY StatusAges
<1>5. QED
  BY <1>2, <1>3, <1>4 DEF Inv

(* One that changes nothing but the pass.                                   *)
LEMMA Quiet ==
  ASSUME Inv, NEW o \in Operator, NEW w, PassGood(w), Becomes(o, w),
         UNCHANGED <<manifestVars, status, clusterVars>>
  PROVE  Inv'
<1>1. ClusterHolds'
  BY DEF Inv, ClusterHolds, Holds, Proven, MigrationGate, Exists, clusterVars
<1>2. QED
  BY <1>1, PassStep DEF Inv, TypeOK, clusterVars

LEMMA NoPassType == NoPass \in Passes
BY BoundsAssumption, ProcessAssumption
   DEF NoPass, Passes, FirstSpec, NoStatus, Spaces, Statuses, Release, Variant, Process,
       Lifecycle, Phase, Calls, Kinds, Generation, None

LEMMA NoPassGood == ASSUME Inv PROVE PassGood(NoPass)
<1>1. NoPass \in Passes
  BY NoPassType
<1>2. generation \in Nat \ {0}
  BY ObjectFacts DEF Inv, TypeOK
<1>3. /\ NoPass.backend = None
      /\ NoPass.status.active = None
      /\ NoPass.status.backend = None
      /\ NoPass.status.migrated = None
      /\ NoPass.status.observed = 0
      /\ NoPass.at = "idle"
  BY DEF NoPass, NoStatus, None
<1>4. QED
  BY <1>1, <1>2, <1>3 DEF PassGood, PassProven, PassFresh, Holds, Migrated, Rollouts

(* A pass stays good where it does not go on to deploy, or to report Ready. *)
LEMMA Continues ==
  ASSUME NEW w, PassGood(w), NEW v \in Passes, v.spec = w.spec,
         v.status.observed = w.status.observed,
         v.status.active \in {w.status.active, None},
         v.status.backend \in {w.status.backend, w.status.active, None},
         v.status.migrated \in {w.status.migrated, None},
         Holds(v.backend),
         v.at \notin {"deploy", "observe", "service", "check"},
         v.at \in Rollouts => Runs(w.spec.life),
         v.at \in {"active", "putroute", "putstatus"} => v.status.phase # "Ready"
  PROVE  PassGood(v)
<1>1. PassProven(v)
  BY DEF PassGood, PassProven, Holds, Migrated
<1>2. PassFresh(v)
  BY DEF PassGood, PassFresh, Rollouts
<1>3. QED
  BY <1>1, <1>2 DEF PassGood

(* And while it deploys.                                                    *)
LEMMA Rolls ==
  ASSUME NEW w, PassGood(w), NEW v \in Passes, v.spec = w.spec, v.status = w.status,
         v.backend = w.backend,
         w.at \in {"deploy", "observe", "service"},
         v.at \in {"deploy", "observe", "service", "check"},
         v.at = "check" => v.process = 1
  PROVE  PassGood(v)
<1>1. PassProven(v)
  BY ObjectFacts DEF PassGood, PassProven, Process
<1>2. PassFresh(v)
  BY DEF PassGood, PassFresh, Rollouts
<1>3. QED
  BY <1>1, <1>2 DEF PassGood

LEMMA NotReadyGood ==
  ASSUME NEW w, PassGood(w), Runs(w.spec.life), NEW phase \in {"Degraded", "Deploying"}
  PROVE  PassGood(NotReady(w, phase))
<1> DEFINE v == NotReady(w, phase)
<1> DEFINE st == [w.status EXCEPT !.phase = phase]
<1>1. PICK at \in {"active", "putroute"}, backend \in {w.backend, None} :
        v = [w EXCEPT !.status = st, !.failed = FALSE, !.process = 1,
                      !.at = at, !.backend = backend]
  BY DEF NotReady, PassGood, Passes
<1>2. st \in Statuses
  BY DEF PassGood, Passes, Statuses, Phase
<1> HIDE DEF v
<1>3. v.spec = w.spec /\ v.status = st /\ v.at = at /\ v.backend = backend
  <2> HIDE DEF st
  <2>1. QED
    BY <1>1 DEF PassGood, Passes
<1>4. v \in Passes
  <2> HIDE DEF st
  <2>1. w \in Passes /\ at \in Calls /\ backend \in Release \cup {None} /\ 1 \in Process
    BY ProcessAssumption DEF PassGood, Passes, Calls, Process
  <2>2. QED
    BY <1>1, <1>2, <2>1 DEF Passes
<1>5. /\ v.status.active = w.status.active
      /\ v.status.backend = w.status.backend
      /\ v.status.migrated = w.status.migrated
      /\ v.status.observed = w.status.observed
      /\ v.status.phase = phase
  BY <1>3 DEF PassGood, Passes, Statuses
<1>6. Holds(backend)
  BY DEF PassGood, PassProven, Holds
<1>7. QED
  BY <1>3, <1>4, <1>5, <1>6, Continues DEF v

(* One that only goes on to the next call.                                  *)
LEMMA GoesOn ==
  ASSUME NEW w, PassGood(w), NEW at \in Calls,
         at \notin {"deploy", "observe", "service", "check", "active", "putroute", "putstatus"},
         at \in Rollouts => Runs(w.spec.life)
  PROVE  PassGood([w EXCEPT !.at = at])
<1> DEFINE v == [w EXCEPT !.at = at]
<1>1. /\ v \in Passes
      /\ v.spec = w.spec
      /\ v.status = w.status
      /\ v.backend = w.backend
      /\ v.at = at
  BY DEF PassGood, Passes
<1> HIDE DEF v
<1>2. Holds(v.backend)
  BY <1>1 DEF PassGood, PassProven
<1>3. QED
  BY <1>1, <1>2, Continues DEF v

-----------------------------------------------------------------------------
(* What has crossed a pass is recorded for every replica but the caller's.  *)
LEMMA CrossesType ==
  ASSUME Inv, NEW o, NEW what \in Crossings, NEW changes \in BOOLEAN, Crosses(o, what, changes)
  PROVE  crossed' \in [Operator -> SUBSET Crossings]
BY DEF Inv, TypeOK, Crosses

(* The rollout.                                                             *)
LEMMA ListPaaSAppsStep ==
  ASSUME Inv, NEW o \in Operator, ListPaaSApps(o)
  PROVE  Inv'
<1> DEFINE st == [status EXCEPT !.observed = generation]
           at == IF Runs(spec.life) THEN "policy" ELSE "findroute"
           v == [NoPass EXCEPT !.spec = spec, !.status = st, !.at = at]
<1>1. NoPass \in Passes /\ NoPass.backend = None
  BY NoPassGood DEF PassGood, NoPass
<1>2. st \in Statuses /\ spec \in Spaces /\ at \in Calls
  BY DEF Inv, TypeOK, Statuses, Calls
<1>3. /\ st.active = status.active
      /\ st.backend = status.backend
      /\ st.migrated = status.migrated
      /\ st.observed = generation
  BY DEF Inv, TypeOK, Statuses
<1>4. at \in {"policy", "findroute"} /\ (at = "policy" => Runs(spec.life))
  OBVIOUS
<1>5. generation \in Nat
  BY ObjectFacts DEF Inv, TypeOK
<1>6. PassGood(v)
  <2> HIDE DEF st, at
  <2>1. v \in Passes /\ v.spec = spec /\ v.status = st /\ v.at = at /\ v.backend = None
    BY <1>1, <1>2 DEF Passes
  <2> HIDE DEF v
  <2>2. PassProven(v)
    BY <1>3, <1>4, <2>1 DEF PassProven, Holds, Inv, StatusHolds
  <2>3. PassFresh(v)
    BY <1>3, <1>4, <1>5, <2>1 DEF PassFresh, Rollouts
  <2>4. QED
    BY <2>1, <2>2, <2>3 DEF PassGood
<1>7. Becomes(o, v) /\ UNCHANGED <<manifestVars, status, route, policy, objects, proven>>
  BY DEF ListPaaSApps
<1> HIDE DEF v
<1>8. crossed' \in [Operator -> SUBSET Crossings]
  BY DEF ListPaaSApps, Inv, TypeOK
<1>9. ClusterHolds'
  BY <1>7 DEF Inv, ClusterHolds, Holds, Proven, MigrationGate, Exists
<1>10. QED
  BY <1>6, <1>7, <1>8, <1>9, PassStep DEF Inv, TypeOK

LEMMA UpsertNetworkPolicyStep ==
  ASSUME Inv, NEW o \in Operator, UpsertNetworkPolicy(o)
  PROVE  Inv'
<1> DEFINE v == [pass[o] EXCEPT !.at = "route"]
<1>1. PassGood(v)
  BY GoesOn DEF Inv, PassesGood, PassGood, PassFresh, UpsertNetworkPolicy, Calls, Rollouts
<1>2. Becomes(o, v)
  BY DEF UpsertNetworkPolicy, Goto, Becomes
<1> HIDE DEF v
<1>3. ClusterHolds'
  BY DEF Inv, ClusterHolds, Holds, Proven, MigrationGate, Exists, UpsertNetworkPolicy
<1>4. policy' \in {"absent", "live", "terminating"}
  BY DEF Inv, TypeOK, UpsertNetworkPolicy, Applied
<1>5. crossed' \in [Operator -> SUBSET Crossings]
  BY CrossesType DEF UpsertNetworkPolicy, Crossings
<1>6. QED
  BY <1>1, <1>2, <1>3, <1>4, <1>5, PassStep DEF UpsertNetworkPolicy, Inv, TypeOK

LEMMA RejectManifestStep ==
  ASSUME Inv, NEW o \in Operator, RejectManifest(o)
  PROVE  Inv'
<1> DEFINE w == pass[o]
           st == [w.status EXCEPT !.phase = "Degraded"]
<1>1. PassGood(w) /\ w.at = "route"
  BY DEF Inv, PassesGood, RejectManifest
<1>2. PICK at \in {"active", "putroute"}, backend \in {route.backend, None} :
        Becomes(o, [w EXCEPT !.status = st, !.at = at, !.backend = backend])
  BY <1>1 DEF RejectManifest, PassGood, Passes
<1> DEFINE v == [w EXCEPT !.status = st, !.at = at, !.backend = backend]
<1>3. /\ st \in Statuses
      /\ st.active = w.status.active
      /\ st.backend = w.status.backend
      /\ st.migrated = w.status.migrated
      /\ st.observed = w.status.observed
      /\ st.phase = "Degraded"
  BY <1>1 DEF PassGood, Passes, Statuses, Phase
<1>4. w \in Passes /\ at \in Calls /\ backend \in Release \cup {None}
  BY <1>1 DEF PassGood, Calls, Inv, TypeOK, Routes
<1>5. v \in Passes /\ v.spec = w.spec /\ v.status = st /\ v.at = at /\ v.backend = backend
  <2> HIDE DEF st, w
  <2>1. QED
    BY <1>3, <1>4 DEF Passes
<1> HIDE DEF v, st, w
<1>6. Runs(w.spec.life)
  BY <1>1 DEF PassGood, PassFresh, Rollouts
<1>7. Holds(v.backend)
  BY <1>5 DEF Inv, ClusterHolds, Holds
<1>8. PassGood(v)
  BY <1>1, <1>3, <1>5, <1>6, <1>7, Continues
<1>9. QED
  BY <1>2, <1>8, Quiet DEF v, RejectManifest

LEMMA AcceptManifestStep ==
  ASSUME Inv, NEW o \in Operator, AcceptManifest(o)
  PROVE  Inv'
<1> DEFINE w == pass[o]
           r == w.spec.release
           st == [w.status EXCEPT !.candidate = r, !.hash = w.spec.variant]
           at == IF r \in Migrating /\ w.status.migrated # r THEN "job" ELSE "deploy"
           v == [w EXCEPT !.status = st, !.backend = route.backend, !.at = at]
<1>1. PassGood(w) /\ w.at = "route"
  BY DEF Inv, PassesGood, AcceptManifest
<1>2. Becomes(o, v) /\ UNCHANGED <<manifestVars, status, clusterVars>>
  BY <1>1 DEF AcceptManifest, PassGood, Passes
<1>3. /\ st \in Statuses
      /\ st.active = w.status.active
      /\ st.backend = w.status.backend
      /\ st.migrated = w.status.migrated
      /\ st.observed = w.status.observed
  BY <1>1 DEF PassGood, Passes, Spaces, Statuses
<1>4. w \in Passes /\ at \in Calls /\ route.backend \in Release \cup {None} /\ r \in Release
  BY <1>1 DEF PassGood, Passes, Spaces, Calls, Inv, TypeOK, Routes
<1>5. at \in {"job", "deploy"} /\ (at = "deploy" /\ r \in Migrating => w.status.migrated = r)
  OBVIOUS
<1>6. v \in Passes /\ v.spec = w.spec /\ v.status = st /\ v.at = at /\ v.backend = route.backend
  <2> HIDE DEF st, w, at
  <2>1. QED
    BY <1>3, <1>4 DEF Passes
<1>7. r = v.spec.release
  BY <1>6
<1> HIDE DEF v, st, w, at, r
<1>8. PassProven(v)
  BY <1>1, <1>3, <1>4, <1>5, <1>6, <1>7, ObjectFacts
     DEF PassGood, PassProven, Inv, ClusterHolds, Migrated
<1>9. PassFresh(v)
  BY <1>1, <1>3, <1>5, <1>6 DEF PassGood, PassFresh, Rollouts
<1>10. QED
  BY <1>2, <1>6, <1>8, <1>9, Quiet DEF PassGood

(* Applying an object: the gate holds for what may be deployed.             *)
LEMMA ApplyKeeps ==
  ASSUME Inv, NEW x \in Object, Apply(x), UNCHANGED <<route, proven>>,
         (x.kind # "job" /\ x.release \in Migrating) => Job(x.release) \in proven
  PROVE  ClusterHolds' /\ objects' \in [Object -> States]
<1>1. objects' \in [Object -> States]
  BY DEF Inv, TypeOK, Apply, Applied, States
<1>2. \A y \in Object : (Exists(y)' => Exists(y) \/ y = x)
                      /\ (objects'[y] = "ready" => objects[y] = "ready")
  BY DEF Inv, TypeOK, Apply, Applied, Exists
<1>3. \A r, q : /\ Service(r).release = r /\ Service(r).kind # "job"
               /\ Deployment(r, q).release = r /\ Deployment(r, q).kind # "job"
  BY DEF Service, Deployment
<1>4. MigrationGate'
  <2>1. SUFFICES ASSUME NEW r \in Migrating,
                        Exists(Service(r))' \/ \E q \in Process : Exists(Deployment(r, q))'
                 PROVE  Job(r) \in proven
    BY DEF MigrationGate
  <2>2. r \in Release
    BY MigratingAssumption DEF Release
  <2>3. PICK y \in Object : /\ Exists(y)' /\ y.release = r /\ y.kind # "job"
                           /\ \/ y = Service(r)
                              \/ \E q \in Process : y = Deployment(r, q)
    BY <2>1, <2>2, <1>3, ObjectFacts
  <2>4. CASE y = x
    BY <2>3, <2>4
  <2>5. CASE y # x
    <3>1. Exists(y)
      BY <1>2, <2>3, <2>5
    <3>2. QED
      BY <2>3, <3>1 DEF Inv, ClusterHolds, MigrationGate
  <2>6. QED
    BY <2>4, <2>5
<1>5. Holds(route.backend)' /\ \A y \in Object : objects'[y] = "ready" => y \in proven'
  BY <1>2 DEF Inv, ClusterHolds, Holds, Proven
<1>6. QED
  BY <1>1, <1>4, <1>5 DEF ClusterHolds

LEMMA UpsertJobStep ==
  ASSUME Inv, NEW o \in Operator, UpsertJob(o)
  PROVE  Inv'
<1> DEFINE w == pass[o]
           x == Job(w.spec.release)
           v == [w EXCEPT !.at = "getjob"]
<1>1. PassGood(w) /\ w.at = "job" /\ w.spec.release \in Release
  BY DEF Inv, PassesGood, UpsertJob, PassGood, Passes, Spaces
<1>2. PassGood(v)
  BY <1>1, GoesOn DEF PassGood, PassFresh, Calls, Rollouts
<1>3. x \in Object /\ x.kind = "job"
  BY <1>1, ObjectFacts DEF Job
<1>4. Apply(x) /\ Becomes(o, v) /\ UNCHANGED <<manifestVars, status, route, policy, proven>>
  BY DEF UpsertJob, Goto, Becomes
<1> HIDE DEF v, x, w
<1>5. ClusterHolds' /\ objects' \in [Object -> States]
  BY <1>3, <1>4, ApplyKeeps
<1>6. crossed' \in [Operator -> SUBSET Crossings]
  BY CrossesType DEF UpsertJob, Crossings
<1>7. QED
  BY <1>2, <1>4, <1>5, <1>6, PassStep DEF Inv, TypeOK

(* What reads as ready has been ready.                                      *)
LEMMA ReadyWasProven ==
  ASSUME Inv, NEW x \in Object, "ready" \in Reports(x)
  PROVE  x \in proven
<1>1. CASE objects[x] = "terminating"
  BY <1>1 DEF Reports
<1>2. CASE objects[x] # "terminating"
  BY <1>2 DEF Reports, Inv, ClusterHolds
<1>3. QED
  BY <1>1, <1>2

LEMMA GetJobStep ==
  ASSUME Inv, NEW o \in Operator, GetJob(o)
  PROVE  Inv'
<1> DEFINE w == pass[o]
           r == w.spec.release
<1>1. PassGood(w) /\ w.at = "getjob" /\ r \in Release /\ Runs(w.spec.life)
  BY DEF Inv, PassesGood, GetJob, PassGood, Passes, Spaces, PassFresh, Rollouts
<1>2. PICK s \in Reports(Job(r)) :
        IF s = "ready"
          THEN Becomes(o, [w EXCEPT !.at = "deploy", !.status.migrated = w.spec.release])
          ELSE \E phase \in NotReadyPhases(s = "failed") : Becomes(o, NotReady(w, phase))
  BY DEF GetJob
<1>3. UNCHANGED <<manifestVars, status, clusterVars>>
  BY DEF GetJob
<1>4. CASE s # "ready"
  <2>1. PICK phase \in {"Degraded", "Deploying"} : Becomes(o, NotReady(w, phase))
    BY <1>2, <1>4 DEF NotReadyPhases
  <2>2. PassGood(NotReady(w, phase))
    BY <1>1, NotReadyGood
  <2>3. QED
    BY <1>3, <2>1, <2>2, Quiet
<1>5. CASE s = "ready"
  <2> DEFINE st == [w.status EXCEPT !.migrated = r]
             v == [w EXCEPT !.at = "deploy", !.status = st]
  <2>1. Job(r) \in proven
    BY <1>1, <1>2, <1>5, ReadyWasProven, ObjectFacts
  <2>2. Becomes(o, v)
    BY <1>1, <1>2, <1>5 DEF PassGood, Passes
  <2>3. /\ st \in Statuses
        /\ st.active = w.status.active
        /\ st.backend = w.status.backend
        /\ st.migrated = r
        /\ st.observed = w.status.observed
    BY <1>1 DEF PassGood, Passes, Statuses
  <2> HIDE DEF st, w, r
  <2>4. v \in Passes /\ v.spec = w.spec /\ v.status = st /\ v.at = "deploy"
        /\ v.backend = w.backend
    BY <1>1, <2>3 DEF PassGood, Passes, Calls
  <2> HIDE DEF v
  <2>5. PassProven(v)
    BY <1>1, <2>1, <2>3, <2>4 DEF PassGood, PassProven, Migrated, r
  <2>6. PassFresh(v)
    BY <1>1, <2>3, <2>4 DEF PassGood, PassFresh
  <2>7. QED
    BY <1>3, <2>2, <2>4, <2>5, <2>6, Quiet DEF PassGood
<1>6. QED
  BY <1>4, <1>5

LEMMA UpsertDeploymentStep ==
  ASSUME Inv, NEW o \in Operator, UpsertDeployment(o)
  PROVE  Inv'
<1> DEFINE w == pass[o]
           x == Deployment(w.spec.release, w.process)
           v == [w EXCEPT !.at = "observe"]
<1>1. PassGood(w) /\ w \in Passes /\ w.at = "deploy" /\ w.spec.release \in Release
      /\ w.process \in Process
  BY DEF Inv, PassesGood, UpsertDeployment, PassGood, Passes, Spaces
<1>2. v \in Passes /\ v.spec = w.spec /\ v.status = w.status /\ v.backend = w.backend
      /\ v.at = "observe"
  BY <1>1 DEF Passes, Calls
<1>3. x \in Object /\ x.release = w.spec.release
  BY <1>1, ObjectFacts DEF Deployment
<1>4. Apply(x) /\ Becomes(o, v) /\ UNCHANGED <<manifestVars, status, route, policy, proven>>
  BY DEF UpsertDeployment, Goto, Becomes
<1> HIDE DEF v, x, w
<1>5. PassGood(v)
  BY <1>1, <1>2, Rolls
<1>6. x.release \in Migrating => Job(x.release) \in proven
  BY <1>1, <1>3 DEF PassGood, PassProven
<1>7. ClusterHolds' /\ objects' \in [Object -> States]
  BY <1>3, <1>4, <1>6, ApplyKeeps
<1>8. crossed' \in [Operator -> SUBSET Crossings]
  BY CrossesType DEF UpsertDeployment, Crossings
<1>9. QED
  BY <1>4, <1>5, <1>7, <1>8, PassStep DEF Inv, TypeOK

(* To the next process of the loop, or to the loop that checks them.        *)
LEMMA NextProcessGood ==
  ASSUME NEW w, PassGood(w), w.at \in {"observe", "service"}
  PROVE  PassGood(NextProcess(w))
<1>1. PICK at \in {"deploy", "check"}, p \in Process :
        NextProcess(w) = [w EXCEPT !.at = at, !.process = p] /\ (at = "check" => p = 1)
  <2>1. w.process \in Process
    BY DEF PassGood, Passes
  <2>2. CASE w.process < LastProcess
    <3>1. NextProcess(w) = [w EXCEPT !.at = "deploy", !.process = w.process + 1]
      BY <2>2 DEF NextProcess, PassGood, Passes
    <3>2. w.process + 1 \in Process
      BY <2>1, <2>2, ProcessAssumption DEF Process
    <3>3. QED
      BY <3>1, <3>2
  <2>3. CASE ~(w.process < LastProcess)
    <3>1. NextProcess(w) = [w EXCEPT !.at = "check", !.process = 1]
      BY <2>3 DEF NextProcess
    <3>2. 1 \in Process
      BY ProcessAssumption DEF Process
    <3>3. QED
      BY <3>1, <3>2
  <2>4. QED
    BY <2>2, <2>3
<1> DEFINE v == [w EXCEPT !.at = at, !.process = p]
<1>2. v \in Passes /\ v.spec = w.spec /\ v.status = w.status /\ v.backend = w.backend
      /\ v.at = at /\ v.process = p
  BY DEF PassGood, Passes, Calls
<1> HIDE DEF v
<1>3. PassGood(v)
  BY <1>1, <1>2, Rolls
<1>4. QED
  BY <1>1, <1>3 DEF v

LEMMA GetDeploymentStep ==
  ASSUME Inv, NEW o \in Operator, GetDeployment(o)
  PROVE  Inv'
<1> DEFINE w == pass[o]
<1>1. PassGood(w) /\ w \in Passes /\ w.at = "observe"
  BY DEF Inv, PassesGood, GetDeployment, PassGood
<1>2. PICK s \in Reports(Deployment(w.spec.release, w.process)) :
        LET v == [w EXCEPT !.failed = @ \/ s = "failed"]
        IN Becomes(o, IF w.process = RouteProcess THEN [v EXCEPT !.at = "service"]
                                                  ELSE NextProcess(v))
  BY DEF GetDeployment
<1>3. UNCHANGED <<manifestVars, status, clusterVars>>
  BY DEF GetDeployment
<1> DEFINE v == [w EXCEPT !.failed = @ \/ s = "failed"]
           u == [v EXCEPT !.at = "service"]
<1>4. v \in Passes /\ v.spec = w.spec /\ v.status = w.status /\ v.backend = w.backend
      /\ v.at = "observe"
  BY <1>1 DEF Passes
<1>5. Becomes(o, u) \/ Becomes(o, NextProcess(v))
  BY <1>2
<1> HIDE DEF v, w
<1>6. PassGood(v)
  BY <1>1, <1>4, Rolls
<1>7. u \in Passes /\ u.spec = v.spec /\ u.status = v.status /\ u.backend = v.backend
      /\ u.at = "service"
  BY <1>4 DEF Passes, Calls
<1> HIDE DEF u
<1>8. PassGood(u)
  BY <1>4, <1>6, <1>7, Rolls
<1>9. PassGood(NextProcess(v))
  BY <1>4, <1>6, NextProcessGood
<1>10. QED
  BY <1>3, <1>5, <1>8, <1>9, Quiet

LEMMA UpsertServiceStep ==
  ASSUME Inv, NEW o \in Operator, UpsertService(o)
  PROVE  Inv'
<1> DEFINE w == pass[o]
           x == Service(w.spec.release)
           v == NextProcess(w)
<1>1. PassGood(w) /\ w.at = "service" /\ w.spec.release \in Release
  BY DEF Inv, PassesGood, UpsertService, PassGood, Passes, Spaces
<1>2. PassGood(v)
  BY <1>1, NextProcessGood
<1>3. x \in Object /\ x.release = w.spec.release
  BY <1>1, ObjectFacts DEF Service
<1>4. Apply(x) /\ Becomes(o, v) /\ UNCHANGED <<manifestVars, status, route, policy, proven>>
  BY DEF UpsertService
<1> HIDE DEF v, x, w
<1>5. x.release \in Migrating => Job(x.release) \in proven
  BY <1>1, <1>3 DEF PassGood, PassProven
<1>6. ClusterHolds' /\ objects' \in [Object -> States]
  BY <1>3, <1>4, <1>5, ApplyKeeps
<1>7. crossed' \in [Operator -> SUBSET Crossings]
  BY CrossesType DEF UpsertService, Crossings
<1>8. QED
  BY <1>2, <1>4, <1>6, <1>7, PassStep DEF Inv, TypeOK

(* Every process was seen ready, and the migration succeeded before.        *)
LEMMA RolloutCompleteGood ==
  ASSUME Inv, NEW w, PassGood(w), w.at = "check", w.process = LastProcess,
         Deployment(w.spec.release, w.process) \in proven
  PROVE  PassGood(RolloutComplete(w))
<1> DEFINE r == w.spec.release
           st == [w.status EXCEPT !.phase = "Ready", !.active = r, !.backend = r]
           serving == w.status.phase = "Ready" /\ w.status.active = r /\ w.backend = r
           v == [w EXCEPT !.at = "putroute", !.backend = r, !.process = 1,
                          !.serving = serving, !.status = st]
<1>1. RolloutComplete(w) = v
  BY DEF RolloutComplete, PassGood, Passes
<1>2. r \in Release /\ Proven(r)
  BY ProcessAssumption DEF PassGood, Passes, Spaces, PassProven, Proven, Process
<1>3. /\ st \in Statuses
      /\ st.active = r
      /\ st.backend = r
      /\ st.migrated = w.status.migrated
      /\ st.observed = w.status.observed
  BY <1>2 DEF PassGood, Passes, Statuses, Phase
<1>4. serving \in BOOLEAN /\ 1 \in Process /\ w \in Passes
  BY ProcessAssumption DEF Process, PassGood
<1> HIDE DEF st, serving, r
<1>5. v \in Passes /\ v.spec = w.spec /\ v.status = st /\ v.at = "putroute" /\ v.backend = r
  BY <1>2, <1>3, <1>4 DEF Passes, Calls
<1> HIDE DEF v
<1>6. PassProven(v)
  BY <1>2, <1>3, <1>5 DEF PassGood, PassProven, Holds
<1>7. PassFresh(v)
  BY <1>3, <1>5 DEF PassGood, PassFresh, Rollouts, r
<1>8. QED
  BY <1>1, <1>5, <1>6, <1>7 DEF PassGood

LEMMA CheckReadyStep ==
  ASSUME Inv, NEW o \in Operator, CheckReady(o)
  PROVE  Inv'
<1> DEFINE w == pass[o]
           x == Deployment(w.spec.release, w.process)
           v == [w EXCEPT !.process = @ + 1]
<1>1. PassGood(w) /\ w \in Passes /\ w.at = "check" /\ x \in Object /\ w.process \in Process
      /\ Runs(w.spec.life)
  BY ObjectFacts
     DEF Inv, PassesGood, CheckReady, PassGood, Passes, Spaces, PassFresh, Rollouts
<1>2. PICK s \in Reports(x) :
        IF w.failed \/ s # "ready"
          THEN \E phase \in NotReadyPhases(w.failed) : Becomes(o, NotReady(w, phase))
          ELSE Becomes(o, IF w.process < LastProcess THEN v ELSE RolloutComplete(w))
  BY DEF CheckReady
<1>3. UNCHANGED <<manifestVars, status, clusterVars>>
  BY DEF CheckReady
<1>4. CASE w.failed \/ s # "ready"
  <2>1. PICK phase \in {"Degraded", "Deploying"} : Becomes(o, NotReady(w, phase))
    BY <1>2, <1>4 DEF NotReadyPhases
  <2>2. PassGood(NotReady(w, phase))
    BY <1>1, NotReadyGood
  <2>3. QED
    BY <1>3, <2>1, <2>2, Quiet
<1>5. CASE ~(w.failed \/ s # "ready")
  <2>1. x \in proven
    BY <1>1, <1>2, <1>5, ReadyWasProven
  <2>2. CASE w.process < LastProcess
    <3>1. v \in Passes /\ v.spec = w.spec /\ v.status = w.status /\ v.backend = w.backend
          /\ v.at = "check" /\ v.process = w.process + 1
      BY <1>1, <2>2, ProcessAssumption DEF Passes, Process
    <3>2. PassProven(v)
      BY <1>1, <2>1, <3>1 DEF PassGood, PassProven, Process
    <3>3. PassFresh(v)
      BY <1>1, <3>1 DEF PassGood, PassFresh
    <3>4. Becomes(o, v)
      BY <1>2, <1>5, <2>2
    <3> HIDE DEF v
    <3>5. QED
      BY <1>3, <3>1, <3>2, <3>3, <3>4, Quiet DEF PassGood
  <2>3. CASE w.process >= LastProcess
    <3>1. w.process = LastProcess
      BY <1>1, <2>3, ProcessAssumption DEF Process
    <3>2. Becomes(o, RolloutComplete(w))
      BY <1>2, <1>5, <3>1, ProcessAssumption
    <3>3. PassGood(RolloutComplete(w))
      BY <1>1, <2>1, <3>1, RolloutCompleteGood
    <3>4. QED
      BY <1>3, <3>2, <3>3, Quiet
  <2>4. QED
    BY <1>1, <2>2, <2>3, ProcessAssumption DEF Process
<1>6. QED
  BY <1>4, <1>5

-----------------------------------------------------------------------------
(* The route and the status are written.                                    *)
LEMMA RouteToActiveStep ==
  ASSUME Inv, NEW o \in Operator, RouteToActive(o)
  PROVE  Inv'
<1> DEFINE w == pass[o]
           known == IF w.status.backend # None THEN w.status.backend ELSE w.backend
           st == [w.status EXCEPT !.backend = known]
           v == [w EXCEPT !.at = "putroute", !.backend = known, !.status = st]
           su == [w.status EXCEPT !.phase = "Degraded"]
           u == [w EXCEPT !.at = "putroute", !.backend = None, !.status = su]
<1>1. PassGood(w) /\ w \in Passes /\ w.at = "active" /\ Runs(w.spec.life)
      /\ w.status.phase # "Ready" /\ w.status \in Statuses
  BY DEF Inv, PassesGood, RouteToActive, PassGood, Passes, PassFresh, Rollouts
<1>2. (Becomes(o, v) /\ known = w.status.active) \/ Becomes(o, u)
  BY <1>1 DEF RouteToActive, Passes
<1>3. UNCHANGED <<manifestVars, status, clusterVars>>
  BY DEF RouteToActive
<1>4. CASE Becomes(o, v) /\ known = w.status.active
  <2>1. /\ st \in Statuses
        /\ st.active = w.status.active
        /\ st.backend = known
        /\ st.migrated = w.status.migrated
        /\ st.observed = w.status.observed
        /\ st.phase = w.status.phase
    BY <1>1, <1>4 DEF Statuses
  <2>2. known \in Release \cup {None} /\ Holds(known)
    BY <1>1, <1>4 DEF Passes, Statuses, PassGood, PassProven
  <2> HIDE DEF st, known
  <2>3. v \in Passes /\ v.spec = w.spec /\ v.status = st /\ v.at = "putroute"
        /\ v.backend = known
    BY <1>1, <2>1, <2>2 DEF Passes, Calls
  <2> HIDE DEF v, w
  <2>4. PassGood(v)
    BY <1>1, <1>4, <2>1, <2>2, <2>3, Continues
  <2>5. QED
    BY <1>3, <1>4, <2>4, Quiet
<1>5. CASE Becomes(o, u)
  <2>1. /\ su \in Statuses
        /\ su.active = w.status.active
        /\ su.backend = w.status.backend
        /\ su.migrated = w.status.migrated
        /\ su.observed = w.status.observed
        /\ su.phase = "Degraded"
    BY <1>1 DEF Statuses, Phase
  <2> HIDE DEF su
  <2>2. u \in Passes /\ u.spec = w.spec /\ u.status = su /\ u.at = "putroute"
        /\ u.backend = None
    BY <1>1, <2>1 DEF Passes, Calls
  <2> HIDE DEF u, w
  <2>3. PassGood(u)
    BY <1>1, <2>1, <2>2, Continues DEF Holds
  <2>4. QED
    BY <1>3, <1>5, <2>3, Quiet
<1>6. QED
  BY <1>2, <1>4, <1>5

LEMMA UpsertHTTPRouteStep ==
  ASSUME Inv, NEW o \in Operator, UpsertHTTPRoute(o)
  PROVE  Inv'
<1> DEFINE w == pass[o]
           v == [w EXCEPT !.at = "putstatus", !.backend = None]
<1>1. PassGood(w) /\ w \in Passes /\ w.at = "putroute" /\ w.backend \in Release \cup {None}
      /\ Holds(w.backend)
  BY DEF Inv, PassesGood, UpsertHTTPRoute, PassGood, Passes, PassProven
<1>2. Becomes(o, v) /\ UNCHANGED <<manifestVars, status, policy, objects, proven>>
  BY DEF UpsertHTTPRoute
<1>3. v \in Passes /\ v.spec = w.spec /\ v.status = w.status /\ v.at = "putstatus"
      /\ v.backend = None
  BY <1>1 DEF Passes, Calls
<1> HIDE DEF v
<1>4. PassProven(v)
  BY <1>1, <1>3 DEF PassGood, PassProven, Holds
<1>5. PassFresh(v)
  BY <1>1, <1>3 DEF PassGood, PassFresh, Rollouts
<1>6. route' \in Routes /\ route'.backend = w.backend
  BY <1>1 DEF UpsertHTTPRoute, Routes, Applied, Inv, TypeOK
<1>7. ClusterHolds'
  <2>1. PICK b : b = w.backend
    OBVIOUS
  <2>2. Holds(b)'
    BY <1>1, <1>2, <2>1 DEF Holds, Proven
  <2>3. Holds(route.backend)'
    BY <1>6, <2>1, <2>2 DEF Holds, Proven
  <2>4. QED
    BY <1>2, <2>3, ClusterAges DEF Exists, Inv, ClusterHolds
<1>8. crossed' \in [Operator -> SUBSET Crossings]
  BY CrossesType DEF UpsertHTTPRoute, Crossings
<1>9. QED
  BY <1>2, <1>3, <1>4, <1>5, <1>6, <1>7, <1>8, PassStep DEF PassGood, Inv, TypeOK

(* The status is that of the generation its pass has read.                  *)
LEMMA UpdateStatusStep ==
  ASSUME Inv, NEW o \in Operator, UpdateStatus(o)
  PROVE  Inv'
<1> DEFINE w == pass[o]
           new == w.status
           u == [NoPass EXCEPT !.at = "list", !.spec = w.spec]
<1>1. /\ PassGood(w) /\ w \in Passes /\ w.at = "putstatus" /\ new \in Statuses
      /\ w.spec \in Spaces
  BY DEF Inv, PassesGood, UpdateStatus, PassGood, Passes
<1>2. /\ status' = Patched(status, new)
      /\ Becomes(o, u) \/ Becomes(o, NoPass)
      /\ UNCHANGED <<manifestVars, clusterVars>>
  BY DEF UpdateStatus
<1>3. /\ NoPass.backend = None
      /\ NoPass.status.active = None
      /\ NoPass.status.backend = None
      /\ NoPass.status.migrated = None
      /\ NoPass.status.observed = 0
  BY DEF NoPass, NoStatus, None
<1>4. PassGood(u)
  <2>1. u \in Passes /\ u.spec = w.spec /\ u.status = NoPass.status /\ u.at = "list"
        /\ u.backend = None
    BY <1>1, <1>3, NoPassGood DEF PassGood, Passes, Calls
  <2> HIDE DEF u
  <2>2. PassProven(u)
    BY <1>3, <2>1 DEF PassProven, Holds, Migrated
  <2>3. PassFresh(u)
    BY <1>3, <2>1, ObjectFacts DEF PassFresh, Rollouts, Inv, TypeOK
  <2>4. QED
    BY <2>1, <2>2, <2>3 DEF PassGood
<1>5. PICK v : PassGood(v) /\ Becomes(o, v)
  BY <1>2, <1>4, NoPassGood
<1>6. PassesGood' /\ pass' \in [Operator -> Passes]
  <2>1. PassGood(v)'
    BY <1>2, <1>5, PassAges DEF clusterVars, manifestVars
  <2>2. QED
    BY <1>2, <1>5, <2>1, OnePass DEF Becomes, clusterVars
<1>7. /\ status' \in Statuses
      /\ status'.phase = new.phase
      /\ status'.observed = new.observed
      /\ status'.active = (IF new.active = None THEN status.active ELSE new.active)
      /\ status'.backend = (IF new.backend = None THEN status.backend ELSE new.backend)
      /\ status'.migrated = (IF new.migrated = None THEN status.migrated ELSE new.migrated)
  <2> HIDE DEF w
  <2>1. status \in Statuses
    BY DEF Inv, TypeOK
  <2>2. QED
    BY <1>1, <1>2, <2>1 DEF Patched, Statuses
<1>8. TypeOK'
  BY <1>2, <1>6, <1>7 DEF Inv, TypeOK, manifestVars, clusterVars
<1>9. ClusterHolds'
  BY <1>2 DEF Inv, ClusterHolds, Holds, Proven, MigrationGate, Exists, clusterVars
<1>10. StatusHolds'
  <2>1. /\ Holds(new.active) /\ Holds(status.active)
        /\ Holds(new.backend) /\ Holds(status.backend)
        /\ Migrated(new.migrated) /\ Migrated(status.migrated)
    BY <1>1 DEF PassGood, PassProven, Inv, StatusHolds
  <2>2. Holds(status.active)' /\ Holds(status.backend)' /\ Migrated(status.migrated)'
    BY <1>2, <1>7, <2>1 DEF Holds, Proven, Migrated, clusterVars
  <2>3. (new.phase = "Ready" /\ new.observed = generation) =>
          new.active = spec.release /\ Runs(spec.life) /\ spec.release \in Release
    BY <1>1 DEF PassGood, PassFresh, Passes, Spaces
  <2>4. ReadyIsOfTheManifest'
    BY <1>2, <1>7, <2>3, ObjectFacts DEF ReadyIsOfTheManifest, manifestVars
  <2>5. status'.observed <= generation'
    BY <1>1, <1>2, <1>7 DEF PassGood, PassFresh, manifestVars
  <2>6. QED
    BY <2>2, <2>4, <2>5 DEF StatusHolds
<1>11. QED
  BY <1>6, <1>8, <1>9, <1>10 DEF Inv

-----------------------------------------------------------------------------
(* Cleanup, suspension and deletion: a pass that leaves the rollout.        *)
LEMMA Leaves ==
  ASSUME NEW w, PassGood(w), NEW v \in Passes, v.spec = w.spec,
         v.status.observed = w.status.observed,
         v.status.active \in {w.status.active, None},
         v.status.backend \in {w.status.backend, None},
         v.status.migrated \in {w.status.migrated, None},
         v.backend = w.backend,
         v.at \in {"list", "delete", "recheck", "findpolicy", "putstatus"},
         v.at = "putstatus" => v.status.phase # "Ready"
  PROVE  PassGood(v)
<1>1. Holds(v.backend)
  BY DEF PassGood, PassProven
<1>2. QED
  BY <1>1, Continues DEF Rollouts

(* The next list, or the end of them.                                       *)
LEMMA AllListedGood ==
  ASSUME Inv, NEW w, PassGood(w)
  PROVE  PassGood(AllListed(w))
<1>1. PICK kind \in Kinds, at \in {"list", "recheck"} :
        \/ AllListed(w) = NoPass
        \/ AllListed(w) = [w EXCEPT !.kind = kind, !.at = at]
  <2>1. w.kind \in Kinds
    BY DEF PassGood, Passes
  <2>2. CASE w.kind = "job"
    <3>1. [w EXCEPT !.at = "recheck", !.kind = "deployment"]
            = [w EXCEPT !.kind = "deployment", !.at = "recheck"]
      BY DEF PassGood, Passes
    <3>2. QED
      BY <2>2, <3>1 DEF AllListed, NextKind, Kinds
  <2>3. CASE w.kind # "job"
    BY <2>3 DEF AllListed, NextKind, Kinds
  <2>4. QED
    BY <2>2, <2>3
<1> DEFINE v == [w EXCEPT !.kind = kind, !.at = at]
<1>2. v \in Passes /\ v.spec = w.spec /\ v.status = w.status /\ v.backend = w.backend
      /\ v.at = at
  BY DEF PassGood, Passes, Calls
<1> HIDE DEF v
<1>3. PassGood(v)
  BY <1>2, Leaves
<1>4. QED
  BY <1>1, <1>3, NoPassGood DEF v

LEMMA ListObjectsStep ==
  ASSUME Inv, NEW o \in Operator, ListObjects(o)
  PROVE  Inv'
<1> DEFINE w == pass[o]
           v == [w EXCEPT !.at = "delete", !.doomed = Doomed(w)]
<1>1. PassGood(w) /\ w \in Passes
  BY DEF Inv, PassesGood, PassGood
<1>2. Becomes(o, AllListed(w)) \/ Becomes(o, v)
  BY DEF ListObjects
<1>3. v \in Passes /\ v.spec = w.spec /\ v.status = w.status /\ v.backend = w.backend
      /\ v.at = "delete"
  <2>1. Doomed(w) \in SUBSET Object
    BY DEF Doomed
  <2>2. QED
    BY <1>1, <2>1 DEF Passes, Calls
<1> HIDE DEF v, w
<1>4. PassGood(v) /\ PassGood(AllListed(w))
  BY <1>1, <1>3, Leaves, AllListedGood
<1>5. QED
  BY <1>2, <1>4, Quiet DEF ListObjects

LEMMA DeleteObjectStep ==
  ASSUME Inv, NEW o \in Operator, NEW x \in Object, DeleteObject(o, x)
  PROVE  Inv'
<1> DEFINE w == pass[o]
           v == [w EXCEPT !.doomed = w.doomed \ {x}]
<1>1. PassGood(w) /\ w \in Passes /\ w.at = "delete"
  BY DEF Inv, PassesGood, PassGood, DeleteObject
<1>2. Becomes(o, AllListed(v)) \/ Becomes(o, v)
  BY DEF DeleteObject
<1>3. v \in Passes /\ v.spec = w.spec /\ v.status = w.status /\ v.backend = w.backend
      /\ v.at = "delete"
  BY <1>1 DEF Passes
<1> HIDE DEF v, w
<1>4. PassGood(v)
  BY <1>1, <1>3, Leaves
<1>5. PassGood(AllListed(v))
  BY <1>4, AllListedGood
<1>6. PICK s \in {"absent", "terminating"} :
        objects' = [objects EXCEPT ![x] = IF @ = "absent" THEN @ ELSE s]
  BY DEF DeleteObject
<1>7. UNCHANGED <<manifestVars, status, route, policy, proven, crossed>>
  BY DEF DeleteObject
<1>8. objects' \in [Object -> States]
      /\ \A y \in Object : /\ Exists(y)' => Exists(y)
                           /\ objects'[y] = "ready" => objects[y] = "ready"
  BY <1>6 DEF Inv, TypeOK, States, Exists
<1>9. ClusterHolds'
  <2>1. Holds(route.backend)'
    BY <1>7 DEF Inv, ClusterHolds, Holds, Proven
  <2>2. QED
    BY <1>7, <1>8, <2>1, ClusterAges DEF Inv, ClusterHolds
<1>10. QED
  BY <1>2, <1>4, <1>5, <1>7, <1>8, <1>9, PassStep DEF Inv, TypeOK

LEMMA FindRouteStep ==
  ASSUME Inv, NEW o \in Operator, FindRoute(o)
  PROVE  Inv'
<1> DEFINE at == IF route.state = "absent" THEN "list" ELSE "deleteroute"
           v == [pass[o] EXCEPT !.at = at]
<1>1. PassGood(v)
  BY GoesOn DEF Inv, PassesGood, Calls, Rollouts
<1>2. Becomes(o, v)
  BY DEF FindRoute, Goto, Becomes
<1> HIDE DEF v
<1>3. QED
  BY <1>1, <1>2, Quiet DEF FindRoute

(* A pass that ends with a status that is not Ready.                        *)
LEMMA Ends ==
  ASSUME NEW w, PassGood(w), NEW phase \in Phase \ {"Ready"}, NEW kind \in Kinds
  PROVE  PassGood([w EXCEPT !.at = "putstatus", !.kind = kind, !.status.phase = phase])
<1> DEFINE st == [w.status EXCEPT !.phase = phase]
           v == [w EXCEPT !.at = "putstatus", !.kind = kind, !.status = st]
<1>1. w \in Passes /\ w.status \in Statuses
  BY DEF PassGood, Passes
<1>2. /\ st \in Statuses
      /\ st.active = w.status.active
      /\ st.backend = w.status.backend
      /\ st.migrated = w.status.migrated
      /\ st.observed = w.status.observed
      /\ st.phase = phase
  BY <1>1 DEF Statuses
<1>3. [w EXCEPT !.at = "putstatus", !.kind = kind, !.status.phase = phase] = v
  BY <1>1 DEF Passes
<1> HIDE DEF st
<1>4. v \in Passes /\ v.spec = w.spec /\ v.status = st /\ v.backend = w.backend
      /\ v.at = "putstatus"
  BY <1>1, <1>2 DEF Passes, Calls
<1> HIDE DEF v
<1>5. QED
  BY <1>2, <1>3, <1>4, Leaves

LEMMA DeleteHTTPRouteStep ==
  ASSUME Inv, NEW o \in Operator, DeleteHTTPRoute(o)
  PROVE  Inv'
<1> DEFINE w == pass[o]
           phase == IF w.spec.life \in Deleting THEN "DeletingRoute" ELSE "Suspending"
           v == [w EXCEPT !.at = "putstatus", !.status.phase = phase]
           u == [w EXCEPT !.at = "putstatus", !.kind = w.kind, !.status.phase = phase]
<1>1. PassGood(w) /\ w \in Passes /\ w.kind \in Kinds /\ phase \in Phase \ {"Ready"}
  BY DEF Inv, PassesGood, PassGood, Passes, Phase
<1>2. Becomes(o, v) /\ UNCHANGED <<manifestVars, status, policy, objects, proven, crossed>>
  BY DEF DeleteHTTPRoute
<1>3. u = v
  BY <1>1 DEF Passes
<1>4. PassGood(u)
  BY <1>1, Ends
<1> HIDE DEF u, v
<1>5. route' \in Routes /\ route'.backend \in {route.backend, None}
  BY DEF DeleteHTTPRoute, Routes, Inv, TypeOK, None
<1>6. Holds(route.backend)'
  BY <1>2, <1>5 DEF Inv, ClusterHolds, Holds, Proven
<1>7. ClusterHolds'
  BY <1>2, <1>6, ClusterAges DEF Exists, Inv, ClusterHolds
<1>8. QED
  BY <1>2, <1>3, <1>4, <1>5, <1>7, PassStep DEF Inv, TypeOK

(* The statuses that a pass ends with when it has found nothing.            *)
LEMMA SuspendedGood ==
  ASSUME NEW w, PassGood(w)
  PROVE  PassGood([w EXCEPT !.at = "putstatus", !.kind = "deployment",
                            !.status.phase = "Suspended", !.status.backend = None,
                            !.status.candidate = None, !.status.hash = None])
<1> DEFINE st == [w.status EXCEPT !.phase = "Suspended", !.backend = None, !.candidate = None,
                                  !.hash = None]
           v == [w EXCEPT !.at = "putstatus", !.kind = "deployment", !.status = st]
<1>1. w \in Passes /\ w.status \in Statuses
  BY DEF PassGood, Passes
<1>2. /\ st \in Statuses
      /\ st.active = w.status.active
      /\ st.backend = None
      /\ st.migrated = w.status.migrated
      /\ st.observed = w.status.observed
      /\ st.phase = "Suspended"
  BY <1>1 DEF Statuses, Phase
<1>3. [w EXCEPT !.at = "putstatus", !.kind = "deployment", !.status.phase = "Suspended",
                !.status.backend = None, !.status.candidate = None, !.status.hash = None] = v
  BY <1>1 DEF Passes, Statuses
<1> HIDE DEF st
<1>4. v \in Passes /\ v.spec = w.spec /\ v.status = st /\ v.backend = w.backend
      /\ v.at = "putstatus"
  BY <1>1, <1>2 DEF Passes, Calls, Kinds
<1> HIDE DEF v
<1>5. QED
  BY <1>2, <1>3, <1>4, Leaves

LEMMA DeletedGood ==
  ASSUME Inv, NEW w, PassGood(w)
  PROVE  PassGood(Deleted(w))
<1> DEFINE phase == IF w.spec.life = "Deleted" THEN "Deleted" ELSE "Retaining"
           st == [NoStatus EXCEPT !.observed = w.status.observed, !.phase = phase]
           v == [w EXCEPT !.at = "putstatus", !.status = st]
<1>1. w \in Passes /\ w.status \in Statuses
  BY DEF PassGood, Passes
<1>2. NoStatus \in Statuses
  BY DEF NoStatus, Statuses, Phase
<1>3. /\ st \in Statuses
      /\ st.active = None
      /\ st.backend = None
      /\ st.migrated = None
      /\ st.observed = w.status.observed
      /\ st.phase # "Ready"
  BY <1>1, <1>2 DEF NoStatus, Statuses, Phase
<1>4. Deleted(w) = v
  BY DEF Deleted
<1> HIDE DEF st
<1>5. v \in Passes /\ v.spec = w.spec /\ v.status = st /\ v.backend = w.backend
      /\ v.at = "putstatus"
  BY <1>1, <1>3 DEF Passes, Calls
<1> HIDE DEF v
<1>6. QED
  BY <1>3, <1>4, <1>5, Leaves

LEMMA RecheckStep ==
  ASSUME Inv, NEW o \in Operator, Recheck(o)
  PROVE  Inv'
<1> DEFINE w == pass[o]
           pending == IF w.spec.life \in Deleting THEN "DeletingWorkloads" ELSE "Suspending"
           next == IF w.kind = "deployment" THEN "service" ELSE "job"
           w1 == [w EXCEPT !.at = "putstatus", !.kind = "deployment", !.status.phase = pending]
           w2 == [w EXCEPT !.at = "findpolicy", !.kind = "deployment"]
           w3 == [w EXCEPT !.at = "putstatus", !.kind = "deployment",
                           !.status.phase = "Suspended", !.status.backend = None,
                           !.status.candidate = None, !.status.hash = None]
           w4 == [w EXCEPT !.kind = next, !.at = "recheck"]
<1>1. PassGood(w) /\ w \in Passes /\ w.kind \in Kinds /\ pending \in Phase \ {"Ready"}
  BY DEF Inv, PassesGood, PassGood, Passes, Phase
<1>2. Becomes(o, w1) \/ Becomes(o, w2) \/ Becomes(o, w3) \/ Becomes(o, w4)
  <2>1. w.kind # "job" =>
          \A d : [NextKind(w, d) EXCEPT !.at = "recheck"] = w4
    BY <1>1 DEF NextKind, Passes
  <2>2. QED
    BY <2>1 DEF Recheck
<1>3. PassGood(w1)
  BY <1>1, Ends DEF Kinds
<1>4. PassGood(w3)
  BY <1>1, SuspendedGood
<1> HIDE DEF w1, w3
<1>5. w2 \in Passes /\ w2.spec = w.spec /\ w2.status = w.status /\ w2.backend = w.backend
      /\ w2.at = "findpolicy"
  BY <1>1 DEF Passes, Calls, Kinds
<1>6. w4 \in Passes /\ w4.spec = w.spec /\ w4.status = w.status /\ w4.backend = w.backend
      /\ w4.at = "recheck"
  BY <1>1 DEF Passes, Calls, Kinds
<1> HIDE DEF w2, w4, w
<1>7. PassGood(w2) /\ PassGood(w4)
  BY <1>1, <1>5, <1>6, Leaves
<1>8. QED
  BY <1>2, <1>3, <1>4, <1>7, Quiet DEF Recheck

LEMMA FindNetworkPolicyStep ==
  ASSUME Inv, NEW o \in Operator, FindNetworkPolicy(o)
  PROVE  Inv'
<1>1. PassGood(pass[o])
  BY DEF Inv, PassesGood
<1> DEFINE v == [pass[o] EXCEPT !.at = "deletepolicy"]
<1>2. PassGood(v)
  BY <1>1, GoesOn DEF Calls, Rollouts
<1>3. PassGood(Deleted(pass[o]))
  BY <1>1, DeletedGood
<1>4. Becomes(o, v) \/ Becomes(o, Deleted(pass[o]))
  BY DEF FindNetworkPolicy
<1> HIDE DEF v
<1>5. QED
  BY <1>2, <1>3, <1>4, Quiet DEF FindNetworkPolicy

LEMMA DeleteNetworkPolicyStep ==
  ASSUME Inv, NEW o \in Operator, DeleteNetworkPolicy(o)
  PROVE  Inv'
<1> DEFINE v == [pass[o] EXCEPT !.at = "checkpolicy"]
<1>1. PassGood(v)
  BY GoesOn DEF Inv, PassesGood, Calls, Rollouts
<1>2. Becomes(o, v)
  BY DEF DeleteNetworkPolicy, Goto, Becomes
<1> HIDE DEF v
<1>3. ClusterHolds'
  BY DEF Inv, ClusterHolds, Holds, Proven, MigrationGate, Exists, DeleteNetworkPolicy
<1>4. policy' \in {"absent", "live", "terminating"}
  BY DEF DeleteNetworkPolicy
<1>5. QED
  BY <1>1, <1>2, <1>3, <1>4, PassStep DEF DeleteNetworkPolicy, Inv, TypeOK

LEMMA CheckNetworkPolicyStep ==
  ASSUME Inv, NEW o \in Operator, CheckNetworkPolicy(o)
  PROVE  Inv'
<1> DEFINE w == pass[o]
           v == [w EXCEPT !.at = "putstatus", !.status.phase = "DeletingPolicy"]
           u == [w EXCEPT !.at = "putstatus", !.kind = w.kind, !.status.phase = "DeletingPolicy"]
<1>1. PassGood(w) /\ w \in Passes /\ w.kind \in Kinds
  BY DEF Inv, PassesGood, PassGood, Passes
<1>2. u = v
  BY <1>1 DEF Passes
<1>3. PassGood(u)
  BY <1>1, Ends DEF Phase
<1>4. PassGood(Deleted(w))
  BY <1>1, DeletedGood
<1>5. Becomes(o, v) \/ Becomes(o, Deleted(w))
  BY DEF CheckNetworkPolicy
<1> HIDE DEF u, v, w
<1>6. QED
  BY <1>2, <1>3, <1>4, <1>5, Quiet DEF CheckNetworkPolicy

LEMMA StopPassStep ==
  ASSUME Inv, NEW o \in Operator, StopPass(o)
  PROVE  Inv'
BY NoPassGood, Quiet DEF StopPass

LEMMA ReconcileStep ==
  ASSUME Inv, NEW o \in Operator, Reconcile(o)
  PROVE  Inv'
BY ListPaaSAppsStep, UpsertNetworkPolicyStep, RejectManifestStep, AcceptManifestStep,
   UpsertJobStep, GetJobStep, UpsertDeploymentStep, GetDeploymentStep, UpsertServiceStep,
   CheckReadyStep, RouteToActiveStep, UpsertHTTPRouteStep, UpdateStatusStep, ListObjectsStep,
   DeleteObjectStep, RecheckStep, FindRouteStep, DeleteHTTPRouteStep, FindNetworkPolicyStep,
   DeleteNetworkPolicyStep, CheckNetworkPolicyStep
   DEF Reconcile

-----------------------------------------------------------------------------
(* The manifest: what passes and the status know is of an older generation. *)
LEMMA ManifestStep ==
  ASSUME Inv, Manifest
  PROVE  Inv'
<1>1. /\ generation' = generation + 1
      /\ generation < MaxGeneration
      /\ UNCHANGED <<status, clusterVars, pass>>
  BY DEF Manifest, NextRelease, ChangeManifest, TransitionLifecycle, Renew
<1>2. spec' \in Spaces
  <2>1. CASE NextRelease
    <3>1. spec.release + 1 \in Release /\ 1 \in Variant
      BY <2>1, BoundsAssumption DEF NextRelease, Inv, TypeOK, Spaces, Release, Variant
    <3>2. spec' = [spec EXCEPT !.release = spec.release + 1, !.variant = 1]
      BY <2>1 DEF NextRelease, Renew
    <3>3. QED
      BY <3>1, <3>2 DEF Inv, TypeOK, Spaces
  <2>2. CASE ChangeManifest
    BY <2>2, BoundsAssumption DEF Inv, TypeOK, Spaces, ChangeManifest, Renew, Variant
  <2>3. CASE TransitionLifecycle
    BY <2>3 DEF Inv, TypeOK, Spaces, TransitionLifecycle, Renew
  <2>4. QED
    BY <2>1, <2>2, <2>3 DEF Manifest
<1>3. generation \in Nat \ {0} /\ generation' \in Generation
  BY <1>1, BoundsAssumption DEF Inv, TypeOK, Generation
<1>4. TypeOK'
  BY <1>1, <1>2, <1>3 DEF Inv, TypeOK, clusterVars
<1>5. ClusterHolds'
  BY <1>1 DEF Inv, ClusterHolds, Holds, Proven, MigrationGate, Exists, clusterVars
<1>6. StatusHolds'
  <2>1. status.observed \in Nat /\ status.observed <= generation
    <3>1. status.observed \in Generation \cup {None}
      BY DEF Inv, TypeOK, Statuses
    <3>2. QED
      BY <3>1 DEF Inv, StatusHolds, Generation, None
  <2>2. status'.observed < generation'
    BY <1>1, <1>3, <2>1
  <2>3. QED
    BY <1>1, <1>3, <2>2, <2>1
       DEF Inv, StatusHolds, ReadyIsOfTheManifest, Holds, Proven, Migrated, clusterVars
<1>7. PassesGood'
  <2>1. SUFFICES ASSUME NEW o \in Operator
                 PROVE  PassGood(pass[o])'
    BY DEF PassesGood
  <2>2. PICK w : w = pass[o]
    OBVIOUS
  <2>3. PassGood(w) /\ w \in Passes
    BY <2>2 DEF Inv, PassesGood, PassGood
  <2>4. w.status.observed \in Nat /\ w.status.observed <= generation
    <3>1. w.status.observed \in Generation \cup {None}
      BY <2>3 DEF Passes, Statuses
    <3>2. QED
      BY <2>3, <3>1 DEF PassGood, PassFresh, Generation, None
  <2>5. w.status.observed < generation'
    BY <1>1, <1>3, <2>4
  <2>6. PassFresh(w)'
    BY <1>1, <1>3, <2>3, <2>4, <2>5 DEF PassGood, PassFresh
  <2>7. PassProven(w)'
    BY <1>1, <2>3 DEF PassGood, PassProven, Holds, Proven, Migrated, clusterVars
  <2>8. PassGood(w)'
    BY <2>3, <2>6, <2>7 DEF PassGood, Passes, Spaces, Statuses
  <2>9. pass'[o] = w
    BY <1>1, <2>2
  <2>10. QED
    BY <2>8, <2>9 DEF PassGood, PassProven, PassFresh
<1>8. QED
  BY <1>4, <1>5, <1>6, <1>7 DEF Inv

(* The cluster: objects come to be ready and go away, none is created.      *)
LEMMA ClusterStep ==
  ASSUME Inv, UNCHANGED <<manifestVars, status, pass, crossed>>,
         proven \subseteq proven', proven' \subseteq Object,
         objects' \in [Object -> States],
         route' \in Routes, route'.backend \in {route.backend, None},
         policy' \in {"absent", "live", "terminating"},
         \A x \in Object : Exists(x)' => Exists(x),
         \A x \in Object : objects'[x] = "ready" => x \in proven'
  PROVE  Inv'
<1>1. Holds(route.backend)'
  BY DEF Inv, ClusterHolds, Holds, Proven
<1>2. ClusterHolds'
  BY <1>1, ClusterAges
<1>3. StatusHolds'
  BY StatusAges
<1>4. PassesGood'
  <2>1. SUFFICES ASSUME NEW o \in Operator
                 PROVE  PassGood(pass[o])'
    BY DEF PassesGood
  <2>2. PICK w : w = pass[o]
    OBVIOUS
  <2>3. PassGood(w)'
    BY <2>2, PassAges DEF Inv, PassesGood
  <2>4. QED
    BY <2>2, <2>3 DEF PassGood, PassProven, PassFresh
<1>5. TypeOK'
  BY DEF Inv, TypeOK, manifestVars
<1>6. QED
  BY <1>2, <1>3, <1>4, <1>5 DEF Inv

LEMMA WorkloadStep ==
  ASSUME Inv, NEW x \in Object, BecomeReady(x) \/ Trouble(x) \/ Remove(x)
  PROVE  Inv'
<1>1. CASE BecomeReady(x)
  <2>1. /\ objects' \in [Object -> States]
        /\ \A y \in Object : /\ Exists(y)' => Exists(y)
                             /\ objects'[y] = "ready" => objects[y] = "ready" \/ y = x
    BY <1>1 DEF BecomeReady, Inv, TypeOK, States, Exists
  <2>2. QED
    BY <1>1, <2>1, ClusterStep DEF BecomeReady, Inv, TypeOK, ClusterHolds
<1>2. CASE Trouble(x) \/ Remove(x)
  <2>1. /\ objects' \in [Object -> States]
        /\ \A y \in Object : /\ Exists(y)' => Exists(y)
                             /\ objects'[y] = "ready" => objects[y] = "ready"
    BY <1>2 DEF Trouble, Fail, LoseReadiness, Remove, Inv, TypeOK, States, Exists
  <2>2. UNCHANGED <<manifestVars, status, pass, route, policy, proven, crossed>>
    BY <1>2 DEF Trouble, Fail, LoseReadiness, Remove
  <2>3. QED
    BY <2>1, <2>2, ClusterStep DEF Inv, TypeOK, ClusterHolds
<1>3. QED
  BY <1>1, <1>2

LEMMA RemovalStep ==
  ASSUME Inv, RemoveRoute \/ RemovePolicy
  PROVE  Inv'
<1>1. UNCHANGED <<manifestVars, status, pass, objects, proven, crossed>>
  BY DEF RemoveRoute, RemovePolicy
<1>2. /\ route' \in Routes
      /\ route'.backend \in {route.backend, None}
      /\ policy' \in {"absent", "live", "terminating"}
  BY DEF RemoveRoute, RemovePolicy, Routes, Inv, TypeOK
<1>3. QED
  BY <1>1, <1>2, ClusterStep DEF Inv, TypeOK, ClusterHolds, Exists

-----------------------------------------------------------------------------
LEMMA InitInv == Init => Inv
<1> SUFFICES ASSUME Init PROVE Inv
  OBVIOUS
<1>1. TypeOK
  <2>1. FirstSpec \in Spaces
    BY BoundsAssumption DEF FirstSpec, Spaces, Release, Variant, Lifecycle
  <2>2. NoStatus \in Statuses
    BY DEF NoStatus, Statuses, Phase
  <2>3. generation \in Generation
    BY BoundsAssumption DEF Init, Generation
  <2>4. [o \in Operator |-> NoPass] \in [Operator -> Passes]
    BY NoPassType
  <2>5. QED
    BY <2>1, <2>2, <2>3, <2>4 DEF Init, TypeOK, Routes, States
<1>2. ClusterHolds
  BY ObjectFacts, MigratingAssumption
     DEF Init, ClusterHolds, Holds, MigrationGate, Exists, Release
<1> DEFINE Empty(s) == /\ s.active = None /\ s.backend = None /\ s.migrated = None
                       /\ s.observed = 0 /\ s.phase # "Ready"
<1>3. Empty(NoStatus)
  BY DEF NoStatus, None
<1>4. StatusHolds
  <2>1. Empty(status) /\ generation = 1
    BY <1>3 DEF Init
  <2>2. QED
    BY <2>1 DEF StatusHolds, Holds, Migrated, ReadyIsOfTheManifest
<1>5. PassesGood
  <2>1. NoPass \in Passes /\ NoPass.at = "idle" /\ NoPass.backend = None
        /\ Empty(NoPass.status)
    BY <1>3, NoPassType DEF NoPass
  <2>2. PassProven(NoPass)
    BY <2>1 DEF PassProven, Holds, Migrated
  <2>3. PassFresh(NoPass)
    BY <2>1 DEF PassFresh, Rollouts, Init
  <2>4. QED
    BY <2>1, <2>2, <2>3 DEF PassesGood, PassGood, Init
<1>6. QED
  BY <1>1, <1>2, <1>4, <1>5 DEF Inv

(* Every step of the operators, of the manifest and of the cluster keeps    *)
(* the invariant.                                                           *)
LEMMA NextInv == Inv /\ [Next]_vars => Inv'
<1> SUFFICES ASSUME Inv, [Next]_vars PROVE Inv'
  OBVIOUS
<1>1. CASE \E o \in Operator : Reconcile(o) \/ StopPass(o)
  BY <1>1, ReconcileStep, StopPassStep
<1>2. CASE Manifest
  BY <1>2, ManifestStep
<1>3. CASE \E x \in Object : BecomeReady(x) \/ Trouble(x) \/ Remove(x)
  BY <1>3, WorkloadStep
<1>4. CASE RemoveRoute \/ RemovePolicy
  BY <1>4, RemovalStep
<1>5. CASE UNCHANGED vars
  <2>1. UNCHANGED <<manifestVars, status, pass, route, policy, objects, proven, crossed>>
    BY <1>5 DEF vars, manifestVars
  <2>2. QED
    BY <2>1, ClusterStep DEF Inv, TypeOK, ClusterHolds, Exists
<1>6. QED
  BY <1>1, <1>2, <1>3, <1>4, <1>5 DEF Next

(* What the operators remember stays usable, however old it is.             *)
THEOREM OperatorInvariance == Spec => []Inv
BY InitInv, NextInv, PTL DEF Spec

(* The operator's variables, and what its passes carry, have their types.   *)
THEOREM OperatorTypes == Spec => []TypeOK
<1>1. Inv => TypeOK
  BY DEF Inv
<1>2. QED
  BY <1>1, OperatorInvariance, PTL

(* However many replicas act on copies of whatever age, the route points    *)
(* only to a release that has been ready in every process.                  *)
THEOREM TrafficHolds == Spec => []TrafficWasReady
<1>1. Inv => TrafficWasReady
  BY DEF Inv, ClusterHolds, Holds, Proven, TrafficWasReady
<1>2. QED
  BY <1>1, OperatorInvariance, PTL

(* No replica creates a workload of a release before its migration has      *)
(* succeeded.                                                               *)
THEOREM GateHolds == Spec => []MigrationGate
<1>1. Inv => MigrationGate
  BY DEF Inv, ClusterHolds
<1>2. QED
  BY <1>1, OperatorInvariance, PTL

(* A Ready status of the current generation is the current manifest's.      *)
THEOREM ReadyHolds == Spec => []ReadyIsOfTheManifest
<1>1. Inv => ReadyIsOfTheManifest
  BY DEF Inv, StatusHolds
<1>2. QED
  BY <1>1, OperatorInvariance, PTL
-----------------------------------------------------------------------------
(***************************************************************************)
(* The sight of a pass.  What a pass has seen of the cluster does not come  *)
(* back by itself: only operators create objects, and a pass that removes   *)
(* has seen the route gone and then one kind of object after the other      *)
(* (PassSees).  Another replica may bring something back, or move the       *)
(* route, and then the pass is judged as if that were not there: SeenRoute, *)
(* SeenPolicy and SeenObjects are the cluster without what has crossed it.  *)
(***************************************************************************)
Final == {"Suspended", "Retaining", "Deleted"}
Removals == {"recheck", "findpolicy", "deletepolicy", "checkpolicy"}

NoRoute == [state |-> "absent", backend |-> None]

(* The kinds that the loop of rechecks has found to be gone.                *)
Rechecked(w) ==
  CASE w.at = "recheck" /\ w.kind = "service" -> {"deployment"}
    [] w.at = "recheck" /\ w.kind = "job" -> {"deployment", "service"}
    [] w.at = "recheck" /\ w.kind = "deployment" -> {}
    [] w.at \in Removals \ {"recheck"} -> Kinds
    [] w.at = "putstatus" /\ w.status.phase \in Final -> Kinds
    [] OTHER -> {}

(* Which pass is at which call.                                             *)
PassShape(w) ==
  /\ w.at \in Rollouts \cup {"putroute"} => Runs(w.spec.life)
  /\ w.at \in Removals \cup {"findroute", "deleteroute"} => ~Runs(w.spec.life)
  /\ w.serving => /\ w.at \in {"putroute", "putstatus"}
                  /\ Runs(w.spec.life)
                  /\ w.at = "putroute" => w.backend = w.spec.release
  /\ w.at \in {"active", "putroute"} => w.status.phase \notin Final
  /\ w.at = "idle" => w = NoPass
  /\ (w.at = "delete" /\ Runs(w.spec.life)) =>
       \A x \in w.doomed : x.release # w.spec.release

(* A pass whose route, policy and objects are as given has seen them so.    *)
PassSees(w, to, net, held) ==
  /\ (\/ w.at = "putstatus" /\ w.serving
      \/ w.at \in {"list", "delete"} /\ Runs(w.spec.life))
       => to.backend \in {w.spec.release, None}
  /\ (\/ w.at \in {"list", "delete"} \cup Removals /\ ~Runs(w.spec.life)
      \/ w.at = "putstatus" /\ w.status.phase \in Final)
       => to = NoRoute
  /\ \A x \in Object : x.kind \in Rechecked(w) => held[x] = "absent"
  /\ w.at = "putstatus" /\ w.status.phase \in {"Retaining", "Deleted"} => net = "absent"

SeenRoute(o) == IF "route" \in crossed[o] THEN NoRoute ELSE route
SeenPolicy(o) == IF "policy" \in crossed[o] THEN "absent" ELSE policy
SeenObjects(o) ==
  IF "objects" \in crossed[o] THEN [x \in Object |-> "absent"] ELSE objects

OwnSight(o) == /\ PassShape(pass[o])
               /\ PassSees(pass[o], SeenRoute(o), SeenPolicy(o), SeenObjects(o))
SightInv == \A o \in Operator : OwnSight(o)

-----------------------------------------------------------------------------
(* A replica between two passes has seen nothing.                           *)
LEMMA NoPassSees ==
  ASSUME NEW to, NEW net, NEW held
  PROVE  PassShape(NoPass) /\ PassSees(NoPass, to, net, held)
<1>1. NoPass.at = "idle" /\ NoPass.serving = FALSE
  BY DEF NoPass
<1>2. QED
  BY <1>1 DEF PassShape, PassSees, Rechecked, Rollouts, Removals

(* A step of a replica: what its pass has then seen.                        *)
LEMMA SightPass ==
  ASSUME Inv, NEW o \in Operator, NEW w, Becomes(o, w), PassShape(w),
         PassSees(w, SeenRoute(o)', SeenPolicy(o)', SeenObjects(o)')
  PROVE  OwnSight(o)'
<1>1. pass'[o] = w
  BY DEF Becomes, Inv, TypeOK
<1>2. QED
  BY <1>1 DEF OwnSight

(* A step that changes nothing of the cluster.                              *)
LEMMA SightStays ==
  ASSUME NEW o \in Operator, UNCHANGED <<route, policy, objects, crossed>>
  PROVE  /\ SeenRoute(o)' = SeenRoute(o)
         /\ SeenPolicy(o)' = SeenPolicy(o)
         /\ SeenObjects(o)' = SeenObjects(o)
BY DEF SeenRoute, SeenPolicy, SeenObjects

(* Nothing that a pass has seen to be gone comes back by itself.            *)
LEMMA SightLasts ==
  ASSUME NEW w, NEW to, NEW net, NEW held, NEW later, NEW net2, NEW held2,
         PassSees(w, to, net, held),
         later.backend \in {to.backend, None},
         to = NoRoute => later = to,
         net = "absent" => net2 = "absent",
         \A x \in Object : held[x] = "absent" => held2[x] = "absent"
  PROVE  PassSees(w, later, net2, held2)
BY DEF PassSees

(* A step outside a pass: it creates nothing, or it crosses the pass.       *)
LEMMA OnlookerStep ==
  ASSUME SightInv, NEW q \in Operator, pass'[q] = pass[q], crossed[q] \subseteq crossed'[q],
         \/ "route" \in crossed'[q]
         \/ route'.backend \in {route.backend, None} /\ (route = NoRoute => route' = route),
         "policy" \in crossed'[q] \/ (policy = "absent" => policy' = "absent"),
         \/ "objects" \in crossed'[q]
         \/ \A x \in Object : objects[x] = "absent" => objects'[x] = "absent"
  PROVE  OwnSight(q)'
<1>1. PICK w : w = pass[q]
  OBVIOUS
<1>2. PassShape(w) /\ PassSees(w, SeenRoute(q), SeenPolicy(q), SeenObjects(q))
  BY <1>1 DEF SightInv, OwnSight
<1>3. /\ SeenRoute(q)'.backend \in {SeenRoute(q).backend, None}
      /\ SeenRoute(q) = NoRoute => SeenRoute(q)' = SeenRoute(q)
  BY DEF SeenRoute, NoRoute
<1>4. SeenPolicy(q) = "absent" => SeenPolicy(q)' = "absent"
  BY DEF SeenPolicy
<1>5. \A x \in Object : SeenObjects(q)[x] = "absent" => SeenObjects(q)'[x] = "absent"
  BY DEF SeenObjects
<1>6. PassSees(w, SeenRoute(q)', SeenPolicy(q)', SeenObjects(q)')
  BY <1>2, <1>3, <1>4, <1>5, SightLasts
<1>7. QED
  BY <1>1, <1>2, <1>6 DEF OwnSight

(* What the pass of a replica is.                                           *)
LEMMA PassOf ==
  ASSUME Inv, SightInv, NEW o \in Operator
  PROVE  /\ pass[o] \in Passes
         /\ PassShape(pass[o])
         /\ PassSees(pass[o], SeenRoute(o), SeenPolicy(o), SeenObjects(o))
BY DEF Inv, TypeOK, SightInv, OwnSight

(* Calls that neither delete nor report an end: there is nothing to see.    *)
LEMMA Unsighted ==
  ASSUME NEW w, w.serving = FALSE, w.at \notin {"list", "delete"} \cup Removals,
         w.at = "putstatus" => w.status.phase \notin Final,
         NEW to, NEW net, NEW held
  PROVE  PassSees(w, to, net, held)
BY DEF PassSees, Rechecked, Removals, Final
(* A rollout makes no claim on what it has seen before its route is set.    *)
LEMMA RollsOn ==
  ASSUME NEW v, v.serving = FALSE, v.at \in Rollouts \cup {"putroute"}, Runs(v.spec.life),
         v.at \in {"active", "putroute"} => v.status.phase \notin Final,
         NEW to, NEW net, NEW held
  PROVE  PassShape(v) /\ PassSees(v, to, net, held)
<1>1. v.at \notin {"list", "delete", "putstatus", "findroute", "deleteroute"} \cup Removals
  BY DEF Rollouts, Removals
<1>2. PassShape(v)
  BY <1>1 DEF PassShape, Rollouts
<1>3. PassSees(v, to, net, held)
  BY <1>1, Unsighted
<1>4. QED
  BY <1>2, <1>3

(* A rollout that has been taken up serves nothing yet.                     *)
LEMMA RollingPass ==
  ASSUME Inv, SightInv, NEW o \in Operator, pass[o].at \in Rollouts
  PROVE  pass[o] \in Passes /\ pass[o].serving = FALSE /\ Runs(pass[o].spec.life)
BY PassOf DEF PassShape, Passes, Rollouts

(* Nor does one whose workloads are not ready.                              *)
LEMMA NotReadySight ==
  ASSUME NEW w \in Passes, w.serving = FALSE, Runs(w.spec.life),
         NEW phase \in {"Degraded", "Deploying"}, NEW to, NEW net, NEW held
  PROVE  PassShape(NotReady(w, phase)) /\ PassSees(NotReady(w, phase), to, net, held)
<1> DEFINE v == NotReady(w, phase)
<1>1. PICK at \in {"active", "putroute"}, backend \in {w.backend, None} :
        v = [w EXCEPT !.status.phase = phase, !.failed = FALSE, !.process = 1,
                      !.at = at, !.backend = backend]
  BY DEF NotReady, Passes
<1>2. v.serving = FALSE /\ v.at = at /\ v.spec = w.spec
  BY <1>1 DEF Passes
<1>3. v.status.phase = phase
  BY <1>1 DEF Passes, Statuses
<1> HIDE DEF v
<1>4. PassShape(v) /\ PassSees(v, to, net, held)
  BY <1>2, <1>3, RollsOn DEF Rollouts, Final
<1>5. QED
  BY <1>4 DEF v

(* The calls of a rollout, one by one.                                      *)
LEMMA ListPaaSAppsSight ==
  ASSUME Inv, SightInv, NEW o \in Operator, ListPaaSApps(o)
  PROVE  OwnSight(o)'
<1>1. PICK v : v = [NoPass EXCEPT
       !.spec = spec, !.status = [status EXCEPT !.observed = generation],
       !.at = IF Runs(spec.life) THEN "policy" ELSE "findroute"]
  OBVIOUS
<1>2. /\ v.serving = FALSE /\ v.spec = spec
      /\ v.at = IF Runs(spec.life) THEN "policy" ELSE "findroute"
  BY <1>1, NoPassType DEF Passes, NoPass
<1>3. PassShape(v)
  BY <1>2 DEF PassShape, Rollouts, Removals
<1>4. PassSees(v, SeenRoute(o)', SeenPolicy(o)', SeenObjects(o)')
  BY <1>2, Unsighted DEF Removals
<1>5. QED
  BY <1>1, <1>3, <1>4, SightPass DEF ListPaaSApps

LEMMA UpsertNetworkPolicySight ==
  ASSUME Inv, SightInv, NEW o \in Operator, UpsertNetworkPolicy(o)
  PROVE  OwnSight(o)'
<1>1. PICK v : v = [pass[o] EXCEPT !.at = "route"]
  OBVIOUS
<1>2. v.serving = FALSE /\ v.at = "route" /\ Runs(v.spec.life)
  BY <1>1, RollingPass DEF UpsertNetworkPolicy, Rollouts, Passes
<1>3. PassShape(v) /\ PassSees(v, SeenRoute(o)', SeenPolicy(o)', SeenObjects(o)')
  BY <1>2, RollsOn DEF Rollouts
<1>4. Becomes(o, v)
  BY <1>1 DEF UpsertNetworkPolicy, Goto, Becomes
<1>5. QED
  BY <1>3, <1>4, SightPass

LEMMA RejectManifestSight ==
  ASSUME Inv, SightInv, NEW o \in Operator, RejectManifest(o)
  PROVE  OwnSight(o)'
<1>1. PICK w : w = pass[o]
  OBVIOUS
<1>2. w \in Passes /\ w.serving = FALSE /\ Runs(w.spec.life)
  BY <1>1, RollingPass DEF RejectManifest, Rollouts
<1> DEFINE at == IF w.status.active # None THEN "active" ELSE "putroute"
           backend == IF w.status.active # None THEN route.backend ELSE None
           v == [w EXCEPT !.status.phase = "Degraded", !.at = at, !.backend = backend]
<1>3. at \in {"active", "putroute"} /\ Becomes(o, v)
  BY <1>1 DEF RejectManifest
<1> HIDE DEF at, backend
<1>4. v.serving = FALSE /\ v.at = at /\ v.spec = w.spec
  BY <1>2, <1>3 DEF Passes
<1>5. v.status.phase = "Degraded"
  BY <1>2, <1>3 DEF Passes, Statuses
<1> HIDE DEF v
<1>6. PassShape(v) /\ PassSees(v, SeenRoute(o)', SeenPolicy(o)', SeenObjects(o)')
  BY <1>2, <1>3, <1>4, <1>5, RollsOn DEF Rollouts, Final
<1>7. QED
  BY <1>3, <1>6, SightPass

LEMMA AcceptManifestSight ==
  ASSUME Inv, SightInv, NEW o \in Operator, AcceptManifest(o)
  PROVE  OwnSight(o)'
<1>1. PICK w : w = pass[o]
  OBVIOUS
<1>2. w \in Passes /\ w.serving = FALSE /\ Runs(w.spec.life)
  BY <1>1, RollingPass DEF AcceptManifest, Rollouts
<1>3. PICK v, at :
        /\ at \in {"job", "deploy"}
        /\ v = [w EXCEPT !.status.candidate = w.spec.release, !.status.hash = w.spec.variant,
                         !.backend = route.backend, !.at = at]
        /\ Becomes(o, v)
  BY <1>1 DEF AcceptManifest
<1>4. v.serving = FALSE /\ v.at = at /\ v.spec = w.spec
  BY <1>2, <1>3 DEF Passes
<1>5. PassShape(v) /\ PassSees(v, SeenRoute(o)', SeenPolicy(o)', SeenObjects(o)')
  BY <1>2, <1>3, <1>4, RollsOn DEF Rollouts
<1>6. QED
  BY <1>3, <1>5, SightPass
(* A rollout that goes on.                                                  *)
LEMMA RollsTo ==
  ASSUME Inv, NEW o \in Operator, NEW v, Becomes(o, v),
         v.serving = FALSE, Runs(v.spec.life), v.at \in Rollouts \ {"active"}
  PROVE  OwnSight(o)'
<1>1. PassShape(v) /\ PassSees(v, SeenRoute(o)', SeenPolicy(o)', SeenObjects(o)')
  BY RollsOn DEF Rollouts
<1>2. QED
  BY <1>1, SightPass

(* The loop over the processes leaves the rest of the pass alone.           *)
LEMMA NextProcessSight ==
  ASSUME NEW w \in Passes
  PROVE  /\ NextProcess(w).serving = w.serving
         /\ NextProcess(w).spec = w.spec
         /\ NextProcess(w).at \in {"deploy", "check"}
BY DEF NextProcess, Passes

(* A job, a deployment or a service is applied.                             *)
LEMMA ApplySight ==
  ASSUME Inv, SightInv, NEW o \in Operator,
         UpsertJob(o) \/ UpsertDeployment(o) \/ UpsertService(o)
  PROVE  OwnSight(o)'
<1>1. PICK w : w = pass[o]
  OBVIOUS
<1>2. w \in Passes /\ w.serving = FALSE /\ Runs(w.spec.life)
  BY <1>1, RollingPass DEF UpsertJob, UpsertDeployment, UpsertService, Rollouts
<1>3. ASSUME NEW at \in {"getjob", "observe"}, Goto(o, at)
      PROVE  OwnSight(o)'
  <2>1. PICK v : v = [w EXCEPT !.at = at]
    OBVIOUS
  <2>2. v.serving = FALSE /\ v.spec = w.spec /\ v.at = at
    BY <1>2, <2>1 DEF Passes
  <2>3. Becomes(o, v)
    BY <1>1, <1>3, <2>1 DEF Goto, Becomes
  <2>4. QED
    BY <1>2, <2>2, <2>3, RollsTo DEF Rollouts
<1>4. ASSUME Becomes(o, NextProcess(w))
      PROVE  OwnSight(o)'
  <2>1. PICK v : v = NextProcess(w)
    OBVIOUS
  <2>2. v.serving = FALSE /\ v.spec = w.spec /\ v.at \in Rollouts \ {"active"}
    BY <1>2, <2>1, NextProcessSight DEF Rollouts
  <2>3. QED
    BY <1>2, <1>4, <2>1, <2>2, RollsTo
<1>5. QED
  BY <1>1, <1>3, <1>4 DEF UpsertJob, UpsertDeployment, UpsertService

(* The migration is awaited.                                                *)
LEMMA GetJobSight ==
  ASSUME Inv, SightInv, NEW o \in Operator, GetJob(o)
  PROVE  OwnSight(o)'
<1>1. PICK w : w = pass[o]
  OBVIOUS
<1>2. w \in Passes /\ w.serving = FALSE /\ Runs(w.spec.life)
  BY <1>1, RollingPass DEF GetJob, Rollouts
<1>3. PICK v : /\ Becomes(o, v)
               /\ \/ v = [w EXCEPT !.at = "deploy", !.status.migrated = w.spec.release]
                  \/ \E phase \in {"Degraded", "Deploying"} : v = NotReady(w, phase)
  BY <1>1 DEF GetJob, NotReadyPhases
<1>4. CASE v = [w EXCEPT !.at = "deploy", !.status.migrated = w.spec.release]
  <2>1. v.serving = FALSE /\ v.at = "deploy" /\ v.spec = w.spec
    BY <1>2, <1>4 DEF Passes
  <2>2. PassShape(v) /\ PassSees(v, SeenRoute(o)', SeenPolicy(o)', SeenObjects(o)')
    BY <1>2, <2>1, RollsOn DEF Rollouts
  <2>3. QED
    BY <1>3, <2>2, SightPass
<1>5. CASE \E phase \in {"Degraded", "Deploying"} : v = NotReady(w, phase)
  <2>1. PassShape(v) /\ PassSees(v, SeenRoute(o)', SeenPolicy(o)', SeenObjects(o)')
    BY <1>2, <1>5, NotReadySight
  <2>2. QED
    BY <1>3, <2>1, SightPass
<1>6. QED
  BY <1>3, <1>4, <1>5

(* A deployment is read, and all of them once more.                         *)
LEMMA GetDeploymentSight ==
  ASSUME Inv, SightInv, NEW o \in Operator, GetDeployment(o)
  PROVE  OwnSight(o)'
<1>1. PICK w : w = pass[o]
  OBVIOUS
<1>2. w \in Passes /\ w.serving = FALSE /\ Runs(w.spec.life)
  BY <1>1, RollingPass DEF GetDeployment, Rollouts
<1>3. PICK s : Becomes(o, IF w.process = RouteProcess
                            THEN [[w EXCEPT !.failed = @ \/ s = "failed"] EXCEPT !.at = "service"]
                            ELSE NextProcess([w EXCEPT !.failed = @ \/ s = "failed"]))
  BY <1>1 DEF GetDeployment
<1>4. PICK u : u = [w EXCEPT !.failed = @ \/ s = "failed"]
  OBVIOUS
<1>5. u \in Passes /\ u.serving = FALSE /\ u.spec = w.spec
  BY <1>2, <1>4 DEF Passes
<1>6. PICK v : v = [u EXCEPT !.at = "service"]
  OBVIOUS
<1>7. v.serving = FALSE /\ v.spec = w.spec /\ v.at = "service"
  BY <1>5, <1>6 DEF Passes
<1>8. Becomes(o, v) \/ Becomes(o, NextProcess(u))
  BY <1>3, <1>4, <1>6
<1>9. CASE Becomes(o, v)
  BY <1>2, <1>7, <1>9, RollsTo DEF Rollouts
<1>10. CASE Becomes(o, NextProcess(u))
  <2>1. PICK n : n = NextProcess(u)
    OBVIOUS
  <2>2. n.serving = FALSE /\ n.spec = w.spec /\ n.at \in Rollouts \ {"active"}
    BY <1>5, <2>1, NextProcessSight DEF Rollouts
  <2>3. QED
    BY <1>2, <1>10, <2>1, <2>2, RollsTo
<1>11. QED
  BY <1>8, <1>9, <1>10

(* The release whose rollout completes is the one that the route will have. *)
LEMMA RolloutCompleteSight ==
  ASSUME NEW w \in Passes, Runs(w.spec.life), NEW to, NEW net, NEW held
  PROVE  /\ PassShape(RolloutComplete(w))
         /\ PassSees(RolloutComplete(w), to, net, held)
<1> DEFINE r == w.spec.release
           serving == w.status.phase = "Ready" /\ w.status.active = r /\ w.backend = r
           st == [w.status EXCEPT !.phase = "Ready", !.active = r, !.backend = r]
<1>1. PICK v : v = [w EXCEPT !.at = "putroute", !.backend = r, !.process = 1,
                             !.serving = serving, !.status = st]
  OBVIOUS
<1>2. v = RolloutComplete(w)
  BY <1>1 DEF RolloutComplete, Passes
<1>3. v.at = "putroute" /\ v.backend = r /\ v.spec = w.spec /\ v.status = st
  BY <1>1 DEF Passes
<1>4. st.phase = "Ready"
  BY DEF Passes, Statuses
<1> HIDE DEF st, serving
<1>5. PassShape(v)
  BY <1>3, <1>4 DEF PassShape, Removals, Final
<1>6. PassSees(v, to, net, held)
  BY <1>3 DEF PassSees, Rechecked, Removals
<1>7. QED
  BY <1>2, <1>5, <1>6

LEMMA CheckReadySight ==
  ASSUME Inv, SightInv, NEW o \in Operator, CheckReady(o)
  PROVE  OwnSight(o)'
<1>1. PICK w : w = pass[o]
  OBVIOUS
<1>2. w \in Passes /\ w.serving = FALSE /\ Runs(w.spec.life) /\ w.at = "check"
  BY <1>1, RollingPass DEF CheckReady, Rollouts
<1>3. \/ \E phase \in {"Degraded", "Deploying"} : Becomes(o, NotReady(w, phase))
      \/ Becomes(o, [w EXCEPT !.process = @ + 1])
      \/ Becomes(o, RolloutComplete(w))
  BY <1>1 DEF CheckReady, NotReadyPhases
<1>4. ASSUME NEW phase \in {"Degraded", "Deploying"}, Becomes(o, NotReady(w, phase))
      PROVE  OwnSight(o)'
  <2>1. PICK v : v = NotReady(w, phase)
    OBVIOUS
  <2>2. PassShape(v) /\ PassSees(v, SeenRoute(o)', SeenPolicy(o)', SeenObjects(o)')
    BY <1>2, <2>1, NotReadySight
  <2>3. QED
    BY <1>4, <2>1, <2>2, SightPass
<1>5. CASE Becomes(o, [w EXCEPT !.process = @ + 1])
  <2>1. PICK v : v = [w EXCEPT !.process = @ + 1]
    OBVIOUS
  <2>2. v.serving = FALSE /\ v.spec = w.spec /\ v.at = "check"
    BY <1>2, <2>1 DEF Passes
  <2>3. QED
    BY <1>2, <1>5, <2>1, <2>2, RollsTo DEF Rollouts
<1>6. CASE Becomes(o, RolloutComplete(w))
  <2>1. PICK v : v = RolloutComplete(w)
    OBVIOUS
  <2>2. PassShape(v) /\ PassSees(v, SeenRoute(o)', SeenPolicy(o)', SeenObjects(o)')
    BY <1>2, <2>1, RolloutCompleteSight
  <2>3. QED
    BY <1>6, <2>1, <2>2, SightPass
<1>7. QED
  BY <1>3, <1>4, <1>5, <1>6

(* The previous release keeps the route, or nobody does.                    *)
LEMMA RouteToActiveSight ==
  ASSUME Inv, SightInv, NEW o \in Operator, RouteToActive(o)
  PROVE  OwnSight(o)'
<1>1. PICK w : w = pass[o]
  OBVIOUS
<1>2. w \in Passes /\ w.serving = FALSE /\ Runs(w.spec.life) /\ w.status.phase \notin Final
  BY <1>1, RollingPass, PassOf DEF RouteToActive, Rollouts, PassShape
<1>3. PICK backend :
        \/ Becomes(o, [w EXCEPT !.at = "putroute", !.backend = backend,
                                !.status.backend = backend])
        \/ Becomes(o, [w EXCEPT !.at = "putroute", !.backend = None,
                                !.status.phase = "Degraded"])
  BY <1>1 DEF RouteToActive
<1>4. PICK u, v : /\ u = [w EXCEPT !.at = "putroute", !.backend = backend,
                                   !.status.backend = backend]
                  /\ v = [w EXCEPT !.at = "putroute", !.backend = None,
                                   !.status.phase = "Degraded"]
  OBVIOUS
<1>5. /\ u.serving = FALSE /\ u.spec = w.spec /\ u.at = "putroute"
      /\ v.serving = FALSE /\ v.spec = w.spec /\ v.at = "putroute"
  BY <1>2, <1>4 DEF Passes
<1>6. u.status.phase = w.status.phase /\ v.status.phase = "Degraded"
  BY <1>2, <1>4 DEF Passes, Statuses
<1>7. /\ PassShape(u) /\ PassSees(u, SeenRoute(o)', SeenPolicy(o)', SeenObjects(o)')
      /\ PassShape(v) /\ PassSees(v, SeenRoute(o)', SeenPolicy(o)', SeenObjects(o)')
  BY <1>2, <1>5, <1>6, RollsOn DEF Final
<1>8. QED
  BY <1>3, <1>4, <1>7, SightPass

(* The route gets the release of the pass; nothing is served without it.    *)
LEMMA UpsertHTTPRouteSight ==
  ASSUME Inv, SightInv, NEW o \in Operator, UpsertHTTPRoute(o)
  PROVE  OwnSight(o)'
<1>1. PICK w : w = pass[o]
  OBVIOUS
<1>2. w \in Passes /\ w.at = "putroute" /\ PassShape(w)
  BY <1>1, PassOf DEF UpsertHTTPRoute
<1>3. PICK v : v = [w EXCEPT !.at = "putstatus", !.backend = None]
  OBVIOUS
<1>4. v.at = "putstatus" /\ v.spec = w.spec /\ v.status = w.status /\ v.serving = w.serving
  BY <1>2, <1>3 DEF Passes
<1>5. SeenRoute(o)'.backend \in {w.backend, None}
  BY <1>1 DEF UpsertHTTPRoute, SeenRoute, NoRoute
<1>6. PassShape(v)
  BY <1>2, <1>4 DEF PassShape, Rollouts, Removals
<1>7. PassSees(v, SeenRoute(o)', SeenPolicy(o)', SeenObjects(o)')
  BY <1>2, <1>4, <1>5 DEF PassShape, PassSees, Rechecked, Removals, Final
<1>8. QED
  BY <1>1, <1>3, <1>6, <1>7, SightPass DEF UpsertHTTPRoute

(* A served rollout goes on to delete what other releases left.             *)
LEMMA UpdateStatusSight ==
  ASSUME Inv, SightInv, NEW o \in Operator, UpdateStatus(o)
  PROVE  OwnSight(o)'
<1>1. PICK w : w = pass[o]
  OBVIOUS
<1>2. /\ w \in Passes /\ w.at = "putstatus"
      /\ PassShape(w) /\ PassSees(w, SeenRoute(o), SeenPolicy(o), SeenObjects(o))
  BY <1>1, PassOf DEF UpdateStatus
<1>3. /\ SeenRoute(o)' = SeenRoute(o)
      /\ SeenPolicy(o)' = SeenPolicy(o)
      /\ SeenObjects(o)' = SeenObjects(o)
  BY SightStays DEF UpdateStatus, clusterVars
<1>4. CASE w.serving
  <2>1. PICK v : v = [NoPass EXCEPT !.at = "list", !.spec = w.spec]
    OBVIOUS
  <2>2. v.at = "list" /\ v.spec = w.spec /\ v.serving = FALSE
    BY <2>1 DEF NoPass
  <2>3. PassShape(v)
    BY <2>2 DEF PassShape, Rollouts, Removals
  <2>4. PassSees(v, SeenRoute(o)', SeenPolicy(o)', SeenObjects(o)')
    BY <1>2, <1>3, <1>4, <2>2 DEF PassShape, PassSees, Rechecked, Removals
  <2>5. QED
    BY <1>1, <1>4, <2>1, <2>3, <2>4, SightPass DEF UpdateStatus
<1>5. CASE ~w.serving
  BY <1>1, <1>5, NoPassSees, SightPass DEF UpdateStatus
<1>6. QED
  BY <1>4, <1>5
-----------------------------------------------------------------------------
(* Where there is no route, nobody has the traffic.                         *)
NoRouteNoBackend == route.state = "absent" => route.backend = None

(* The backend goes with the route.                                         *)
LEMMA NoRouteStep == Inv /\ NoRouteNoBackend /\ [Next]_vars => NoRouteNoBackend'
<1> SUFFICES ASSUME Inv, NoRouteNoBackend, [Next]_vars PROVE NoRouteNoBackend'
  OBVIOUS
<1>1. route \in Routes
  BY DEF Inv, TypeOK
<1>2. CASE UNCHANGED route
  BY <1>2 DEF NoRouteNoBackend
<1>3. ASSUME NEW o \in Operator, UpsertHTTPRoute(o)
      PROVE  NoRouteNoBackend'
  BY <1>1, <1>3 DEF UpsertHTTPRoute, Applied, Routes, NoRouteNoBackend
<1>4. ASSUME NEW o \in Operator, DeleteHTTPRoute(o)
      PROVE  NoRouteNoBackend'
  BY <1>1, <1>4 DEF DeleteHTTPRoute, Routes, NoRouteNoBackend
<1>5. CASE RemoveRoute
  BY <1>5 DEF RemoveRoute, NoRouteNoBackend
<1>6. ASSUME NEW o \in Operator, Reconcile(o), ~UpsertHTTPRoute(o), ~DeleteHTTPRoute(o)
      PROVE  UNCHANGED route
  BY <1>6
     DEF Reconcile, ListPaaSApps, UpsertNetworkPolicy, RejectManifest, AcceptManifest,
         UpsertJob, GetJob, UpsertDeployment, GetDeployment, UpsertService, CheckReady,
         RouteToActive, UpdateStatus, ListObjects, DeleteObject, Recheck, FindRoute,
         FindNetworkPolicy, DeleteNetworkPolicy, CheckNetworkPolicy, clusterVars
<1>7. ASSUME NEW o \in Operator, StopPass(o)
      PROVE  UNCHANGED route
  BY <1>7 DEF StopPass, clusterVars
<1>8. ASSUME Manifest
      PROVE  UNCHANGED route
  BY <1>8 DEF Manifest, NextRelease, ChangeManifest, TransitionLifecycle, Renew, clusterVars
<1>9. ASSUME NEW x \in Object, BecomeReady(x) \/ Trouble(x) \/ Remove(x)
      PROVE  UNCHANGED route
  BY <1>9 DEF BecomeReady, Trouble, Fail, LoseReadiness, Remove
<1>10. ASSUME RemovePolicy \/ UNCHANGED vars
       PROVE  UNCHANGED route
  BY <1>10 DEF RemovePolicy, vars
<1>11. QED
  BY <1>2, <1>3, <1>4, <1>5, <1>6, <1>7, <1>8, <1>9, <1>10 DEF Next

-----------------------------------------------------------------------------
(* The deletions.                                                           *)
(* A removal goes on to the objects only if there is no route.              *)
LEMMA FindRouteSight ==
  ASSUME Inv, SightInv, NoRouteNoBackend, NEW o \in Operator, FindRoute(o)
  PROVE  OwnSight(o)'
<1>1. PICK w : w = pass[o]
  OBVIOUS
<1>2. w \in Passes /\ PassShape(w) /\ w.at = "findroute"
  BY <1>1, PassOf DEF FindRoute
<1>3. PICK at : /\ at = IF route.state = "absent" THEN "list" ELSE "deleteroute"
                /\ Becomes(o, [w EXCEPT !.at = at])
  BY <1>1 DEF FindRoute, Goto, Becomes
<1>4. PICK v : v = [w EXCEPT !.at = at]
  OBVIOUS
<1>5. v.at = at /\ v.spec = w.spec /\ v.serving = FALSE
  BY <1>2, <1>4 DEF Passes, PassShape
<1>6. ~Runs(v.spec.life)
  BY <1>2, <1>5 DEF PassShape
<1>7. PassShape(v)
  BY <1>3, <1>5, <1>6 DEF PassShape, Rollouts
<1>8. at = "list" => SeenRoute(o)' = NoRoute
  <2>1. route \in Routes /\ UNCHANGED route
    BY DEF Inv, TypeOK, FindRoute, clusterVars
  <2>2. at = "list" => route' = NoRoute
    BY <1>3, <2>1 DEF NoRouteNoBackend, Routes, NoRoute
  <2>3. QED
    BY <2>2 DEF SeenRoute
<1>9. PassSees(v, SeenRoute(o)', SeenPolicy(o)', SeenObjects(o)')
  BY <1>3, <1>5, <1>6, <1>8 DEF PassSees, Rechecked, Removals
<1>10. QED
  BY <1>3, <1>4, <1>7, <1>9, SightPass

(* Otherwise it deletes the route and ends.                                 *)
LEMMA DeleteHTTPRouteSight ==
  ASSUME Inv, SightInv, NEW o \in Operator, DeleteHTTPRoute(o)
  PROVE  OwnSight(o)'
<1>1. PICK w : w = pass[o]
  OBVIOUS
<1>2. w \in Passes /\ PassShape(w) /\ w.at = "deleteroute"
  BY <1>1, PassOf DEF DeleteHTTPRoute
<1>3. PICK v, phase : /\ phase \in {"DeletingRoute", "Suspending"}
                      /\ v = [w EXCEPT !.at = "putstatus", !.status.phase = phase]
                      /\ Becomes(o, v)
  <2>1. PICK phase : phase = IF w.spec.life \in Deleting THEN "DeletingRoute" ELSE "Suspending"
    OBVIOUS
  <2>2. Becomes(o, [w EXCEPT !.at = "putstatus", !.status.phase = phase])
    BY <1>1, <2>1 DEF DeleteHTTPRoute
  <2>3. PICK v : v = [w EXCEPT !.at = "putstatus", !.status.phase = phase]
    OBVIOUS
  <2>4. QED
    BY <2>1, <2>2, <2>3
<1>4. v.at = "putstatus" /\ v.spec = w.spec /\ v.serving = FALSE
  BY <1>2, <1>3 DEF Passes, PassShape
<1>5. v.status.phase = phase
  BY <1>2, <1>3 DEF Passes, Statuses
<1>6. PassShape(v)
  BY <1>4 DEF PassShape, Rollouts, Removals
<1>7. PassSees(v, SeenRoute(o)', SeenPolicy(o)', SeenObjects(o)')
  BY <1>3, <1>4, <1>5, Unsighted DEF Removals, Final
<1>8. QED
  BY <1>3, <1>6, <1>7, SightPass

(* The pass before and after a call of its deletions: what it has seen.     *)
LEMMA AllListedSight ==
  ASSUME NEW w \in Passes, PassShape(w), w.at \in {"list", "delete"},
         NEW to, NEW net, NEW held, PassSees(w, to, net, held)
  PROVE  PassShape(AllListed(w)) /\ PassSees(AllListed(w), to, net, held)
<1>1. w.serving = FALSE /\ w.kind \in Kinds
  BY DEF PassShape, Passes
<1>2. ASSUME NEW kind, NEW at \in {"list", "recheck"},
             at = "recheck" => ~Runs(w.spec.life) /\ kind = "deployment"
      PROVE  /\ PassShape([w EXCEPT !.kind = kind, !.at = at])
             /\ PassSees([w EXCEPT !.kind = kind, !.at = at], to, net, held)
  <2>1. PICK v : v = [w EXCEPT !.kind = kind, !.at = at]
    OBVIOUS
  <2>2. v.at = at /\ v.kind = kind /\ v.spec = w.spec /\ v.serving = FALSE
    BY <1>1, <2>1 DEF Passes
  <2>3. PassShape(v)
    BY <1>2, <2>2 DEF PassShape, Rollouts, Removals
  <2>4. PassSees(v, to, net, held)
    BY <1>2, <2>2 DEF PassSees, Rechecked, Removals
  <2>5. QED
    BY <2>1, <2>3, <2>4
<1>3. CASE w.kind # "job"
  <2>1. PICK kind : AllListed(w) = [w EXCEPT !.kind = kind, !.at = "list"]
    BY <1>3 DEF AllListed, NextKind
  <2>2. QED
    BY <1>2, <2>1
<1>4. CASE w.kind = "job" /\ ~Runs(w.spec.life)
  <2>1. AllListed(w) = [w EXCEPT !.kind = "deployment", !.at = "recheck"]
    BY <1>4 DEF AllListed, NextKind, Passes
  <2>2. QED
    BY <1>2, <1>4, <2>1
<1>5. CASE w.kind = "job" /\ Runs(w.spec.life)
  BY <1>5, NoPassSees DEF AllListed, NextKind
<1>6. QED
  BY <1>3, <1>4, <1>5
(* A list spares the children of a release that runs.                       *)
LEMMA ListObjectsSight ==
  ASSUME Inv, SightInv, NEW o \in Operator, ListObjects(o)
  PROVE  OwnSight(o)'
<1>1. PICK w : w = pass[o]
  OBVIOUS
<1>2. /\ w \in Passes /\ w.at = "list"
      /\ PassShape(w) /\ PassSees(w, SeenRoute(o), SeenPolicy(o), SeenObjects(o))
  BY <1>1, PassOf DEF ListObjects
<1>3. /\ SeenRoute(o)' = SeenRoute(o)
      /\ SeenPolicy(o)' = SeenPolicy(o)
      /\ SeenObjects(o)' = SeenObjects(o)
  BY SightStays DEF ListObjects, clusterVars
<1>4. PICK d : /\ d \in SUBSET Object
               /\ Runs(w.spec.life) => \A x \in d : x.release # w.spec.release
               /\ \/ Becomes(o, AllListed(w))
                  \/ Becomes(o, [w EXCEPT !.at = "delete", !.doomed = d])
  <2>1. PICK d : d = Doomed(w)
    OBVIOUS
  <2>2. d \in SUBSET Object /\ (Runs(w.spec.life) => \A x \in d : x.release # w.spec.release)
    BY <2>1 DEF Doomed
  <2>3. QED
    BY <1>1, <2>1, <2>2 DEF ListObjects
<1>5. CASE Becomes(o, AllListed(w))
  <2>1. PICK v : v = AllListed(w)
    OBVIOUS
  <2>2. PassShape(v) /\ PassSees(v, SeenRoute(o)', SeenPolicy(o)', SeenObjects(o)')
    BY <1>2, <1>3, <2>1, AllListedSight
  <2>3. QED
    BY <1>5, <2>1, <2>2, SightPass
<1>6. CASE Becomes(o, [w EXCEPT !.at = "delete", !.doomed = d])
  <2>1. PICK v : v = [w EXCEPT !.at = "delete", !.doomed = d]
    OBVIOUS
  <2>2. /\ v.at = "delete" /\ v.doomed = d /\ v.spec = w.spec /\ v.serving = FALSE
    BY <1>2, <2>1 DEF Passes, PassShape
  <2>3. PassShape(v)
    BY <1>4, <2>2 DEF PassShape, Rollouts, Removals
  <2>4. PassSees(v, SeenRoute(o)', SeenPolicy(o)', SeenObjects(o)')
    BY <1>2, <1>3, <2>2 DEF PassSees, Rechecked, Removals
  <2>5. QED
    BY <1>6, <2>1, <2>3, <2>4, SightPass
<1>7. QED
  BY <1>4, <1>5, <1>6

(* A deletion brings nothing back.                                          *)
LEMMA DeleteObjectSight ==
  ASSUME Inv, SightInv, NEW o \in Operator, NEW x \in Object, DeleteObject(o, x)
  PROVE  OwnSight(o)'
<1>1. PICK w : w = pass[o]
  OBVIOUS
<1>2. /\ w \in Passes /\ w.at = "delete"
      /\ PassShape(w) /\ PassSees(w, SeenRoute(o), SeenPolicy(o), SeenObjects(o))
  BY <1>1, PassOf DEF DeleteObject
<1>3. PICK v : /\ v = [w EXCEPT !.doomed = w.doomed \ {x}]
               /\ Becomes(o, AllListed(v)) \/ Becomes(o, v)
  BY <1>1 DEF DeleteObject
<1>4. /\ v \in Passes /\ v.at = "delete" /\ v.doomed \subseteq w.doomed
      /\ v.spec = w.spec /\ v.serving = FALSE
  BY <1>2, <1>3 DEF Passes, PassShape
<1>5. PassShape(v)
  BY <1>2, <1>4 DEF PassShape, Rollouts, Removals
<1>6. SeenRoute(o)' = SeenRoute(o)
  BY DEF DeleteObject, SeenRoute
<1>7. PassSees(v, SeenRoute(o)', SeenPolicy(o)', SeenObjects(o)')
  BY <1>2, <1>4, <1>6 DEF PassSees, Rechecked, Removals
<1>8. CASE Becomes(o, v)
  BY <1>5, <1>7, <1>8, SightPass
<1>9. CASE Becomes(o, AllListed(v))
  <2>1. PICK u : u = AllListed(v)
    OBVIOUS
  <2>2. PassShape(u) /\ PassSees(u, SeenRoute(o)', SeenPolicy(o)', SeenObjects(o)')
    BY <1>4, <1>5, <1>7, <2>1, AllListedSight
  <2>3. QED
    BY <1>9, <2>1, <2>2, SightPass
<1>10. QED
  BY <1>3, <1>8, <1>9
(* A removal that reports its end has seen everything gone.                 *)
LEMMA EndSight ==
  ASSUME NEW v, v.at = "putstatus", v.serving = FALSE,
         NEW net, NEW held, NEW to,
         v.status.phase \in Final =>
           /\ to = NoRoute
           /\ \A x \in Object : held[x] = "absent",
         v.status.phase \in {"Retaining", "Deleted"} => net = "absent"
  PROVE  PassShape(v) /\ PassSees(v, to, net, held)
<1>1. PassShape(v)
  BY DEF PassShape, Rollouts, Removals
<1>2. PassSees(v, to, net, held)
  BY DEF PassSees, Rechecked, Removals
<1>3. QED
  BY <1>1, <1>2

(* The second look: kind after kind, until nothing has been seen.           *)
LEMMA RecheckSight ==
  ASSUME Inv, SightInv, NEW o \in Operator, Recheck(o)
  PROVE  OwnSight(o)'
<1> DEFINE pending(w) == IF w.spec.life \in Deleting THEN "DeletingWorkloads" ELSE "Suspending"
           following(w) == IF w.kind = "deployment" THEN "service" ELSE "job"
           w1(w) == [w EXCEPT !.at = "putstatus", !.kind = "deployment",
                              !.status.phase = pending(w)]
           w2(w) == [w EXCEPT !.at = "findpolicy", !.kind = "deployment"]
           w3(w) == [w EXCEPT !.at = "putstatus", !.kind = "deployment",
                           !.status.phase = "Suspended", !.status.backend = None,
                           !.status.candidate = None, !.status.hash = None]
           w4(w) == [w EXCEPT !.kind = following(w), !.at = "recheck"]
<1>1. PICK w : w = pass[o]
  OBVIOUS
<1>2. /\ w \in Passes /\ w.at = "recheck" /\ w.kind \in Kinds /\ ~Runs(w.spec.life)
      /\ w.serving = FALSE
      /\ PassSees(w, SeenRoute(o), SeenPolicy(o), SeenObjects(o))
  BY <1>1, PassOf DEF Recheck, PassShape, Passes, Removals
<1>3. /\ SeenRoute(o)' = SeenRoute(o)
      /\ SeenPolicy(o)' = SeenPolicy(o)
      /\ SeenObjects(o)' = SeenObjects(o)
  BY SightStays DEF Recheck, clusterVars
<1>4. SeenRoute(o) = NoRoute
  BY <1>2 DEF PassSees, Removals
<1>5. Doomed(w) = {} =>
        \A x \in Object : (x.kind = w.kind \/ x.kind \in Rechecked(w)) =>
          SeenObjects(o)[x] = "absent"
  BY <1>2 DEF Doomed, Exists, PassSees, SeenObjects
<1>6. \/ Becomes(o, w1(w))
      \/ Doomed(w) = {} /\ w.kind = "job" /\ Becomes(o, w2(w))
      \/ Doomed(w) = {} /\ w.kind = "job" /\ Becomes(o, w3(w))
      \/ Doomed(w) = {} /\ w.kind # "job" /\ Becomes(o, w4(w))
  <2>1. w.kind # "job" => \A d : [NextKind(w, d) EXCEPT !.at = "recheck"] = w4(w)
    BY <1>2 DEF NextKind, Passes
  <2>2. QED
    BY <1>1, <2>1 DEF Recheck
<1>7. w.kind = "job" /\ Doomed(w) = {} => \A x \in Object : SeenObjects(o)[x] = "absent"
  BY <1>2, <1>5 DEF Rechecked, Object
<1>8. CASE Becomes(o, w1(w))
  <2>1. PICK v : v = w1(w)
    OBVIOUS
  <2>2. v.at = "putstatus" /\ v.serving = FALSE
    BY <1>2, <2>1 DEF Passes
  <2>3. v.status.phase \notin Final
    BY <1>2, <2>1 DEF Passes, Statuses, Final
  <2>4. PassShape(v) /\ PassSees(v, SeenRoute(o)', SeenPolicy(o)', SeenObjects(o)')
    BY <2>2, <2>3, EndSight DEF Final
  <2>5. QED
    BY <1>8, <2>1, <2>4, SightPass
<1>9. CASE Doomed(w) = {} /\ w.kind = "job" /\ Becomes(o, w2(w))
  <2>1. PICK v : v = w2(w)
    OBVIOUS
  <2>2. v.at = "findpolicy" /\ v.serving = FALSE /\ v.spec = w.spec
    BY <1>2, <2>1 DEF Passes
  <2>3. PassShape(v)
    BY <1>2, <2>2 DEF PassShape, Rollouts
  <2>4. PassSees(v, SeenRoute(o)', SeenPolicy(o)', SeenObjects(o)')
    BY <1>3, <1>4, <1>7, <1>9, <2>2 DEF PassSees, Removals
  <2>5. QED
    BY <1>9, <2>1, <2>3, <2>4, SightPass
<1>10. CASE Doomed(w) = {} /\ w.kind = "job" /\ Becomes(o, w3(w))
  <2>1. PICK v : v = w3(w)
    OBVIOUS
  <2>2. v.at = "putstatus" /\ v.serving = FALSE
    BY <1>2, <2>1 DEF Passes
  <2>3. v.status.phase = "Suspended"
    BY <1>2, <2>1 DEF Passes, Statuses
  <2>4. PassShape(v) /\ PassSees(v, SeenRoute(o)', SeenPolicy(o)', SeenObjects(o)')
    BY <1>3, <1>4, <1>7, <1>10, <2>2, <2>3, EndSight
  <2>5. QED
    BY <1>10, <2>1, <2>4, SightPass
<1>11. CASE Doomed(w) = {} /\ w.kind # "job" /\ Becomes(o, w4(w))
  <2>1. PICK v : v = w4(w)
    OBVIOUS
  <2>2. /\ v.at = "recheck" /\ v.serving = FALSE /\ v.spec = w.spec
        /\ v.kind = following(w)
    BY <1>2, <2>1 DEF Passes
  <2>3. PassShape(v)
    BY <1>2, <2>2 DEF PassShape, Rollouts
  <2>4. \A x \in Object : x.kind \in Rechecked(v) => SeenObjects(o)[x] = "absent"
    BY <1>2, <1>5, <1>11, <2>2 DEF Rechecked, Kinds
  <2>5. PassSees(v, SeenRoute(o)', SeenPolicy(o)', SeenObjects(o)')
    BY <1>3, <1>4, <2>2, <2>4 DEF PassSees
  <2>6. QED
    BY <1>11, <2>1, <2>3, <2>5, SightPass
<1>12. QED
  BY <1>6, <1>8, <1>9, <1>10, <1>11

(* A pass at the policy has seen everything else gone.                      *)
LEMMA PolicyPass ==
  ASSUME Inv, SightInv, NEW o \in Operator,
         pass[o].at \in {"findpolicy", "deletepolicy", "checkpolicy"}
  PROVE  /\ pass[o] \in Passes /\ ~Runs(pass[o].spec.life) /\ pass[o].serving = FALSE
         /\ SeenRoute(o) = NoRoute
         /\ \A x \in Object : SeenObjects(o)[x] = "absent"
<1>1. PICK w : w = pass[o]
  OBVIOUS
<1>2. w \in Passes /\ PassShape(w) /\ PassSees(w, SeenRoute(o), SeenPolicy(o), SeenObjects(o))
  BY <1>1, PassOf
<1>3. ~Runs(w.spec.life) /\ w.serving = FALSE
  BY <1>1, <1>2 DEF PassShape, Removals, Passes
<1>4. Rechecked(w) = Kinds
  BY <1>1 DEF Rechecked, Removals
<1>5. \A x \in Object : x.kind \in Kinds
  BY DEF Object, Kinds
<1>6. QED
  BY <1>1, <1>2, <1>3, <1>4, <1>5 DEF PassSees, Removals

(* The end of a deletion, and the calls at the policy.                      *)
LEMMA DeletedSight ==
  ASSUME NEW w \in Passes, w.serving = FALSE,
         NEW to, NEW net, NEW held,
         to = NoRoute, net = "absent",
         \A x \in Object : held[x] = "absent"
  PROVE  PassShape(Deleted(w)) /\ PassSees(Deleted(w), to, net, held)
<1>1. PICK v : v = Deleted(w)
  OBVIOUS
<1>2. v.at = "putstatus" /\ v.serving = FALSE
  BY <1>1 DEF Deleted, Passes
<1>3. QED
  BY <1>1, <1>2, EndSight

(* The calls at the policy bring nothing back.                              *)
LEMMA PolicySight ==
  ASSUME Inv, SightInv, NEW o \in Operator,
         FindNetworkPolicy(o) \/ DeleteNetworkPolicy(o) \/ CheckNetworkPolicy(o)
  PROVE  OwnSight(o)'
<1> DEFINE waits(w) == [w EXCEPT !.at = "putstatus", !.status.phase = "DeletingPolicy"]
<1>1. PICK w : w = pass[o]
  OBVIOUS
<1>2. w.at \in {"findpolicy", "deletepolicy", "checkpolicy"}
  BY <1>1 DEF FindNetworkPolicy, DeleteNetworkPolicy, CheckNetworkPolicy
<1>3. /\ w \in Passes /\ ~Runs(w.spec.life) /\ w.serving = FALSE
      /\ SeenRoute(o) = NoRoute
      /\ \A x \in Object : SeenObjects(o)[x] = "absent"
  BY <1>1, <1>2, PolicyPass
<1>4. SeenRoute(o)' = SeenRoute(o) /\ SeenObjects(o)' = SeenObjects(o)
  BY DEF SeenRoute, SeenObjects, FindNetworkPolicy, DeleteNetworkPolicy, CheckNetworkPolicy,
         clusterVars
<1>5. \/ policy = "absent" /\ UNCHANGED policy /\ Becomes(o, Deleted(w))
      \/ \E at \in {"deletepolicy", "checkpolicy"} : Becomes(o, [w EXCEPT !.at = at])
      \/ Becomes(o, waits(w))
  BY <1>1 DEF FindNetworkPolicy, DeleteNetworkPolicy, CheckNetworkPolicy, Goto, Becomes,
              clusterVars
<1>6. CASE policy = "absent" /\ UNCHANGED policy /\ Becomes(o, Deleted(w))
  <2>1. PICK v : v = Deleted(w)
    OBVIOUS
  <2>2. SeenPolicy(o)' = "absent"
    BY <1>6 DEF SeenPolicy
  <2>3. PassShape(v) /\ PassSees(v, SeenRoute(o)', SeenPolicy(o)', SeenObjects(o)')
    BY <1>3, <1>4, <2>1, <2>2, DeletedSight
  <2>4. QED
    BY <1>6, <2>1, <2>3, SightPass
<1>7. ASSUME NEW at \in {"deletepolicy", "checkpolicy"}, Becomes(o, [w EXCEPT !.at = at])
      PROVE  OwnSight(o)'
  <2>1. PICK v : v = [w EXCEPT !.at = at]
    OBVIOUS
  <2>2. v.at = at /\ v.serving = FALSE /\ v.spec = w.spec
    BY <1>3, <2>1 DEF Passes
  <2>3. PassShape(v)
    BY <1>3, <2>2 DEF PassShape, Rollouts
  <2>4. PassSees(v, SeenRoute(o)', SeenPolicy(o)', SeenObjects(o)')
    BY <1>3, <1>4, <2>2 DEF PassSees
  <2>5. QED
    BY <1>7, <2>1, <2>3, <2>4, SightPass
<1>8. CASE Becomes(o, waits(w))
  <2>1. PICK v : v = waits(w)
    OBVIOUS
  <2>2. v.at = "putstatus" /\ v.serving = FALSE
    BY <1>3, <2>1 DEF Passes
  <2>3. v.status.phase = "DeletingPolicy"
    BY <1>3, <2>1 DEF Passes, Statuses
  <2>4. PassShape(v) /\ PassSees(v, SeenRoute(o)', SeenPolicy(o)', SeenObjects(o)')
    BY <2>2, <2>3, EndSight DEF Final
  <2>5. QED
    BY <1>8, <2>1, <2>4, SightPass
<1>9. QED
  BY <1>5, <1>6, <1>7, <1>8
(* A pass that is stopped has seen nothing.                                 *)
LEMMA StopPassSight ==
  ASSUME Inv, SightInv, NEW o \in Operator, StopPass(o)
  PROVE  OwnSight(o)'
BY NoPassSees, SightPass DEF StopPass

(* All calls of a pass.                                                     *)
LEMMA ReconcileSight ==
  ASSUME Inv, SightInv, NoRouteNoBackend, NEW o \in Operator, Reconcile(o)
  PROVE  OwnSight(o)'
BY ListPaaSAppsSight, UpsertNetworkPolicySight, RejectManifestSight, AcceptManifestSight,
   ApplySight, GetJobSight, GetDeploymentSight, CheckReadySight, RouteToActiveSight,
   UpsertHTTPRouteSight, UpdateStatusSight, ListObjectsSight, DeleteObjectSight, RecheckSight,
   FindRouteSight, DeleteHTTPRouteSight, PolicySight
   DEF Reconcile

(* The other passes: a call that brings something back crosses them.        *)
LEMMA OnlookersSight ==
  ASSUME Inv, SightInv, NEW o \in Operator, NEW q \in Operator \ {o},
         Reconcile(o) \/ StopPass(o)
  PROVE  OwnSight(q)'
<1>1. ASSUME NEW w, Becomes(o, w)
      PROVE  pass'[q] = pass[q]
  BY <1>1 DEF Becomes, Inv, TypeOK
<1>2. ASSUME NEW what, NEW changes, Crosses(o, what, changes)
      PROVE  crossed[q] \subseteq crossed'[q] /\ (changes => what \in crossed'[q])
  BY <1>2 DEF Crosses
<1>3. ASSUME NEW w, Becomes(o, w), UNCHANGED clusterVars
      PROVE  OwnSight(q)'
  BY <1>1, <1>3, OnlookerStep DEF clusterVars
<1>4. CASE ListPaaSApps(o)
  <2>1. crossed'[q] = crossed[q]
    BY <1>4 DEF ListPaaSApps, Inv, TypeOK
  <2>2. QED
    BY <1>1, <1>4, <2>1, OnlookerStep DEF ListPaaSApps
<1>5. CASE UpsertNetworkPolicy(o)
  BY <1>1, <1>2, <1>5, OnlookerStep DEF UpsertNetworkPolicy, Goto, Becomes
<1>6. CASE UpsertJob(o) \/ UpsertDeployment(o) \/ UpsertService(o)
  <2>1. pass'[q] = pass[q]
    BY <1>1, <1>6 DEF UpsertJob, UpsertDeployment, UpsertService, Goto, Becomes
  <2>2. crossed[q] \subseteq crossed'[q] /\ (objects' # objects => "objects" \in crossed'[q])
    BY <1>2, <1>6 DEF UpsertJob, UpsertDeployment, UpsertService
  <2>3. UNCHANGED <<route, policy>>
    BY <1>6 DEF UpsertJob, UpsertDeployment, UpsertService
  <2>4. QED
    BY <2>1, <2>2, <2>3, OnlookerStep
<1>7. CASE UpsertHTTPRoute(o)
  BY <1>1, <1>2, <1>7, OnlookerStep DEF UpsertHTTPRoute
<1>8. ASSUME NEW x \in Object, DeleteObject(o, x)
      PROVE  OwnSight(q)'
  <2>1. \A y \in Object : objects[y] = "absent" => objects'[y] = "absent"
    BY <1>8 DEF DeleteObject, Inv, TypeOK
  <2>2. QED
    BY <1>1, <1>8, <2>1, OnlookerStep DEF DeleteObject
<1>9. CASE DeleteHTTPRoute(o)
  <2>1. route'.backend \in {route.backend, None} /\ (route = NoRoute => route' = route)
    BY <1>9 DEF DeleteHTTPRoute, NoRoute, Inv, TypeOK, Routes
  <2>2. QED
    BY <1>1, <1>9, <2>1, OnlookerStep DEF DeleteHTTPRoute
<1>10. CASE DeleteNetworkPolicy(o)
  BY <1>1, <1>10, OnlookerStep DEF DeleteNetworkPolicy, Goto, Becomes
<1>11. QED
  BY <1>3, <1>4, <1>5, <1>6, <1>7, <1>8, <1>9, <1>10
     DEF Reconcile, RejectManifest, AcceptManifest, GetJob, GetDeployment, CheckReady,
         RouteToActive, UpdateStatus, ListObjects, Recheck, FindRoute, FindNetworkPolicy,
         CheckNetworkPolicy, StopPass, Goto, Becomes

(* The manifest and the cluster.                                            *)
LEMMA ClusterSight ==
  ASSUME Inv, SightInv,
         \/ Manifest
         \/ \E x \in Object : BecomeReady(x) \/ Trouble(x) \/ Remove(x)
         \/ RemoveRoute \/ RemovePolicy
         \/ UNCHANGED vars
  PROVE  SightInv'
<1>1. SUFFICES ASSUME NEW q \in Operator
               PROVE  OwnSight(q)'
  BY DEF SightInv
<1>2. CASE Manifest
  <2>1. UNCHANGED <<pass, route, policy, objects, crossed>>
    BY <1>2 DEF Manifest, NextRelease, ChangeManifest, TransitionLifecycle, Renew, clusterVars
  <2>2. QED
    BY <2>1, OnlookerStep
<1>3. ASSUME NEW x \in Object, BecomeReady(x) \/ Trouble(x) \/ Remove(x)
      PROVE  OwnSight(q)'
  <2>1. UNCHANGED <<pass, route, policy, crossed>>
    BY <1>3 DEF BecomeReady, Trouble, Fail, LoseReadiness, Remove
  <2>2. \A y \in Object : objects[y] = "absent" => objects'[y] = "absent"
    BY <1>3 DEF BecomeReady, Trouble, Fail, LoseReadiness, Remove, Inv, TypeOK
  <2>3. QED
    BY <2>1, <2>2, OnlookerStep
<1>4. CASE RemoveRoute \/ RemovePolicy
  BY <1>4, OnlookerStep DEF RemoveRoute, RemovePolicy, NoRoute
<1>5. CASE UNCHANGED vars
  BY <1>5, OnlookerStep DEF vars
<1>6. QED
  BY <1>2, <1>3, <1>4, <1>5

(* Every step of a replica, for its own pass and for the others, of the     *)
(* manifest and of the cluster.                                             *)
LEMMA NextSight == Inv /\ NoRouteNoBackend /\ SightInv /\ [Next]_vars => SightInv'
<1> SUFFICES ASSUME Inv, NoRouteNoBackend, SightInv, [Next]_vars
             PROVE  SightInv'
  OBVIOUS
<1>1. ASSUME NEW o \in Operator, Reconcile(o) \/ StopPass(o)
      PROVE  SightInv'
  <2>1. OwnSight(o)'
    BY <1>1, ReconcileSight, StopPassSight
  <2>2. \A q \in Operator \ {o} : OwnSight(q)'
    BY <1>1, OnlookersSight
  <2>3. QED
    BY <2>1, <2>2 DEF SightInv
<1>2. CASE \/ Manifest
           \/ \E x \in Object : BecomeReady(x) \/ Trouble(x) \/ Remove(x)
           \/ RemoveRoute \/ RemovePolicy
           \/ UNCHANGED vars
  BY <1>2, ClusterSight
<1>3. QED
  BY <1>1, <1>2 DEF Next

(* There is nothing to see in the beginning.                                *)
LEMMA InitSight == Init => NoRouteNoBackend /\ SightInv
<1> SUFFICES ASSUME Init PROVE NoRouteNoBackend /\ SightInv
  OBVIOUS
<1>1. NoRouteNoBackend
  BY DEF Init, NoRouteNoBackend
<1>2. SightInv
  BY NoPassSees DEF Init, SightInv, OwnSight
<1>3. QED
  BY <1>1, <1>2

(* With any number of replicas: what a pass has seen of the cluster is      *)
(* still so, but for what other replicas have brought back since it began.  *)
THEOREM SightInvariance == Spec => [](Inv /\ NoRouteNoBackend /\ SightInv)
<1>1. Init => Inv /\ NoRouteNoBackend /\ SightInv
  BY InitInv, InitSight
<1>2. Inv /\ NoRouteNoBackend /\ SightInv /\ [Next]_vars =>
        (Inv /\ NoRouteNoBackend /\ SightInv)'
  BY NextInv, NoRouteStep, NextSight
<1>3. QED
  BY <1>1, <1>2, PTL DEF Spec

-----------------------------------------------------------------------------
(* The only deletions of the operator are those of its loop.                *)
LEMMA OnlyTheLoopDeletes ==
  ASSUME Inv, [Next]_vars, NEW x \in Object, DeletionRequested(x)
  PROVE  \E o \in Operator : DeleteObject(o, x)
<1>1. objects \in [Object -> States]
  BY DEF Inv, TypeOK
<1>2. objects' # objects
  BY DEF DeletionRequested
<1>3. ASSUME NEW y \in Object, Apply(y)
      PROVE  FALSE
  BY <1>1, <1>3 DEF Apply, Applied, DeletionRequested, States
<1>4. ASSUME NEW y \in Object, BecomeReady(y) \/ Trouble(y) \/ Remove(y)
      PROVE  FALSE
  BY <1>1, <1>4 DEF BecomeReady, Trouble, Fail, LoseReadiness, Remove, DeletionRequested
<1>5. ASSUME NEW o \in Operator, UpsertJob(o) \/ UpsertDeployment(o) \/ UpsertService(o)
      PROVE  FALSE
  <2>1. pass[o] \in Passes
    BY DEF Inv, TypeOK
  <2>2. /\ Job(pass[o].spec.release) \in Object
        /\ Service(pass[o].spec.release) \in Object
        /\ Deployment(pass[o].spec.release, pass[o].process) \in Object
    BY <2>1, ObjectFacts DEF Passes, Spaces
  <2>3. QED
    BY <1>3, <1>5, <2>2 DEF UpsertJob, UpsertDeployment, UpsertService
<1>6. ASSUME NEW o \in Operator, NEW y \in Object, DeleteObject(o, y)
      PROVE  y = x
  BY <1>1, <1>6 DEF DeleteObject, DeletionRequested
<1>7. ASSUME NEW o \in Operator, Reconcile(o),
             ~(UpsertJob(o) \/ UpsertDeployment(o) \/ UpsertService(o)),
             ~\E y \in Object : DeleteObject(o, y)
      PROVE  FALSE
  BY <1>2, <1>7
     DEF Reconcile, ListPaaSApps, UpsertNetworkPolicy, RejectManifest, AcceptManifest,
         GetJob, GetDeployment, CheckReady, RouteToActive, UpsertHTTPRoute, UpdateStatus,
         ListObjects, Recheck, FindRoute, DeleteHTTPRoute, FindNetworkPolicy,
         DeleteNetworkPolicy, CheckNetworkPolicy, clusterVars
<1>8. ASSUME NEW o \in Operator, StopPass(o)
      PROVE  FALSE
  BY <1>2, <1>8 DEF StopPass, clusterVars
<1>9. ASSUME Manifest \/ RemoveRoute \/ RemovePolicy \/ UNCHANGED vars
      PROVE  FALSE
  BY <1>2, <1>9 DEF Manifest, NextRelease, ChangeManifest, TransitionLifecycle, Renew,
                    clusterVars, RemoveRoute, RemovePolicy, vars
<1>10. QED
  BY <1>4, <1>5, <1>6, <1>7, <1>8, <1>9 DEF Next

(* With any number of replicas, and whichever calls fail: something of the  *)
(* release that has the traffic is deleted only by a pass that another      *)
(* replica has crossed with a change of the route.                          *)
THEOREM ServedIsKept == Spec => ServedIsNotDeleted
<1>1. ASSUME Inv, SightInv, [Next]_vars, NEW x \in Object, DeletionRequested(x),
             x.release = route.backend
      PROVE  \E o \in Operator : DeleteObject(o, x) /\ "route" \in crossed[o]
  <2>1. PICK o \in Operator : DeleteObject(o, x)
    BY <1>1, OnlyTheLoopDeletes
  <2>2. PICK w : w = pass[o]
    OBVIOUS
  <2>3. /\ w \in Passes /\ w.at = "delete" /\ x \in w.doomed
        /\ PassShape(w) /\ PassSees(w, SeenRoute(o), SeenPolicy(o), SeenObjects(o))
    BY <1>1, <2>1, <2>2, PassOf DEF DeleteObject
  <2>4. x.release \in Release /\ x.release # None
    BY ObjectFacts
  <2>5. CASE Runs(w.spec.life)
    BY <1>1, <2>1, <2>3, <2>4, <2>5 DEF PassShape, PassSees, SeenRoute
  <2>6. CASE ~Runs(w.spec.life)
    BY <1>1, <2>1, <2>3, <2>4, <2>6 DEF PassSees, SeenRoute, NoRoute
  <2>7. QED
    BY <2>5, <2>6
<1>2. Inv /\ SightInv /\ [Next]_vars =>
        [\A x \in Object : (DeletionRequested(x) /\ x.release = route.backend) =>
           \E o \in Operator : DeleteObject(o, x) /\ "route" \in crossed[o]]_vars
  BY <1>1
<1>3. QED
  BY <1>2, SightInvariance, PTL DEF Spec, ServedIsNotDeleted

(* With any number of replicas: Suspended, Retaining and Deleted are        *)
(* reported only when nothing is left of what they say is gone but what     *)
(* other replicas have brought back since the reporting pass began.         *)
THEOREM EndsAreTrue == Spec => NothingIsLeft
<1> DEFINE Left(o) ==
      /\ UpdateStatus(o)
      /\ route.state = "absent" \/ "route" \in crossed[o]
      /\ (\A x \in Object : ~Exists(x)) \/ "objects" \in crossed[o]
      /\ status'.phase = "Suspended" \/ policy = "absent" \/ "policy" \in crossed[o]
<1>1. ASSUME Inv, SightInv, [Next]_vars, status' # status, status'.phase \in Final
      PROVE  \E o \in Operator : Left(o)
  <2>1. PICK o \in Operator : UpdateStatus(o)
    BY <1>1
       DEF Next, Reconcile, ListPaaSApps, UpsertNetworkPolicy, RejectManifest, AcceptManifest,
           UpsertJob, UpsertDeployment, UpsertService, DeleteObject, StopPass,
           GetJob, GetDeployment, CheckReady, RouteToActive, UpsertHTTPRoute,
           ListObjects, Recheck, FindRoute, DeleteHTTPRoute, FindNetworkPolicy,
           DeleteNetworkPolicy, CheckNetworkPolicy, clusterVars,
           Manifest, NextRelease, ChangeManifest, TransitionLifecycle, Renew,
           BecomeReady, Trouble, Fail, LoseReadiness, Remove, RemoveRoute, RemovePolicy, vars
  <2>2. PICK w : w = pass[o]
    OBVIOUS
  <2>3. /\ w.at = "putstatus"
        /\ PassSees(w, SeenRoute(o), SeenPolicy(o), SeenObjects(o))
        /\ status'.phase = w.status.phase
    BY <1>1, <2>1, <2>2, PassOf DEF UpdateStatus, Patched
  <2>4. Rechecked(w) = Kinds
    BY <1>1, <2>3 DEF Rechecked, Removals
  <2>5. \A x \in Object : x.kind \in Kinds
    BY DEF Object, Kinds
  <2>6. route.state = "absent" \/ "route" \in crossed[o]
    BY <1>1, <2>3 DEF PassSees, SeenRoute, NoRoute
  <2>7. (\A x \in Object : ~Exists(x)) \/ "objects" \in crossed[o]
    BY <2>3, <2>4, <2>5 DEF PassSees, SeenObjects, Exists
  <2>8. status'.phase = "Suspended" \/ policy = "absent" \/ "policy" \in crossed[o]
    BY <1>1, <2>3 DEF PassSees, SeenPolicy, Final
  <2>9. QED
    BY <2>1, <2>6, <2>7, <2>8
<1>2. Inv /\ SightInv /\ [Next]_vars =>
        [(status' # status /\ status'.phase \in {"Suspended", "Retaining", "Deleted"}) =>
           \E o \in Operator : Left(o)]_vars
  BY <1>1 DEF Final
<1>3. QED
  BY <1>2, SightInvariance, PTL DEF Spec, NothingIsLeft

(* One replica alone is never crossed: for it both properties hold without  *)
(* exception.                                                               *)
THEOREM OneIsNotCrossed ==
  ASSUME NEW o, Operator = {o}
  PROVE  Spec => [](crossed[o] = {})
<1> DEFINE Uncrossed == crossed[o] = {}
<1>1. Init => Uncrossed
  BY DEF Init
<1>2. Inv /\ Uncrossed /\ [Next]_vars => Uncrossed'
  <2> SUFFICES ASSUME Inv, Uncrossed, [Next]_vars PROVE Uncrossed'
    OBVIOUS
  <2>1. ASSUME NEW what, NEW changes, Crosses(o, what, changes)
        PROVE  Uncrossed'
    BY <2>1 DEF Crosses
  <2>2. CASE UNCHANGED crossed
    BY <2>2
  <2>3. CASE ListPaaSApps(o)
    BY <2>3 DEF ListPaaSApps, Inv, TypeOK
  <2>4. CASE \/ UpsertNetworkPolicy(o) \/ UpsertJob(o) \/ UpsertDeployment(o)
             \/ UpsertService(o) \/ UpsertHTTPRoute(o)
    BY <2>1, <2>4 DEF UpsertNetworkPolicy, UpsertJob, UpsertDeployment, UpsertService,
                      UpsertHTTPRoute
  <2>5. ASSUME Reconcile(o) \/ StopPass(o)
        PROVE  Uncrossed'
    BY <2>2, <2>3, <2>4, <2>5
       DEF Reconcile, RejectManifest, AcceptManifest, DeleteObject, StopPass,
           GetJob, GetDeployment, CheckReady, RouteToActive, UpdateStatus,
           ListObjects, Recheck, FindRoute, DeleteHTTPRoute, FindNetworkPolicy,
           DeleteNetworkPolicy, CheckNetworkPolicy, clusterVars
  <2>6. CASE Manifest \/ RemoveRoute \/ RemovePolicy \/ UNCHANGED vars
    BY <2>2, <2>6 DEF Manifest, NextRelease, ChangeManifest, TransitionLifecycle, Renew,
                      RemoveRoute, RemovePolicy, clusterVars, vars
  <2>7. ASSUME NEW x \in Object, BecomeReady(x) \/ Trouble(x) \/ Remove(x)
        PROVE  Uncrossed'
    BY <2>2, <2>7 DEF BecomeReady, Trouble, Fail, LoseReadiness, Remove
  <2>8. QED
    BY <2>5, <2>6, <2>7 DEF Next
<1>3. QED
  BY <1>1, <1>2, OperatorInvariance, PTL DEF Spec
=============================================================================
