------------------------ MODULE RuntimeDelivery_proofs ------------------------
(***************************************************************************)
(* Proofs about RuntimeDelivery for all values of its constants.  The       *)
(* inductive invariant IInv joins the properties that TLC checks with what  *)
(* a call or an observation carries from one transaction to the next.  The  *)
(* last part is about GitOpsRepository, the repository below them.          *)
(***************************************************************************)
EXTENDS RuntimeDelivery, GitOpsRepository, FiniteSetTheorems, TLAPS

(* A stored release has an environment and a content.                       *)
RowsAreFilled ==
  \A r \in Release : release[r].state # "NONE" =>
    release[r].env \in Env /\ release[r].content \in Content

(* A key names a stored release.                                            *)
KeysNameReleases ==
  \A k \in Key : idem[k] # None => release[idem[k]].state # "NONE"

(* What a call has already done by the time it reaches pc.                  *)
CallKnows(w) ==
  /\ call[w].pc # "idle" => call[w].key \in Key
  /\ call[w].pc = "create" /\ Command[call[w].key].kind = "rollback" =>
        idem[Command[call[w].key].target] # None
  /\ call[w].pc \in {"deploy", "commit", "record"} =>
        /\ call[w].release \in Release
        /\ release[call[w].release].state # "NONE"
  /\ call[w].pc \in {"commit", "record"} =>
        deployment[call[w].release].phase # "NONE"
  /\ call[w].pc = "record" => index[call[w].release] # NotCommitted

CallsKnow == \A w \in Worker : CallKnows(w)

(* Only deployments are observed and committed, and HEAD is committed.      *)
OnlyDeployments ==
  /\ \A o \in Observer : obs[o].release # None =>
        deployment[obs[o].release].phase # "NONE"
  /\ \A r \in Release :
        /\ index[r] # NotCommitted => deployment[r].phase # "NONE"
        /\ deployment[r].phase = "NONE" => deployment[r] = NoDeployment
  /\ \A e \in Env : head[e] # None =>
        release[head[e]].env = e /\ index[head[e]] # NotCommitted

IInv ==
  /\ TypeOK
  /\ RowsAreFilled
  /\ KeysNameReleases
  /\ CallsKnow
  /\ OnlyDeployments
  /\ SagaAgreement
  /\ OnlyOneActiveRelease
  /\ ActiveReleaseWasReady

CallType == [pc : {"idle", "create", "deploy", "commit", "record"},
             key : Key \cup {None}, release : ReleaseOrNone,
             previous : ReleaseOrNone]

(* A call that goes on with a release, and nothing else of it, changes.     *)
LEMMA ContinueCall ==
  ASSUME NEW w \in Worker, call \in [Worker -> CallType],
         NEW pc \in {"deploy"}, NEW r \in Release, Continue(w, pc, r)
  PROVE  /\ call' \in [Worker -> CallType]
         /\ call'[w].pc = pc /\ call'[w].release = r
         /\ call'[w].key = call[w].key
         /\ \A v \in Worker \ {w} : call'[v] = call[v]
<1>1. call' = [call EXCEPT ![w] = [call[w] EXCEPT !.pc = pc, !.release = r]]
  BY DEF Continue
<1>2. [call[w] EXCEPT !.pc = pc, !.release = r] \in CallType
  BY DEF CallType, ReleaseOrNone
<1>3. /\ [call[w] EXCEPT !.pc = pc, !.release = r].pc = pc
      /\ [call[w] EXCEPT !.pc = pc, !.release = r].release = r
      /\ [call[w] EXCEPT !.pc = pc, !.release = r].key = call[w].key
  BY DEF CallType
<1> QED
  BY <1>1, <1>2, <1>3

(* A call that returns is idle.                                             *)
LEMMA ReturnCall ==
  ASSUME NEW w \in Worker, call \in [Worker -> CallType], Return(w)
  PROVE  /\ call' \in [Worker -> CallType]
         /\ call'[w].pc = "idle"
         /\ \A v \in Worker \ {w} : call'[v] = call[v]
BY DEF Return, IdleCall, CallType, ReleaseOrNone

(* Rows, keys, deployments and manifests are only added.                    *)
OnlyAdded ==
  /\ \A r \in Release :
       /\ release[r].state # "NONE" => release'[r].state # "NONE"
       /\ deployment[r].phase # "NONE" => deployment'[r].phase # "NONE"
       /\ index[r] # NotCommitted => index'[r] # NotCommitted
  /\ \A k \in Key : idem[k] # None => idem'[k] # None

(* What a call knows stays true while others work.                          *)
LEMMA KnowledgeStays ==
  ASSUME NEW v \in Worker, CallKnows(v), call'[v] = call[v], OnlyAdded
  PROVE  CallKnows(v)'
<1>1. call[v].pc = "create" /\ Command[call[v].key].kind = "rollback" =>
        idem'[Command[call[v].key].target] # None
  BY CommandAssumption DEF CallKnows, OnlyAdded, Deploys, Rollbacks
<1> QED
  BY <1>1 DEF CallKnows, OnlyAdded

(* What a call knows when it goes on to its deployment.                     *)
LEMMA ContinueCallsKnow ==
  ASSUME call \in [Worker -> CallType], CallsKnow,
         NEW w \in Worker, NEW r \in Release, Continue(w, "deploy", r),
         call[w].pc # "idle", release'[r].state # "NONE", OnlyAdded
  PROVE  CallsKnow'
<1>1. /\ call'[w].pc = "deploy" /\ call'[w].release = r
      /\ call'[w].key = call[w].key
      /\ \A v \in Worker \ {w} : call'[v] = call[v]
  BY ContinueCall
<1>2. CallKnows(w)'
  BY <1>1 DEF CallsKnow, CallKnows
<1>3. \A v \in Worker \ {w} : CallKnows(v)'
  BY <1>1, KnowledgeStays DEF CallsKnow
<1> QED
  BY <1>2, <1>3 DEF CallsKnow

(* The initial state satisfies the inductive invariant.                     *)
LEMMA InitIInv == Init => IInv
  BY NoneAssumption DEF Init, IInv, TypeOK, RowsAreFilled, KeysNameReleases,
     CallsKnow, CallKnows, OnlyDeployments, SagaAgreement, Agrees,
     OnlyOneActiveRelease, ActiveReleaseWasReady, Placements, NoPlacement, NoReleaseRow, NoDeployment,
     NoPaaSApp, IdleCall, NoSight, ReleaseOrNone, Manifest, ReleaseStates, Phases, Sights

(* A call that starts: Begin.                                               *)
LEMMA BeginIInv ==
  ASSUME IInv, NEW w \in Worker, NEW k \in Key, Begin(w, k)
  PROVE  IInv'
<1> USE DEF IInv, TypeOK
<1>1. TypeOK'
  BY NoneAssumption DEF Begin, store, repo, ReleaseOrNone
<1>2. CallsKnow'
  BY NoneAssumption, CommandAssumption
     DEF Begin, store, repo, CallsKnow, CallKnows,
     KeysNameReleases, ReleaseOrNone
<1> QED
  BY <1>1, <1>2 DEF Begin, store, repo, RowsAreFilled, KeysNameReleases,
     OnlyDeployments, SagaAgreement, Agrees, OnlyOneActiveRelease,
     ActiveReleaseWasReady

(* A call that ends without an effect: Abort.                               *)
LEMMA AbortIInv ==
  ASSUME IInv, NEW w \in Worker, Abort(w)
  PROVE  IInv'
<1> USE DEF IInv, TypeOK
<1>1. TypeOK'
  BY DEF Abort, Return, IdleCall, store, repo, ReleaseOrNone
<1>2. CallsKnow'
  BY DEF Abort, Return, IdleCall, store, repo, CallsKnow, CallKnows
<1> QED
  BY <1>1, <1>2 DEF Abort, store, repo, RowsAreFilled, KeysNameReleases,
     OnlyDeployments, SagaAgreement, Agrees, OnlyOneActiveRelease,
     ActiveReleaseWasReady

(* A concurrent retry created the release first: CreateReplayed.            *)
LEMMA CreateReplayedIInv ==
  ASSUME IInv, NEW w \in Worker, CreateReplayed(w)
  PROVE  IInv'
<1> USE DEF IInv, TypeOK
<1>0. call[w].key \in Key
  BY DEF CreateReplayed, CallsKnow, CallKnows
<1>1. TypeOK'
  <2>1. idem[call[w].key] \in Release
    BY <1>0 DEF CreateReplayed, ReleaseOrNone
  <2>2. call' \in [Worker -> CallType]
    BY <2>1, ContinueCall DEF CreateReplayed, CallType
  <2> QED
    BY <2>2 DEF CreateReplayed, store, repo, CallType
<1>2. CallsKnow'
  BY <1>0, ContinueCallsKnow DEF CreateReplayed, store, repo, CallType,
     KeysNameReleases, ReleaseOrNone, OnlyAdded
<1> QED
  BY <1>1, <1>2 DEF CreateReplayed, store, repo, RowsAreFilled,
     KeysNameReleases, OnlyDeployments, SagaAgreement, Agrees,
     OnlyOneActiveRelease, ActiveReleaseWasReady

(* The identity of the release exists: CreateDeduplicated.                  *)
LEMMA CreateDeduplicatedIInv ==
  ASSUME IInv, NEW w \in Worker, CreateDeduplicated(w)
  PROVE  IInv'
<1> USE DEF IInv, TypeOK
<1>0. call[w].key \in Key
  BY DEF CreateDeduplicated, CallsKnow, CallKnows
<1>1. PICK r \in Release :
        /\ release[r].state # "NONE"
        /\ idem' = [idem EXCEPT ![call[w].key] = r]
        /\ Continue(w, "deploy", r)
  BY DEF CreateDeduplicated, SameIdentity
<1>2. TypeOK'
  <2>1. call' \in [Worker -> CallType]
    BY <1>1, ContinueCall DEF CallType
  <2> QED
    BY <1>0, <1>1, <2>1 DEF CreateDeduplicated, repo, CallType, ReleaseOrNone
<1>3. KeysNameReleases'
  BY <1>0, <1>1 DEF CreateDeduplicated, KeysNameReleases
<1>4. CallsKnow'
  <2>1. OnlyAdded /\ call[w].pc # "idle"
    BY <1>0, <1>1, NoneAssumption DEF CreateDeduplicated, repo, OnlyAdded
  <2> QED
    BY <1>1, <2>1, ContinueCallsKnow DEF CreateDeduplicated, CallType
<1> QED
  BY <1>2, <1>3, <1>4 DEF CreateDeduplicated, repo, RowsAreFilled,
     OnlyDeployments, SagaAgreement, Agrees,
     OnlyOneActiveRelease, ActiveReleaseWasReady

(* The placement of an environment keeps its type when it is resized.       *)
LEMMA ResizeType ==
  ASSUME TypeOK, NEW e \in Env, NEW units \in Nat, ResizePlacement(e, units)
  PROVE  /\ placement' \in [Env -> Placements]
         /\ allocated' \in [Cell -> Nat]
<1> DEFINE c == placement[e].cell
<1>1. placement[e].units \in Nat
  BY DEF TypeOK, Placements
<1>2. ASSUME c \in Cell
      PROVE  allocated[c] + units - placement[e].units \in Nat
  BY <1>1, <1>2 DEF ResizePlacement, TypeOK
<1>3. allocated' = [allocated EXCEPT ![c] =
                      allocated[c] + units - placement[e].units]
  BY DEF ResizePlacement, Reallocated
<1>4. allocated' \in [Cell -> Nat]
  BY <1>2, <1>3 DEF TypeOK
<1> QED
  <2>1. placement' = [placement EXCEPT
                        ![e] = [placement[e] EXCEPT !.units = units]]
    BY DEF ResizePlacement
  <2>2. PICK p \in Placements : p = placement[e]
    BY DEF TypeOK
  <2>3. [p EXCEPT !.units = units] \in Placements
    BY DEF Placements
  <2> QED
    BY <1>4, <2>1, <2>2, <2>3 DEF TypeOK

(* A new environment is placed on a cell of the model.                      *)
LEMMA PlaceType ==
  ASSUME TypeOK, NEW e \in Env, NEW s \in Content, PlaceEnvironment(e, s)
  PROVE  /\ placement' \in [Env -> Placements]
         /\ allocated' \in [Cell -> Nat]
BY UnitsAssumption DEF PlaceEnvironment, TypeOK, Placements, Classes

(* Inserting a release row preserves what does not concern capacity.        *)
LEMMA InsertIInv ==
  ASSUME IInv, NEW w \in Worker, NEW r \in Release, NEW e \in Env,
         NEW s \in Content, NEW t \in ReleaseOrNone,
         call[w].pc = "create",
         InsertRelease(w, r, e, s, t),
         placement' \in [Env -> Placements],
         allocated' \in [Cell -> Nat],
         UNCHANGED <<active, deployment, recorded, repo, paasapp, obs>>
  PROVE  IInv'
<1> USE DEF IInv, TypeOK, InsertRelease
<1>0. /\ call[w].key \in Key
      /\ release' \in [Release -> [state : ReleaseStates,
                                   env : Env \cup {None},
                                   content : Content \cup {None},
                                   rollbackOf : ReleaseOrNone]]
      /\ UNCHANGED <<index, head>>
  BY DEF CallsKnow, CallKnows, ReleaseStates, repo
<1>1. TypeOK'
  <2>1. call' \in [Worker -> CallType]
    BY ContinueCall DEF CallType
  <2> QED
    BY <1>0, <2>1 DEF CallType, ReleaseOrNone
<1>2. RowsAreFilled'
  BY DEF RowsAreFilled
<1>3. KeysNameReleases'
  BY <1>0 DEF KeysNameReleases
<1>4. CallsKnow'
  <2>1. OnlyAdded
    BY <1>0, NoneAssumption DEF OnlyAdded
  <2>2. release'[r].state # "NONE"
    BY <1>0
  <2> QED
    BY <2>1, <2>2, ContinueCallsKnow DEF CallType
<1>5. deployment[r].phase = "NONE" /\ deployment'[r].phase = "NONE"
  BY DEF SagaAgreement, Agrees, Phases
<1>6. OnlyDeployments'
  BY <1>0, <1>5 DEF OnlyDeployments, ReleaseOrNone
<1>7. SagaAgreement'
  BY <1>0, <1>5 DEF SagaAgreement, Agrees
<1>8. OnlyOneActiveRelease'
  BY DEF OnlyOneActiveRelease
<1>9. ActiveReleaseWasReady'
  BY <1>5 DEF ActiveReleaseWasReady, ReleaseOrNone
<1> QED
  BY <1>1, <1>2, <1>3, <1>4, <1>6, <1>7, <1>8, <1>9

(* The write transaction of a deployment: CreateRelease.                    *)
LEMMA CreateReleaseIInv ==
  ASSUME IInv, NEW w \in Worker, CreateRelease(w)
  PROVE  IInv'
<1> DEFINE k == call[w].key
<1>1. k \in Key /\ Command[k].kind = "deploy" /\ call[w].pc = "create"
  BY DEF CreateRelease, IInv, CallsKnow, CallKnows
<1>2. Command[k].env \in Env /\ Command[k].content \in Content
  BY <1>1, CommandAssumption DEF Deploys, Rollbacks
<1>3. /\ placement' \in [Env -> Placements]
      /\ allocated' \in [Cell -> Nat]
  BY <1>2, ResizeType, PlaceType, UnitsAssumption DEF CreateRelease, IInv
<1>4. PICK r \in Release :
        InsertRelease(w, r, Command[k].env, Command[k].content, None)
  BY DEF CreateRelease
<1>5. UNCHANGED <<active, deployment, recorded, repo, paasapp, obs>>
  BY DEF CreateRelease
<1> QED
  BY <1>1, <1>2, <1>3, <1>4, <1>5, InsertIInv DEF ReleaseOrNone

(* The write transaction of a rollback: CreateRollback.                     *)
LEMMA CreateRollbackIInv ==
  ASSUME IInv, NEW w \in Worker, CreateRollback(w)
  PROVE  IInv'
<1> DEFINE k == call[w].key
           target == idem[Command[k].target]
<1>1. k \in Key /\ Command[k].kind = "rollback" /\ call[w].pc = "create"
  BY DEF CreateRollback, IInv, CallsKnow, CallKnows
<1>2. Command[k].env \in Env /\ Command[k].target \in Key
  BY <1>1, CommandAssumption DEF Deploys, Rollbacks
<1>3. target \in Release
  BY <1>1, <1>2 DEF IInv, TypeOK, CallsKnow, CallKnows, ReleaseOrNone
<1>4. release[target].content \in Content
  BY <1>2, <1>3, NoneAssumption DEF IInv, KeysNameReleases, RowsAreFilled
<1>5. /\ placement' \in [Env -> Placements]
      /\ allocated' \in [Cell -> Nat]
  BY <1>2, <1>4, ResizeType, UnitsAssumption DEF CreateRollback, IInv
<1>6. PICK r \in Release :
        InsertRelease(w, r, Command[k].env, release[target].content, target)
  BY DEF CreateRollback
<1>7. UNCHANGED <<active, deployment, recorded, repo, paasapp, obs>>
  BY DEF CreateRollback
<1> QED
  BY <1>1, <1>2, <1>3, <1>4, <1>5, <1>6, <1>7, InsertIInv DEF ReleaseOrNone

(* The deployment is found or inserted: EnsureDeployment.                   *)
LEMMA EnsureDeploymentIInv ==
  ASSUME IInv, NEW w \in Worker, EnsureDeployment(w)
  PROVE  IInv'
<1> DEFINE r == call[w].release
           e == release[r].env
<1> USE DEF IInv
<1>1. /\ call[w].pc = "deploy" /\ call[w].key \in Key
      /\ r \in Release /\ release[r].state # "NONE" /\ e \in Env
      /\ active[e] \in ReleaseOrNone /\ call[w] \in CallType
  BY DEF EnsureDeployment, CallsKnow, CallKnows, RowsAreFilled, TypeOK, CallType
<1>2. UNCHANGED <<placement, allocated, release, idem, active, recorded,
                  index, head, paasapp, obs>>
  BY DEF EnsureDeployment, repo
<1>3. /\ deployment' \in [Release -> [phase : Phases, previous : ReleaseOrNone]]
      /\ \A x \in Release : \/ deployment'[x] = deployment[x]
                            \/ /\ x = r /\ deployment[x] = NoDeployment
                               /\ deployment'[x].phase = "PENDING"
      /\ deployment'[r].phase # "NONE"
  BY <1>1 DEF EnsureDeployment, FoundOrNewDeployment, TypeOK, Phases,
     OnlyDeployments, NoDeployment
<1>4. /\ call' \in [Worker -> CallType]
      /\ \A v \in Worker \ {w} : call'[v] = call[v]
      /\ \/ call'[w].pc = "idle"
         \/ /\ call'[w].pc = "commit" /\ call'[w].release = r
            /\ call'[w].key = call[w].key
  <2>1. CASE deployment'[r].phase = "PENDING"
    <3> DEFINE c == [call[w] EXCEPT !.pc = "commit", !.previous = active[e]]
    <3>1. call' = [call EXCEPT ![w] = c]
      BY <2>1 DEF EnsureDeployment
    <3>2. c \in CallType /\ c.pc = "commit" /\ c.release = r
          /\ c.key = call[w].key
      BY <1>1 DEF CallType
    <3> QED
      BY <3>1, <3>2 DEF TypeOK, CallType
  <2>2. CASE deployment'[r].phase # "PENDING"
    <3>1. Return(w)
      BY <2>2 DEF EnsureDeployment
    <3> QED
      BY <3>1, ReturnCall DEF TypeOK, CallType
  <2> QED
    BY <2>1, <2>2
<1>5. TypeOK'
  BY <1>2, <1>3, <1>4 DEF TypeOK, CallType
<1>6. CallsKnow'
  <2>1. CallKnows(w)'
    BY <1>1, <1>2, <1>3, <1>4 DEF CallKnows
  <2>2. OnlyAdded
    BY <1>2, <1>3 DEF OnlyAdded, NoDeployment
  <2>3. \A v \in Worker \ {w} : CallKnows(v)'
    BY <1>4, <2>2, KnowledgeStays DEF CallsKnow
  <2> QED
    BY <2>1, <2>3 DEF CallsKnow
<1>7. OnlyDeployments'
  BY <1>2, <1>3 DEF OnlyDeployments, NoDeployment, TypeOK, ReleaseOrNone
<1>8. SagaAgreement'
  <2> SUFFICES ASSUME NEW x \in Release
               PROVE  Agrees(x)'
    BY DEF SagaAgreement
  <2> QED
    BY <1>1, <1>2, <1>3 DEF SagaAgreement, Agrees, NoDeployment
<1>9. ActiveReleaseWasReady'
  BY <1>2, <1>3 DEF ActiveReleaseWasReady, NoDeployment, TypeOK, ReleaseOrNone
<1> QED
  BY <1>2, <1>5, <1>6, <1>7, <1>8, <1>9
     DEF RowsAreFilled, KeysNameReleases, OnlyOneActiveRelease

(* The manifest is pushed: CommitGitOps.                                    *)
LEMMA CommitGitOpsIInv ==
  ASSUME IInv, NEW w \in Worker, CommitGitOps(w)
  PROVE  IInv'
<1> DEFINE r == call[w].release
           e == release[r].env
<1> USE DEF IInv
<1>1. /\ call[w].pc = "commit" /\ call[w].key \in Key /\ call[w] \in CallType
      /\ r \in Release /\ release[r].state # "NONE" /\ e \in Env
      /\ deployment[r].phase # "NONE" /\ call[w].previous \in ReleaseOrNone
  BY DEF CommitGitOps, CallsKnow, CallKnows, RowsAreFilled, TypeOK, CallType
<1>2. UNCHANGED <<placement, allocated, release, idem, active, deployment,
                  recorded, paasapp, obs>>
  BY DEF CommitGitOps, store
<1>3. /\ index' \in [Release -> Manifest]
      /\ head' \in [Env -> ReleaseOrNone]
      /\ index'[r] # NotCommitted
      /\ \A x \in Release \ {r} : index'[x] = index[x]
      /\ index[r] # NotCommitted => index' = index
      /\ head' = head \/ head' = [head EXCEPT ![e] = r]
  BY <1>1, NoneAssumption
     DEF CommitGitOps, IndexWritten, repo, TypeOK, Manifest, ReleaseOrNone
<1>4. /\ call' \in [Worker -> CallType]
      /\ call'[w].pc = "record" /\ call'[w].release = r
      /\ call'[w].key = call[w].key
      /\ \A v \in Worker \ {w} : call'[v] = call[v]
  <2> DEFINE c == [call[w] EXCEPT !.pc = "record"]
  <2>1. call' = [call EXCEPT ![w] = c]
    BY DEF CommitGitOps
  <2>2. c \in CallType /\ c.pc = "record" /\ c.release = r /\ c.key = call[w].key
    BY <1>1 DEF CallType
  <2> QED
    BY <2>1, <2>2 DEF TypeOK, CallType
<1>5. TypeOK'
  BY <1>2, <1>3, <1>4 DEF TypeOK, CallType
<1>6. CallsKnow'
  <2>1. CallKnows(w)'
    BY <1>1, <1>2, <1>3, <1>4 DEF CallKnows
  <2>2. OnlyAdded
    BY <1>2, <1>3 DEF OnlyAdded
  <2>3. \A v \in Worker \ {w} : CallKnows(v)'
    BY <1>4, <2>2, KnowledgeStays DEF CallsKnow
  <2> QED
    BY <2>1, <2>3 DEF CallsKnow
<1>7. OnlyDeployments'
  BY <1>1, <1>2, <1>3, NoneAssumption
     DEF OnlyDeployments, TypeOK, ReleaseOrNone
<1>8. SagaAgreement'
  <2>1. recorded[r] # NotCommitted => index' = index
    BY <1>1, <1>3 DEF SagaAgreement, Agrees
  <2> QED
    BY <1>2, <1>3, <2>1 DEF SagaAgreement, Agrees
<1> QED
  BY <1>2, <1>5, <1>6, <1>7, <1>8
     DEF RowsAreFilled, KeysNameReleases, OnlyOneActiveRelease,
     ActiveReleaseWasReady

(* The commit is recorded with the release and the deployment:              *)
(* recordGitCommit, whoever calls it.                                       *)
LEMMA RecordGitCommitIInv ==
  ASSUME IInv, NEW r \in Release, RecordGitCommit(r), index[r] # NotCommitted,
         call' \in [Worker -> CallType],
         \A v \in Worker : call'[v] = call[v] \/ call'[v].pc = "idle",
         UNCHANGED <<placement, allocated, idem, active, index, head, paasapp,
                     obs>>
  PROVE  IInv'
<1> USE DEF IInv
<1>1. /\ release' \in [Release -> [state : ReleaseStates,
                                   env : Env \cup {None},
                                   content : Content \cup {None},
                                   rollbackOf : ReleaseOrNone]]
      /\ deployment' \in [Release -> [phase : Phases, previous : ReleaseOrNone]]
      /\ recorded' \in [Release -> Manifest]
  <2>1. release[r] \in [state : ReleaseStates, env : Env \cup {None},
                        content : Content \cup {None},
                        rollbackOf : ReleaseOrNone]
        /\ deployment[r] \in [phase : Phases, previous : ReleaseOrNone]
    BY DEF TypeOK
  <2>2. [release[r] EXCEPT !.state = "COMMITTED_TO_GITOPS"] \in
          [state : ReleaseStates, env : Env \cup {None},
           content : Content \cup {None}, rollbackOf : ReleaseOrNone]
    BY <2>1 DEF ReleaseStates
  <2>3. [deployment[r] EXCEPT !.phase = "GIT_COMMITTED"] \in
          [phase : Phases, previous : ReleaseOrNone]
    BY <2>1 DEF Phases
  <2>4. release' = release
        \/ release' = [release EXCEPT ![r] =
                         [release[r] EXCEPT !.state = "COMMITTED_TO_GITOPS"]]
    BY DEF RecordGitCommit
  <2>5. deployment' = deployment
        \/ deployment' = [deployment EXCEPT ![r] =
                            [deployment[r] EXCEPT !.phase = "GIT_COMMITTED"]]
    BY DEF RecordGitCommit
  <2>6. recorded' = recorded \/ recorded' = [recorded EXCEPT ![r] = index[r]]
    BY DEF RecordGitCommit
  <2>7. release' \in [Release -> [state : ReleaseStates,
                                 env : Env \cup {None},
                                 content : Content \cup {None},
                                 rollbackOf : ReleaseOrNone]]
    BY <2>2, <2>4 DEF TypeOK
  <2>8. deployment' \in [Release -> [phase : Phases, previous : ReleaseOrNone]]
    BY <2>3, <2>5 DEF TypeOK
  <2>9. recorded' \in [Release -> Manifest]
    BY <2>6 DEF TypeOK
  <2> QED
    BY <2>7, <2>8, <2>9
<1>2. \/ UNCHANGED <<release, deployment, recorded>>
      \/ /\ release[r].state = "VALIDATED"
         /\ deployment[r].phase = "PENDING"
         /\ release'[r].state = "COMMITTED_TO_GITOPS"
         /\ release'[r].env = release[r].env
         /\ release'[r].content = release[r].content
         /\ deployment'[r].phase = "GIT_COMMITTED"
         /\ recorded'[r] = index[r]
         /\ \A x \in Release \ {r} : /\ release'[x] = release[x]
                                     /\ deployment'[x] = deployment[x]
                                     /\ recorded'[x] = recorded[x]
  BY DEF RecordGitCommit, TypeOK
<1>3. CASE UNCHANGED <<release, deployment, recorded>>
  <2>1. TypeOK'
    BY <1>3 DEF TypeOK, CallType
  <2>2. RowsAreFilled' /\ KeysNameReleases'
    BY <1>3 DEF RowsAreFilled, KeysNameReleases
  <2>3. CallsKnow'
    BY <1>3 DEF CallsKnow, CallKnows, TypeOK, CallType
  <2> QED
    BY <1>3, <2>1, <2>2, <2>3 DEF OnlyDeployments, SagaAgreement, Agrees,
       OnlyOneActiveRelease, ActiveReleaseWasReady
<1>4. CASE ~UNCHANGED <<release, deployment, recorded>>
  <2>1. TypeOK'
    BY <1>1 DEF TypeOK, CallType
  <2>0. \A x \in Release :
          /\ release'[x].env = release[x].env
          /\ release'[x].content = release[x].content
          /\ release'[x].state = "NONE" <=> release[x].state = "NONE"
          /\ release'[x].state = "ACTIVE" <=> release[x].state = "ACTIVE"
          /\ deployment'[x].phase = "NONE" <=> deployment[x].phase = "NONE"
          /\ deployment'[x].phase = "READY" <=> deployment[x].phase = "READY"
          /\ deployment[x].phase = "NONE" => deployment'[x] = deployment[x]
    BY <1>2, <1>4
  <2>2. RowsAreFilled' /\ KeysNameReleases'
    BY <2>0 DEF RowsAreFilled, KeysNameReleases, TypeOK, ReleaseOrNone
  <2>3. CallsKnow'
    <3>1. OnlyAdded
      BY <1>2, <1>4 DEF OnlyAdded
    <3>2. ASSUME NEW v \in Worker
          PROVE  CallKnows(v)'
      <4>1. CASE call'[v] = call[v]
        BY <3>1, <4>1, KnowledgeStays DEF CallsKnow
      <4>2. CASE call'[v].pc = "idle"
        BY <4>2 DEF CallKnows
      <4> QED
        BY <4>1, <4>2
    <3> QED
      BY <3>2 DEF CallsKnow
  <2>4. OnlyDeployments'
    BY <2>0 DEF OnlyDeployments, TypeOK, ReleaseOrNone
  <2>5. SagaAgreement'
    BY <1>2, <1>4 DEF SagaAgreement, Agrees
  <2>6. OnlyOneActiveRelease' /\ ActiveReleaseWasReady'
    BY <2>0 DEF OnlyOneActiveRelease, ActiveReleaseWasReady, TypeOK,
       ReleaseOrNone
  <2> QED
    BY <2>1, <2>2, <2>3, <2>4, <2>5, <2>6
<1> QED
  BY <1>3, <1>4

(* The call records its commit: RecordCommit.                               *)
LEMMA RecordCommitIInv ==
  ASSUME IInv, NEW w \in Worker, RecordCommit(w)
  PROVE  IInv'
<1>1. /\ call[w].release \in Release /\ index[call[w].release] # NotCommitted
  BY DEF RecordCommit, IInv, CallsKnow, CallKnows
<1>2. /\ call' \in [Worker -> CallType]
      /\ \A v \in Worker : call'[v] = call[v] \/ call'[v].pc = "idle"
  BY ReturnCall DEF RecordCommit, IInv, TypeOK, CallType
<1> QED
  BY <1>1, <1>2, RecordGitCommitIInv DEF RecordCommit, repo

(* ReconcileGitOps records the commit that a call left behind.              *)
LEMMA ReconcileGitOpsIInv ==
  ASSUME IInv, NEW r \in Release, ReconcileGitOps(r)
  PROVE  IInv'
<1>1. call \in [Worker -> CallType]
  BY DEF IInv, TypeOK, CallType
<1> QED
  BY <1>1, RecordGitCommitIInv DEF ReconcileGitOps, repo

(* The cluster changes its object only.                                     *)
LEMMA ClusterIInv ==
  ASSUME IInv, ClusterStep
  PROVE  IInv'
<1> USE DEF IInv
<1>1. UNCHANGED <<store, repo, call, obs>>
  BY DEF ClusterStep, ArgoSync, OperatorReport
<1> DEFINE PaaSApp == [release : ReleaseOrNone, previous : ReleaseOrNone,
                       current : BOOLEAN, phase : Sights]
<1>2. paasapp' \in [Env -> PaaSApp]
  <2>0. paasapp \in [Env -> PaaSApp]
    BY DEF TypeOK
  <2>1. ASSUME NEW e \in Env, ArgoSync(e)
        PROVE  paasapp' \in [Env -> PaaSApp]
    <3> DEFINE r == head[e]
               p == [paasapp[e] EXCEPT !.release = r, !.previous = index[r],
                                       !.current = FALSE]
    <3>1. r \in Release /\ index[r] \in ReleaseOrNone
      BY <2>1 DEF ArgoSync, OnlyDeployments, TypeOK, ReleaseOrNone, Manifest
    <3>2. p \in PaaSApp
      BY <2>0, <3>1 DEF ReleaseOrNone
    <3>3. paasapp' = [paasapp EXCEPT ![e] = p]
      BY <2>1 DEF ArgoSync
    <3> QED
      BY <2>0, <3>2, <3>3
  <2>2. ASSUME NEW e \in Env, NEW phase \in {"ready", "degraded", "other"},
               OperatorReport(e, phase)
        PROVE  paasapp' \in [Env -> PaaSApp]
    <3> DEFINE p == [paasapp[e] EXCEPT !.current = TRUE, !.phase = phase]
    <3>1. p \in PaaSApp
      BY <2>0 DEF Sights
    <3>2. paasapp' = [paasapp EXCEPT ![e] = p]
      BY <2>2 DEF OperatorReport
    <3> QED
      BY <2>0, <3>1, <3>2
  <2> QED
    BY <2>1, <2>2 DEF ClusterStep
<1>3. TypeOK'
  BY <1>1, <1>2 DEF TypeOK, store, repo
<1> QED
  BY <1>1, <1>3 DEF store, repo, RowsAreFilled, KeysNameReleases, CallsKnow,
     CallKnows, OnlyDeployments, SagaAgreement, Agrees,
     OnlyOneActiveRelease, ActiveReleaseWasReady

(* An observation is made or dropped.                                       *)
LEMMA ObserveIInv ==
  ASSUME IInv, NEW o \in Observer, NEW r \in Release, Observe(o, r)
  PROVE  IInv'
<1> USE DEF IInv
<1>1. UNCHANGED <<store, repo, paasapp, call>>
  BY DEF Observe
<1>2. deployment[r].phase # "NONE"
  BY DEF Observe, OnlyDeployments
<1>3. /\ obs' \in [Observer -> [release : ReleaseOrNone, sight : Sights]]
      /\ obs'[o].release = r
      /\ \A p \in Observer \ {o} : obs'[p] = obs[p]
  <2>1. release[r].env \in Env
    BY <1>2 DEF SagaAgreement, Agrees, RowsAreFilled, TypeOK, Phases
  <2>2. \E s \in Sights : obs' = [obs EXCEPT ![o] = [release |-> r, sight |-> s]]
    BY <2>1 DEF Observe, TypeOK, Sights
  <2> QED
    BY <2>2 DEF TypeOK, ReleaseOrNone
<1>4. TypeOK'
  BY <1>1, <1>3 DEF TypeOK, store, repo
<1>5. OnlyDeployments'
  BY <1>1, <1>2, <1>3 DEF OnlyDeployments, store, repo
<1> QED
  BY <1>1, <1>4, <1>5 DEF store, repo, RowsAreFilled, KeysNameReleases,
     CallsKnow, CallKnows, SagaAgreement, Agrees,
     OnlyOneActiveRelease, ActiveReleaseWasReady

(* An observation is dropped: DropObservation.                              *)
LEMMA DropObservationIInv ==
  ASSUME IInv, NEW o \in Observer, DropObservation(o)
  PROVE  IInv'
<1> USE DEF IInv
<1>1. UNCHANGED <<store, repo, paasapp, call>> /\ obs' = [obs EXCEPT ![o] = NoSight]
  BY DEF DropObservation
<1>2. TypeOK'
  BY <1>1 DEF TypeOK, store, repo, NoSight, Sights, ReleaseOrNone
<1>3. OnlyDeployments'
  BY <1>1 DEF OnlyDeployments, TypeOK, store, repo, NoSight
<1> QED
  BY <1>1, <1>2, <1>3 DEF store, repo, RowsAreFilled, KeysNameReleases,
     CallsKnow, CallKnows, SagaAgreement, Agrees,
     OnlyOneActiveRelease, ActiveReleaseWasReady

(* What applying an observation of release r may do, besides going live:    *)
(* the deployment moves on between its phases and the release with it.      *)
RollsOn(r) ==
  /\ deployment' \in [Release -> [phase : Phases, previous : ReleaseOrNone]]
  /\ release' = [release EXCEPT ![r].state = Deploying(@)] \/ release' = release
  /\ \A x \in Release \ {r} : deployment'[x] = deployment[x]
  /\ deployment'[r].phase = "NONE" => deployment'[r] = deployment[r]
  /\ deployment[r].phase = "READY" <=> deployment'[r].phase = "READY"
  /\ deployment[r].phase \in {"NONE", "PENDING"} =>
        deployment'[r].phase = deployment[r].phase
  /\ deployment[r].phase \notin {"NONE", "PENDING"} =>
        deployment'[r].phase \notin {"NONE", "PENDING"}
  /\ IF release' = release
     THEN deployment'[r].phase = deployment[r].phase
          \/ /\ deployment[r].phase = "GIT_COMMITTED"
             /\ deployment'[r].phase = "ARGO_SYNCING"
          \/ /\ deployment[r].phase \in {"ROLLING_OUT", "DEGRADED"}
             /\ deployment'[r].phase \in {"ROLLING_OUT", "DEGRADED"}
     ELSE deployment'[r].phase \in {"ROLLING_OUT", "DEGRADED"}
  /\ UNCHANGED active

(* Rolling on moves the release row at most from COMMITTED_TO_GITOPS to      *)
(* DEPLOYING.                                                               *)
LEMMA RollsOnRelease ==
  ASSUME TypeOK, NEW r \in Release, RollsOn(r)
  PROVE  /\ release' \in [Release -> [state : ReleaseStates,
                                      env : Env \cup {None},
                                      content : Content \cup {None},
                                      rollbackOf : ReleaseOrNone]]
         /\ release'[r].state = release[r].state
            \/ /\ release[r].state = "COMMITTED_TO_GITOPS"
               /\ release'[r].state = "DEPLOYING"
         /\ release'[r].env = release[r].env
         /\ release'[r].content = release[r].content
         /\ \A x \in Release \ {r} : release'[x] = release[x]
         /\ release' # release => /\ release[r].state = "COMMITTED_TO_GITOPS"
                                  /\ release'[r].state = "DEPLOYING"
<1> DEFINE row == [release[r] EXCEPT !.state = Deploying(release[r].state)]
<1>1. release[r] \in [state : ReleaseStates, env : Env \cup {None},
                      content : Content \cup {None},
                      rollbackOf : ReleaseOrNone]
  BY DEF TypeOK
<1>2. row \in [state : ReleaseStates, env : Env \cup {None},
               content : Content \cup {None}, rollbackOf : ReleaseOrNone]
  BY <1>1 DEF Deploying, ReleaseStates
<1>3. release' = release \/ release' = [release EXCEPT ![r] = row]
  BY DEF RollsOn
<1>4. release' \in [Release -> [state : ReleaseStates,
                               env : Env \cup {None},
                               content : Content \cup {None},
                               rollbackOf : ReleaseOrNone]]
  BY <1>2, <1>3 DEF TypeOK
<1>5. release[r].state # "COMMITTED_TO_GITOPS" => row = release[r]
  BY <1>1 DEF Deploying
<1>6. release[r].state # "COMMITTED_TO_GITOPS" => release' = release
  BY <1>3, <1>5 DEF TypeOK
<1>7. /\ row.env = release[r].env /\ row.content = release[r].content
      /\ row.state = Deploying(release[r].state)
  BY <1>1
<1> QED
  BY <1>3, <1>4, <1>6, <1>7 DEF TypeOK, Deploying

(* Applying an observation that does not make the release live preserves    *)
(* the invariant.                                                           *)
LEMMA RollsOnIInv ==
  ASSUME IInv, NEW o \in Observer, NEW r \in Release, r = obs[o].release,
         NEW sight \in Sights, Applying(o, sight), RollsOn(r)
  PROVE  IInv'
<1> USE DEF IInv
<1>1. /\ UNCHANGED <<placement, allocated, idem, active, recorded, index, head,
                     paasapp, call>>
      /\ obs' = [obs EXCEPT ![o] = NoSight]
      /\ deployment[r].phase # "NONE"
  BY NoneAssumption DEF Applying, RollsOn, repo, OnlyDeployments
<1>2. /\ release' \in [Release -> [state : ReleaseStates,
                                   env : Env \cup {None},
                                   content : Content \cup {None},
                                   rollbackOf : ReleaseOrNone]]
      /\ release'[r].state = release[r].state
         \/ /\ release[r].state = "COMMITTED_TO_GITOPS"
            /\ release'[r].state = "DEPLOYING"
      /\ release'[r].env = release[r].env
      /\ release'[r].content = release[r].content
      /\ \A x \in Release \ {r} : release'[x] = release[x]
      /\ release' # release => /\ release[r].state = "COMMITTED_TO_GITOPS"
                               /\ release'[r].state = "DEPLOYING"
  BY RollsOnRelease
<1>3. \A x \in Release :
        /\ release'[x].env = release[x].env
        /\ release'[x].content = release[x].content
        /\ release'[x].state = "NONE" <=> release[x].state = "NONE"
        /\ release'[x].state = "ACTIVE" <=> release[x].state = "ACTIVE"
        /\ deployment'[x].phase = "NONE" <=> deployment[x].phase = "NONE"
        /\ deployment'[x].phase = "READY" <=> deployment[x].phase = "READY"
        /\ deployment[x].phase = "NONE" => deployment'[x] = deployment[x]
  BY <1>1, <1>2 DEF RollsOn
<1>4. TypeOK'
  BY <1>1, <1>2 DEF RollsOn, TypeOK, NoSight, Sights, ReleaseOrNone
<1>5. RowsAreFilled' /\ KeysNameReleases'
  BY <1>1, <1>3 DEF RowsAreFilled, KeysNameReleases, TypeOK, ReleaseOrNone
<1>6. CallsKnow'
  BY <1>1, <1>3, KnowledgeStays DEF CallsKnow, OnlyAdded
<1>7. OnlyDeployments'
  BY <1>1, <1>3 DEF OnlyDeployments, TypeOK, ReleaseOrNone, NoSight
<1>8. SagaAgreement'
  <2>1. \A x \in Release \ {r} : Agrees(x)'
    BY <1>1, <1>2 DEF SagaAgreement, Agrees, RollsOn
  <2>2. Agrees(r)'
    BY <1>1, <1>2 DEF SagaAgreement, Agrees, RollsOn, TypeOK, Phases
  <2> QED
    BY <2>1, <2>2 DEF SagaAgreement
<1>9. OnlyOneActiveRelease' /\ ActiveReleaseWasReady'
  BY <1>1, <1>3 DEF OnlyOneActiveRelease, ActiveReleaseWasReady, TypeOK,
     ReleaseOrNone
<1> QED
  BY <1>4, <1>5, <1>6, <1>7, <1>8, <1>9

(* Observations of a missing, rolling, degraded or other object roll on.    *)
LEMMA ApplyOthersRollOn ==
  ASSUME IInv, NEW o \in Observer,
         ApplyMissing(o) \/ ApplyRolling(o) \/ ApplyDegraded(o) \/ ApplyOther(o)
  PROVE  /\ obs[o].release \in Release
         /\ RollsOn(obs[o].release)
         /\ \E sight \in Sights : Applying(o, sight)
<1> DEFINE r == obs[o].release
           D == [phase : Phases, previous : ReleaseOrNone]
           PhaseOf(p) == [deployment[r] EXCEPT !.phase = p]
<1> USE DEF IInv
<1>1. /\ r \in Release /\ deployment[r] \in D /\ deployment[r].phase # "NONE"
      /\ deployment \in [Release -> D]
  BY DEF ApplyMissing, ApplyRolling, ApplyDegraded, ApplyOther, Applying,
     TypeOK, ReleaseOrNone, OnlyDeployments
<1>2. \A p \in Phases : PhaseOf(p) \in D /\ PhaseOf(p).phase = p
  BY <1>1
<1>3. release[r].state # "COMMITTED_TO_GITOPS" =>
        [release EXCEPT ![r].state = Deploying(@)] = release
  <2>1. release[r] = [release[r] EXCEPT !.state = release[r].state]
    BY <1>1 DEF TypeOK
  <2>2. release = [release EXCEPT ![r] = release[r]]
    BY <1>1 DEF TypeOK
  <2> QED
    BY <2>1, <2>2 DEF Deploying
<1>4. release[r].state = "COMMITTED_TO_GITOPS" <=>
        deployment[r].phase \in {"GIT_COMMITTED", "ARGO_SYNCING"}
  BY <1>1 DEF SagaAgreement, Agrees, Phases
<1>9. ASSUME NEW p \in Phases, deployment' = [deployment EXCEPT ![r] = PhaseOf(p)]
      PROVE  /\ deployment' \in [Release -> D]
             /\ deployment'[r].phase = p
             /\ \A x \in Release \ {r} : deployment'[x] = deployment[x]
  BY <1>1, <1>2, <1>9
<1>10. ASSUME release' = [release EXCEPT ![r].state = Deploying(@)],
              deployment' \in [Release -> D],
              \A x \in Release \ {r} : deployment'[x] = deployment[x],
              \/ /\ deployment[r].phase \in {"GIT_COMMITTED", "ARGO_SYNCING",
                                            "ROLLING_OUT", "DEGRADED"}
                 /\ deployment'[r].phase \in {"ROLLING_OUT", "DEGRADED"}
              \/ /\ deployment[r].phase \in {"PENDING", "ROLLING_OUT", "READY"}
                 /\ deployment'[r].phase = deployment[r].phase,
              UNCHANGED active
       PROVE  RollsOn(r)
  <2>1. release' # release =>
          deployment[r].phase \in {"GIT_COMMITTED", "ARGO_SYNCING"}
    BY <1>3, <1>4, <1>10
  <2>2. release' = release => release[r].state # "COMMITTED_TO_GITOPS"
    <3>1. release'[r].state = Deploying(release[r].state)
      BY <1>1, <1>10 DEF TypeOK
    <3> QED
      BY <3>1 DEF Deploying
  <2> QED
    BY <1>1, <1>4, <1>10, <2>1, <2>2 DEF RollsOn
<1>5. CASE ApplyMissing(o)
  <2>1. \/ deployment' = deployment
        \/ /\ deployment[r].phase = "GIT_COMMITTED"
           /\ deployment' = [deployment EXCEPT ![r] = PhaseOf("ARGO_SYNCING")]
    BY <1>5 DEF ApplyMissing
  <2>2. RollsOn(r)
    BY <1>1, <1>2, <1>5, <2>1 DEF ApplyMissing, RollsOn, Phases
  <2> QED
    BY <1>1, <1>5, <2>2 DEF ApplyMissing, Sights
<1>6. CASE ApplyRolling(o)
  <2>1. IF deployment[r].phase \in {"GIT_COMMITTED", "ARGO_SYNCING", "DEGRADED"}
        THEN deployment' = [deployment EXCEPT ![r] = PhaseOf("ROLLING_OUT")]
        ELSE deployment' = deployment
    BY <1>6 DEF ApplyRolling
  <2>2. RollsOn(r)
    <3>1. CASE deployment[r].phase \in {"GIT_COMMITTED", "ARGO_SYNCING", "DEGRADED"}
      BY <1>6, <1>9, <1>10, <2>1, <3>1 DEF ApplyRolling, Phases
    <3>2. CASE deployment[r].phase \in {"PENDING", "ROLLING_OUT", "READY"}
      BY <1>1, <1>6, <1>10, <2>1, <3>2 DEF ApplyRolling
    <3> QED
      BY <1>1, <3>1, <3>2 DEF Phases
  <2> QED
    BY <1>1, <1>6, <2>2 DEF ApplyRolling, Sights
<1>7. CASE ApplyDegraded(o)
  <2>1. /\ deployment[r].phase \in {"GIT_COMMITTED", "ARGO_SYNCING",
                                   "ROLLING_OUT", "DEGRADED"}
        /\ deployment' = [deployment EXCEPT ![r] = PhaseOf("DEGRADED")]
    BY <1>7 DEF ApplyDegraded, RollingOut, Degradable
  <2>2. RollsOn(r)
    BY <1>7, <1>9, <1>10, <2>1 DEF ApplyDegraded, Phases
  <2> QED
    BY <1>1, <1>7, <2>2 DEF ApplyDegraded, Sights
<1>8. CASE ApplyOther(o)
  <2>1. IF deployment[r].phase \in {"GIT_COMMITTED", "ARGO_SYNCING", "DEGRADED"}
        THEN deployment' = [deployment EXCEPT ![r] = PhaseOf("ROLLING_OUT")]
        ELSE deployment' = [deployment EXCEPT ![r] =
                             PhaseOf(deployment[r].phase)]
    BY <1>8 DEF ApplyOther, RollingOut
  <2>2. RollsOn(r)
    <3>1. CASE deployment[r].phase \in {"GIT_COMMITTED", "ARGO_SYNCING", "DEGRADED"}
      BY <1>8, <1>9, <1>10, <2>1, <3>1 DEF ApplyOther, Phases
    <3>2. CASE deployment[r].phase \in {"PENDING", "ROLLING_OUT", "READY"}
      BY <1>8, <1>9, <1>10, <2>1, <3>2 DEF ApplyOther, Phases
    <3> QED
      BY <1>1, <3>1, <3>2 DEF Phases
  <2> QED
    BY <1>1, <1>8, <2>2 DEF ApplyOther, Sights
<1> QED
  BY <1>5, <1>6, <1>7, <1>8

(* They preserve the inductive invariant.                                   *)
LEMMA ApplyOthersIInv ==
  ASSUME IInv, NEW o \in Observer,
         ApplyMissing(o) \/ ApplyRolling(o) \/ ApplyDegraded(o) \/ ApplyOther(o)
  PROVE  IInv'
BY ApplyOthersRollOn, RollsOnIInv

(* A Ready object: the release goes live and replaces the others.           *)
LEMMA ApplyReadyIInv ==
  ASSUME IInv, NEW o \in Observer, ApplyReady(o)
  PROVE  IInv'
<1> DEFINE r == obs[o].release
           e == release[r].env
           Row == [state : ReleaseStates, env : Env \cup {None},
                   content : Content \cup {None}, rollbackOf : ReleaseOrNone]
<1> USE DEF IInv
<1>1. /\ UNCHANGED <<placement, allocated, idem, recorded, index, head,
                     paasapp, call>>
      /\ obs' = [obs EXCEPT ![o] = NoSight]
      /\ r \in Release
      /\ deployment[r].phase \in {"GIT_COMMITTED", "ARGO_SYNCING",
                                 "ROLLING_OUT", "DEGRADED", "READY"}
  BY DEF ApplyReady, Applying, RollingOut, repo, TypeOK, ReleaseOrNone
<1>2. release[r].state \in {"COMMITTED_TO_GITOPS", "DEPLOYING", "ACTIVE",
                            "SUPERSEDED"}
      /\ e \in Env
  BY <1>1 DEF SagaAgreement, Agrees, RowsAreFilled
<1>3. /\ release' \in [Release -> Row]
      /\ \A x \in Release : /\ release'[x].env = release[x].env
                            /\ release'[x].content = release[x].content
      /\ release'[r].state = IF release[r].state \in {"COMMITTED_TO_GITOPS",
                                                      "DEPLOYING"}
                             THEN "ACTIVE" ELSE release[r].state
      /\ \A x \in Release \ {r} :
           release'[x].state = IF release[x].env = e /\ release[x].state = "ACTIVE"
                               THEN "SUPERSEDED" ELSE release[x].state
  <2> DEFINE G(x) == IF x = r
                     THEN [release[x] EXCEPT !.state =
                            IF Deploying(release[x].state) = "DEPLOYING"
                            THEN "ACTIVE" ELSE release[x].state]
                     ELSE IF release[x].env = e /\ release[x].state = "ACTIVE"
                          THEN [release[x] EXCEPT !.state = "SUPERSEDED"]
                          ELSE release[x]
  <2>1. release' = [x \in Release |-> G(x)]
    BY DEF ApplyReady, Activated, Replaces
  <2>2. ASSUME NEW x \in Release
        PROVE  /\ G(x) \in Row
               /\ G(x).env = release[x].env /\ G(x).content = release[x].content
               /\ G(x).state =
                    IF x = r
                    THEN IF Deploying(release[x].state) = "DEPLOYING"
                         THEN "ACTIVE" ELSE release[x].state
                    ELSE IF release[x].env = e /\ release[x].state = "ACTIVE"
                         THEN "SUPERSEDED" ELSE release[x].state
    <3>1. release[x] \in Row
      BY DEF TypeOK
    <3> QED
      BY <3>1 DEF ReleaseStates
  <2> HIDE DEF G
  <2>3. /\ release' \in [Release -> Row]
        /\ \A x \in Release : release'[x] = G(x)
    BY <2>1, <2>2
  <2> QED
    BY <1>1, <2>2, <2>3 DEF Deploying
<1>4. /\ deployment' \in [Release -> [phase : Phases, previous : ReleaseOrNone]]
      /\ deployment'[r].phase = "READY"
      /\ \A x \in Release \ {r} : deployment'[x] = deployment[x]
  <2> DEFINE d == [deployment[r] EXCEPT !.phase = "READY"]
  <2>1. d \in [phase : Phases, previous : ReleaseOrNone] /\ d.phase = "READY"
    <3>1. deployment[r] \in [phase : Phases, previous : ReleaseOrNone]
      BY <1>1 DEF TypeOK
    <3> QED
      BY <3>1 DEF Phases
  <2>2. deployment' = [deployment EXCEPT ![r] = d]
    BY DEF ApplyReady
  <2> QED
    BY <1>1, <2>1, <2>2 DEF TypeOK
<1>5. active' = [active EXCEPT ![e] = r]
  BY DEF ApplyReady
<1>6. TypeOK'
  BY <1>1, <1>2, <1>3, <1>4, <1>5
     DEF TypeOK, NoSight, Sights, ReleaseOrNone
<1>7. \A x \in Release :
        /\ release'[x].state = "NONE" <=> release[x].state = "NONE"
        /\ deployment'[x].phase = "NONE" <=> deployment[x].phase = "NONE"
        /\ deployment'[x].phase = "NONE" => deployment'[x] = deployment[x]
  BY <1>1, <1>2, <1>3, <1>4
<1>8. RowsAreFilled' /\ KeysNameReleases'
  BY <1>1, <1>3, <1>7 DEF RowsAreFilled, KeysNameReleases, TypeOK, ReleaseOrNone
<1>9. CallsKnow'
  BY <1>1, <1>7, KnowledgeStays DEF CallsKnow, OnlyAdded
<1>10. OnlyDeployments'
  BY <1>1, <1>3, <1>7 DEF OnlyDeployments, TypeOK, ReleaseOrNone, NoSight
<1>11. SagaAgreement'
  <2>1. ASSUME NEW x \in Release \ {r}
        PROVE  Agrees(x)'
    <3>1. /\ deployment'[x] = deployment[x] /\ recorded'[x] = recorded[x]
          /\ index'[x] = index[x] /\ Agrees(x)
          /\ \/ release'[x].state = release[x].state
             \/ /\ release[x].state = "ACTIVE"
                /\ release'[x].state = "SUPERSEDED"
      BY <1>1, <1>3, <1>4 DEF SagaAgreement, Agrees
    <3>2. deployment[x].phase \in Phases
      BY DEF TypeOK
    <3> QED
      BY <3>1, <3>2 DEF Phases, Agrees
  <2>2. ASSUME NEW x \in Release, x = r
        PROVE  Agrees(x)'
    <3>1. Agrees(x) /\ recorded'[x] = recorded[x] /\ index'[x] = index[x]
      BY <1>1 DEF SagaAgreement
    <3>2. release'[x].state \in {"ACTIVE", "SUPERSEDED"}
      BY <1>2, <1>3, <2>2
    <3> QED
      BY <1>1, <1>4, <2>2, <3>1, <3>2 DEF Agrees
  <2> QED
    BY <2>1, <2>2 DEF SagaAgreement
<1>12. OnlyOneActiveRelease'
  BY <1>3 DEF OnlyOneActiveRelease
<1>13. ActiveReleaseWasReady'
  <2>1. ASSUME NEW f \in Env, active'[f] # None
        PROVE  release'[active'[f]].env = f /\ deployment'[active'[f]].phase = "READY"
    <3>1. CASE f = e
      BY <1>1, <1>2, <1>3, <1>4, <1>5, <3>1 DEF TypeOK
    <3>2. CASE f # e
      <4>1. active'[f] = active[f] /\ active[f] \in Release
        BY <1>5, <2>1, <3>2 DEF TypeOK, ReleaseOrNone
      <4> QED
        BY <1>3, <1>4, <2>1, <4>1 DEF ActiveReleaseWasReady
    <3> QED
      BY <3>1, <3>2
  <2> QED
    BY <2>1 DEF ActiveReleaseWasReady
<1> QED
  BY <1>6, <1>8, <1>9, <1>10, <1>11, <1>12, <1>13

(* Every step of the control plane preserves the inductive invariant.       *)
LEMMA StepIInv == IInv /\ [Next]_vars => IInv'
<1> SUFFICES ASSUME IInv, [Next]_vars
             PROVE  IInv'
  OBVIOUS
<1>1. CASE \E w \in Worker : CallStep(w)
  BY <1>1, BeginIInv, AbortIInv, CreateReplayedIInv, CreateDeduplicatedIInv,
     CreateReleaseIInv, CreateRollbackIInv, EnsureDeploymentIInv,
     CommitGitOpsIInv, RecordCommitIInv DEF CallStep
<1>2. CASE \E r \in Release : ReconcileGitOps(r)
  BY <1>2, ReconcileGitOpsIInv
<1>3. CASE ClusterStep
  BY <1>3, ClusterIInv
<1>4. CASE \E o \in Observer : StatusStep(o)
  BY <1>4, ObserveIInv, DropObservationIInv, ApplyOthersIInv, ApplyReadyIInv
     DEF StatusStep
<1>5. CASE UNCHANGED vars
  BY <1>5 DEF vars, IInv, TypeOK, RowsAreFilled, KeysNameReleases, CallsKnow,
     CallKnows, OnlyDeployments, SagaAgreement, Agrees,
     OnlyOneActiveRelease, ActiveReleaseWasReady
<1> QED
  BY <1>1, <1>2, <1>3, <1>4, <1>5 DEF Next

(* The inductive invariant holds in every reachable state.                  *)
THEOREM Invariance == Spec => []IInv
  BY InitIInv, StepIInv, PTL DEF Spec

(* Every variable keeps its type: calls, observations and rows always name  *)
(* known releases, and no cell's AllocatedUnits falls below zero.           *)
THEOREM TypeCorrect == Spec => []TypeOK
<1>1. IInv => TypeOK
  BY DEF IInv
<1> QED
  BY <1>1, Invariance, PTL

(* At most one release of an environment is ACTIVE, however observations    *)
(* are delayed: applyObservedStatus supersedes the others in the same       *)
(* transaction.                                                             *)
THEOREM OneActiveRelease == Spec => []OnlyOneActiveRelease
<1>1. IInv => OnlyOneActiveRelease
  BY DEF IInv
<1> QED
  BY <1>1, Invariance, PTL

(* A release, its deployment, its recorded commit and the repository agree  *)
(* after every transaction of Deploy, Rollback and the reconcilers.         *)
THEOREM SagaAgrees == Spec => []SagaAgreement
<1>1. IInv => SagaAgreement
  BY DEF IInv
<1> QED
  BY <1>1, Invariance, PTL

(* An environment's ActiveReleaseID names one of its releases whose         *)
(* deployment was seen Ready.                                               *)
THEOREM ActiveWasReady == Spec => []ActiveReleaseWasReady
<1>1. IInv => ActiveReleaseWasReady
  BY DEF IInv
<1> QED
  BY <1>1, Invariance, PTL

-----------------------------------------------------------------------------
(* Refinement                                                               *)

(* The control plane starts with an empty ledger.                           *)
LEMMA LedgerInit == Init => Ledger!Init
  BY DEF Init, Ledger!Init, NoReleaseRow, Stage

(* A step that changes neither keys, environments nor stages stutters.      *)
LEMMA LedgerStutters ==
  ASSUME idem' = idem,
         \A r \in Release : release'[r].env = release[r].env /\ Stage(r)' = Stage(r)
  PROVE  UNCHANGED Ledger!vars
BY DEF Ledger!vars

(* A new release row is an acceptance of its key.                           *)
LEMMA LedgerAccepts ==
  ASSUME TypeOK, NEW w \in Worker, NEW r \in Release, NEW e \in Env,
         NEW s \in Content, NEW t \in ReleaseOrNone,
         call[w].key \in Key, idem[call[w].key] = None,
         InsertRelease(w, r, e, s, t)
  PROVE  Ledger!Next
<1> DEFINE k == call[w].key
           row == [state |-> "VALIDATED", env |-> e, content |-> s,
                   rollbackOf |-> t]
<1>1. release' = [release EXCEPT ![r] = row] /\ release[r].state = "NONE"
  BY DEF InsertRelease
<1>2. \A x \in Release : release'[x] = IF x = r THEN row ELSE release[x]
  BY <1>1 DEF TypeOK
<1>3. \A x \in Release : Stage(x)' = IF x = r THEN "candidate" ELSE Stage(x)
  BY <1>2 DEF Stage
<1>4. Stage(r) = "absent"
  BY <1>1 DEF Stage
<1>5. idem' = [idem EXCEPT ![k] = r]
  BY DEF InsertRelease
<1>6. Ledger!Accept(k, e, r)
  <2>1. [x \in Release |-> release[x].env]' =
          [[x \in Release |-> release[x].env] EXCEPT ![r] = e]
    <3>1. \A x \in Release : release'[x].env = IF x = r THEN e ELSE release[x].env
      BY <1>2
    <3> QED
      BY <3>1
  <2>2. [x \in Release |-> Stage(x)]' =
          [[x \in Release |-> Stage(x)] EXCEPT ![r] = "candidate"]
    BY <1>3
  <2> QED
    BY <1>4, <1>5, <2>1, <2>2 DEF Ledger!Accept
<1> QED
  BY <1>6 DEF Ledger!Next

(* A Ready observation is a release going live, or the live release of its  *)
(* environment retiring when the observed one is already replaced.          *)
LEMMA LedgerGoesLive ==
  ASSUME IInv, NEW o \in Observer, ApplyReady(o)
  PROVE  [Ledger!Next]_(Ledger!vars)
<1>1. PICK r \in Release : r = obs[o].release
  BY DEF ApplyReady, Applying, IInv, TypeOK, ReleaseOrNone
<1> DEFINE e == release[r].env
           live == {x \in Release : Stage(x) = "live" /\ release[x].env = e}
<1>2. deployment[r].phase \in {"GIT_COMMITTED", "ARGO_SYNCING",
                              "ROLLING_OUT", "DEGRADED", "READY"}
  BY <1>1 DEF ApplyReady, RollingOut
<1>3. /\ release[r].state \in {"COMMITTED_TO_GITOPS", "DEPLOYING", "ACTIVE",
                               "SUPERSEDED"}
      /\ e \in Env
  BY <1>2 DEF IInv, SagaAgreement, Agrees, RowsAreFilled
<1>4. idem' = idem
  BY DEF ApplyReady, Applying
<1>5. \A x \in Release : release'[x].env = release[x].env
  BY <1>1 DEF ApplyReady, IInv, TypeOK
<1>6. ASSUME NEW x \in Release
      PROVE  release'[x].state =
               IF x = r
               THEN IF release[r].state \in {"COMMITTED_TO_GITOPS", "DEPLOYING"}
                    THEN "ACTIVE" ELSE release[r].state
               ELSE IF release[x].env = e /\ release[x].state = "ACTIVE"
                    THEN "SUPERSEDED" ELSE release[x].state
  <2>1. release[x] \in [state : ReleaseStates, env : Env \cup {None},
                        content : Content \cup {None},
                        rollbackOf : ReleaseOrNone]
    BY DEF IInv, TypeOK
  <2> QED
    BY <1>1, <2>1 DEF ApplyReady, Deploying, Activated, Replaces
<1>7. CASE release[r].state \in {"COMMITTED_TO_GITOPS", "DEPLOYING"}
  <2>1. Stage(r) = "candidate"
    BY <1>7 DEF Stage
  <2>2. \A x \in Release : Stage(x)' = IF x = r THEN "live"
                                      ELSE IF x \in live THEN "retired"
                                      ELSE Stage(x)
    BY <1>6, <1>7 DEF Stage
  <2>3. Ledger!LiveIn(e) = live
    BY DEF Ledger!LiveIn
  <2> HIDE DEF live
  <2>4. Ledger!GoLive(r)
    BY <1>4, <1>5, <2>1, <2>2, <2>3 DEF Ledger!GoLive
  <2> QED
    BY <2>4 DEF Ledger!Next
<1>8. CASE release[r].state = "ACTIVE"
  <2>1. \A x \in Release : release'[x].state = release[x].state
    BY <1>6, <1>8 DEF IInv, OnlyOneActiveRelease
  <2>2. UNCHANGED Ledger!vars
    BY <1>4, <1>5, <2>1, LedgerStutters DEF Stage
  <2> QED
    BY <2>2
<1>9. CASE release[r].state = "SUPERSEDED"
  <2>1. \A x \in Release : Stage(x)' = IF x \in live THEN "retired" ELSE Stage(x)
    BY <1>6, <1>9 DEF Stage
  <2>2. Ledger!LiveIn(e) = live
    BY DEF Ledger!LiveIn
  <2> HIDE DEF live
  <2>3. Ledger!Retire(e)
    BY <1>4, <1>5, <2>1, <2>2 DEF Ledger!Retire
  <2> QED
    BY <1>3, <2>3 DEF Ledger!Next
<1> QED
  BY <1>3, <1>7, <1>8, <1>9

(* Every step of the control plane is a step of the ledger or a stutter.    *)
LEMMA LedgerStep == IInv /\ [Next]_vars => [Ledger!Next]_(Ledger!vars)
<1> SUFFICES ASSUME IInv, [Next]_vars
             PROVE  [Ledger!Next]_(Ledger!vars)
  OBVIOUS
<1>1. ASSUME UNCHANGED <<release, idem>>
      PROVE  UNCHANGED Ledger!vars
  BY <1>1, LedgerStutters DEF Stage
<1>2. ASSUME NEW r \in Release, RecordGitCommit(r), idem' = idem
      PROVE  UNCHANGED Ledger!vars
  <2>1. \/ release' = release
        \/ /\ release[r].state = "VALIDATED"
           /\ release' = [release EXCEPT ![r].state = "COMMITTED_TO_GITOPS"]
    BY <1>2 DEF RecordGitCommit
  <2>2. \A x \in Release : /\ release'[x].env = release[x].env
                          /\ \/ release'[x].state = release[x].state
                             \/ /\ release[x].state = "VALIDATED"
                                /\ release'[x].state = "COMMITTED_TO_GITOPS"
    BY <2>1 DEF IInv, TypeOK
  <2> QED
    BY <1>2, <2>2, LedgerStutters DEF Stage
<1>3. ASSUME NEW w \in Worker, CallStep(w)
      PROVE  [Ledger!Next]_(Ledger!vars)
  <2>1. CASE \/ \E k \in Key : Begin(w, k)
             \/ Abort(w) \/ CreateReplayed(w) \/ EnsureDeployment(w)
             \/ CommitGitOps(w)
    BY <1>1, <2>1 DEF Begin, Abort, CreateReplayed, EnsureDeployment,
       CommitGitOps, store
  <2>2. CASE CreateDeduplicated(w)
    <3> DEFINE k == call[w].key
    <3>1. k \in Key
      BY <2>2 DEF CreateDeduplicated, IInv, CallsKnow, CallKnows
    <3>2. PICK r \in Release : release[r].state # "NONE"
                             /\ idem' = [idem EXCEPT ![k] = r]
      BY <2>2 DEF CreateDeduplicated, SameIdentity
    <3>3. Stage(r) # "absent" /\ release' = release /\ idem[k] = None
      BY <2>2, <3>2 DEF CreateDeduplicated, Stage
    <3>4. Ledger!Join(k, r)
      BY <3>2, <3>3 DEF Ledger!Join, Stage
    <3> QED
      BY <3>1, <3>4 DEF Ledger!Next
  <2>3. CASE CreateRelease(w)
    <3> DEFINE k == call[w].key
    <3>1. /\ k \in Key /\ idem[k] = None
          /\ Command[k].env \in Env /\ Command[k].content \in Content
      BY <2>3, CommandAssumption DEF CreateRelease, IInv, CallsKnow, CallKnows,
         Deploys, Rollbacks
    <3> QED
      BY <2>3, <3>1, LedgerAccepts DEF CreateRelease, IInv, ReleaseOrNone
  <2>4. CASE CreateRollback(w)
    <3> DEFINE k == call[w].key
               target == idem[Command[k].target]
    <3>1. /\ k \in Key /\ idem[k] = None
          /\ Command[k].env \in Env /\ Command[k].target \in Key
          /\ target # None
      BY <2>4, CommandAssumption DEF CreateRollback, IInv, CallsKnow, CallKnows,
         Deploys, Rollbacks
    <3>2. target \in Release
      BY <3>1 DEF IInv, TypeOK, ReleaseOrNone
    <3>3. release[target].content \in Content
      BY <3>1, <3>2 DEF IInv, KeysNameReleases, RowsAreFilled
    <3> QED
      BY <2>4, <3>1, <3>2, <3>3, LedgerAccepts
         DEF CreateRollback, IInv, ReleaseOrNone
  <2>5. CASE RecordCommit(w)
    BY <1>2, <2>5 DEF RecordCommit, IInv, CallsKnow, CallKnows
  <2> QED
    BY <1>3, <2>1, <2>2, <2>3, <2>4, <2>5 DEF CallStep
<1>4. ASSUME NEW r \in Release, ReconcileGitOps(r)
      PROVE  UNCHANGED Ledger!vars
  BY <1>2, <1>4 DEF ReconcileGitOps
<1>5. CASE ClusterStep
  BY <1>1, <1>5 DEF ClusterStep, ArgoSync, OperatorReport, store
<1>6. ASSUME NEW o \in Observer, StatusStep(o)
      PROVE  [Ledger!Next]_(Ledger!vars)
  <2>1. CASE (\E r \in Release : Observe(o, r)) \/ DropObservation(o)
    BY <1>1, <2>1 DEF Observe, DropObservation, store
  <2>2. CASE \/ ApplyMissing(o) \/ ApplyRolling(o)
             \/ ApplyDegraded(o) \/ ApplyOther(o)
    <3>1. PICK r \in Release : RollsOn(r)
      BY <2>2, ApplyOthersRollOn
    <3>2. idem' = idem
      BY <2>2 DEF ApplyMissing, ApplyRolling, ApplyDegraded, ApplyOther, Applying
    <3>3. \A x \in Release : /\ release'[x].env = release[x].env
                            /\ \/ release'[x].state = release[x].state
                               \/ /\ release[x].state = "COMMITTED_TO_GITOPS"
                                  /\ release'[x].state = "DEPLOYING"
      BY <3>1, RollsOnRelease DEF IInv
    <3> QED
      BY <3>2, <3>3, LedgerStutters DEF Stage
  <2>3. CASE ApplyReady(o)
    BY <2>3, LedgerGoesLive
  <2> QED
    BY <1>6, <2>1, <2>2, <2>3 DEF StatusStep
<1>7. CASE UNCHANGED vars
  BY <1>1, <1>7 DEF vars
<1> QED
  BY <1>3, <1>4, <1>5, <1>6, <1>7 DEF Next

(* The control plane implements the release ledger: for every set of calls, *)
(* retries, reconcilers and observations, one command has one release, and  *)
(* releases go live once and replace each other one at a time.              *)
THEOREM Refinement == Spec => ImplementsLedger
<1>1. Init => Ledger!Init
  BY LedgerInit
<1>2. IInv /\ [Next]_vars => [Ledger!Next]_(Ledger!vars)
  BY LedgerStep
<1> QED
  BY <1>1, <1>2, Invariance, PTL DEF Spec, Ledger!Spec, ImplementsLedger

-----------------------------------------------------------------------------
(* What is final stays                                                      *)

KeysKept == \A k \in Key : idem[k] # None => idem'[k] = idem[k]

CellsKept ==
  \A e \in Env : placement[e] # NoPlacement =>
    /\ placement'[e].cell = placement[e].cell
    /\ placement'[e].class = placement[e].class

ReleaseRows == [state : ReleaseStates, env : Env \cup {None},
                content : Content \cup {None}, rollbackOf : ReleaseOrNone]
Deployments == [phase : Phases, previous : ReleaseOrNone]

(* The order of the states of a release.                                    *)
LEMMA Ranks ==
  /\ \A s \in ReleaseStates : StateRank[s] \in 0..5
  /\ StateRank["NONE"] = 0
  /\ StateRank["VALIDATED"] = 1 /\ StateRank["COMMITTED_TO_GITOPS"] = 2
  /\ StateRank["DEPLOYING"] = 3 /\ StateRank["ACTIVE"] = 4
  /\ StateRank["SUPERSEDED"] = 5
BY DEF StateRank, ReleaseStates

(* A row is the row with its own state.                                     *)
LEMMA SameRow ==
  ASSUME TypeOK, NEW r \in Release
  PROVE  /\ release[r] = [release[r] EXCEPT !.state = release[r].state]
         /\ StateRank[release[r].state] <= StateRank[release[r].state]
<1>1. release[r] \in ReleaseRows /\ release[r].state \in ReleaseStates
  BY DEF TypeOK, ReleaseRows
<1>2. release[r] = [release[r] EXCEPT !.state = release[r].state]
  BY <1>1 DEF ReleaseRows
<1>3. StateRank[release[r].state] <= StateRank[release[r].state]
  BY <1>1, Ranks
<1> QED BY <1>2, <1>3

(* A step that leaves the rows of a release alone keeps it.                 *)
LEMMA SameReleaseKept ==
  ASSUME TypeOK, NEW r \in Release, release'[r] = release[r],
         deployment'[r] = deployment[r], recorded'[r] = recorded[r],
         index'[r] = index[r]
  PROVE  ReleaseKept(r)
BY SameRow DEF ReleaseKept

(* A new row replaces none.                                                 *)
LEMMA InsertKept ==
  ASSUME IInv, NEW w \in Worker, NEW r \in Release, NEW e \in Env, NEW s \in Content,
         NEW t \in ReleaseOrNone, call[w].key \in Key, idem[call[w].key] = None,
         InsertRelease(w, r, e, s, t),
         UNCHANGED <<active, deployment, recorded, repo, paasapp, obs>>
  PROVE  KeysKept /\ \A x \in Release : ReleaseKept(x)
<1> USE DEF IInv
<1>1. KeysKept BY DEF KeysKept, InsertRelease, TypeOK
<1>2. \A x \in Release \ {r} : ReleaseKept(x)
  BY SameReleaseKept DEF InsertRelease, TypeOK, repo
<1>3. /\ release[r].state = "NONE" /\ release'[r].state = "VALIDATED"
      /\ UNCHANGED <<deployment, recorded, index>>
  BY DEF InsertRelease, TypeOK, repo
<1>4. ReleaseKept(r) BY <1>3, Ranks DEF ReleaseKept
<1> QED BY <1>1, <1>2, <1>4

(* Recording a commit moves a PENDING deployment and its release on.        *)
LEMMA RecordKept ==
  ASSUME IInv, NEW r \in Release, RecordGitCommit(r), index' = index
  PROVE  \A x \in Release : ReleaseKept(x)
<1> USE DEF IInv
<1>1. CASE UNCHANGED <<release, deployment, recorded>>
  BY <1>1, SameReleaseKept
<1>2. CASE ~UNCHANGED <<release, deployment, recorded>>
  <2>1. /\ deployment[r].phase = "PENDING" /\ release[r].state = "VALIDATED"
        /\ recorded[r] = NotCommitted
        /\ deployment' = [deployment EXCEPT ![r].phase = "GIT_COMMITTED"]
        /\ release' = [release EXCEPT ![r].state = "COMMITTED_TO_GITOPS"]
        /\ recorded' = [recorded EXCEPT ![r] = index[r]]
    BY <1>2 DEF RecordGitCommit
  <2>2. release[r] \in ReleaseRows /\ deployment[r] \in Deployments
    BY DEF TypeOK, ReleaseRows, Deployments
  <2>3. \A x \in Release \ {r} : ReleaseKept(x)
    BY <2>1, SameReleaseKept DEF TypeOK
  <2>4. /\ release'[r] = [release[r] EXCEPT !.state = "COMMITTED_TO_GITOPS"]
        /\ release'[r].state = "COMMITTED_TO_GITOPS"
        /\ deployment'[r].previous = deployment[r].previous
    BY <2>1, <2>2 DEF TypeOK, ReleaseRows, Deployments
  <2>5. ReleaseKept(r) BY <2>1, <2>4, Ranks DEF ReleaseKept
  <2> QED BY <2>3, <2>5
<1> QED BY <1>1, <1>2

(* So does an observation that is applied, but for Ready ones.              *)
LEMMA RollsOnKept ==
  ASSUME IInv, NEW r \in Release, RollsOn(r), deployment[r].phase # "NONE",
         deployment'[r].previous = deployment[r].previous,
         UNCHANGED <<recorded, index>>
  PROVE  \A x \in Release : ReleaseKept(x)
<1> USE DEF IInv
<1>1. \A x \in Release \ {r} : ReleaseKept(x)
  BY SameReleaseKept, RollsOnRelease DEF RollsOn
<1>2. /\ release[r] \in ReleaseRows /\ deployment[r] \in Deployments
      /\ deployment'[r] \in Deployments
  BY DEF TypeOK, RollsOn, ReleaseRows, Deployments
<1>3. deployment[r].phase = "READY" => deployment'[r] = deployment[r]
  BY <1>2 DEF RollsOn, Deployments
<1>4. /\ StateRank[release[r].state] <= StateRank[release'[r].state]
      /\ release'[r] = [release[r] EXCEPT !.state = release'[r].state]
  <2>1. CASE release' = release
    BY <1>2, <2>1, Ranks DEF ReleaseRows
  <2>2. CASE release' # release
    <3>1. /\ release[r].state = "COMMITTED_TO_GITOPS"
          /\ release'[r].state = "DEPLOYING"
      BY <2>2, RollsOnRelease
    <3>2. release'[r] = [release[r] EXCEPT !.state = "DEPLOYING"]
      BY <2>2, <3>1 DEF RollsOn, Deploying, TypeOK
    <3> QED BY <3>1, <3>2, Ranks
  <2> QED BY <2>1, <2>2
<1>5. ReleaseKept(r) BY <1>3, <1>4 DEF ReleaseKept
<1> QED BY <1>1, <1>5

(* A deployment keeps the release it started from.                          *)
LEMMA OthersKeepPrevious ==
  ASSUME IInv, NEW o \in Observer, NEW r \in Release, r = obs[o].release,
         ApplyMissing(o) \/ ApplyRolling(o) \/ ApplyDegraded(o) \/ ApplyOther(o)
  PROVE  deployment'[r].previous = deployment[r].previous
<1>1. deployment[r] \in Deployments
  BY DEF IInv, TypeOK, Deployments
<1>2. deployment' = deployment \/ \E p : deployment' = [deployment EXCEPT ![r].phase = p]
  <2>1. CASE ApplyMissing(o) BY <2>1 DEF ApplyMissing
  <2>2. CASE ApplyRolling(o) BY <2>2 DEF ApplyRolling
  <2>3. CASE ApplyDegraded(o) BY <2>3 DEF ApplyDegraded
  <2>4. CASE ApplyOther(o) BY <2>4 DEF ApplyOther
  <2> QED BY <2>1, <2>2, <2>3, <2>4
<1> QED BY <1>1, <1>2 DEF IInv, TypeOK, Deployments

(* A Ready observation moves its release and those it replaces forward.     *)
LEMMA ReadyKept ==
  ASSUME IInv, NEW o \in Observer, ApplyReady(o)
  PROVE  \A x \in Release : ReleaseKept(x)
<1> DEFINE r == obs[o].release
           e == release[r].env
<1> USE DEF IInv
<1>1. /\ r \in Release /\ UNCHANGED <<recorded, index>>
      /\ deployment' = [deployment EXCEPT ![r].phase = "READY"]
      /\ RollingOut(deployment[r].phase) \in {"ROLLING_OUT", "DEGRADED", "READY"}
  BY DEF ApplyReady, Applying, repo, TypeOK, ReleaseOrNone
<1>2. ASSUME NEW x \in Release
      PROVE  /\ StateRank[release[x].state] <= StateRank[release'[x].state]
             /\ release'[x] = [release[x] EXCEPT !.state = release'[x].state]
  <2>1. release[x] \in ReleaseRows
    BY DEF TypeOK, ReleaseRows
  <2>2. release'[x] = IF x = r THEN [release[x] EXCEPT !.state = Activated(release[x].state)]
                      ELSE IF Replaces(e, r, x)
                           THEN [release[x] EXCEPT !.state = "SUPERSEDED"]
                           ELSE release[x]
    BY DEF ApplyReady
  <2>3. CASE x = r
    <3>1. /\ release'[x] = [release[x] EXCEPT !.state = Activated(release[x].state)]
          /\ release'[x].state = Activated(release[x].state)
      BY <2>1, <2>2, <2>3 DEF ReleaseRows
    <3>2. StateRank[release[x].state] <= StateRank[Activated(release[x].state)]
      BY <2>1, Ranks DEF ReleaseRows, Activated, Deploying
    <3> QED BY <3>1, <3>2
  <2>4. CASE x # r /\ Replaces(e, r, x)
    <3>1. /\ release'[x] = [release[x] EXCEPT !.state = "SUPERSEDED"]
          /\ release'[x].state = "SUPERSEDED" /\ release[x].state = "ACTIVE"
      BY <2>1, <2>2, <2>4 DEF ReleaseRows, Replaces
    <3> QED BY <3>1, Ranks
  <2>5. CASE x # r /\ ~Replaces(e, r, x)
    BY <2>1, <2>2, <2>5, Ranks DEF ReleaseRows
  <2> QED BY <2>3, <2>4, <2>5
<1>3. ASSUME NEW x \in Release
      PROVE  /\ deployment[x].phase = "READY" => deployment'[x] = deployment[x]
             /\ deployment'[x].previous = deployment[x].previous
  BY <1>1 DEF TypeOK
<1> QED BY <1>1, <1>2, <1>3 DEF ReleaseKept

(* A deployment is found or made, never replaced.                           *)
LEMMA EnsureKept ==
  ASSUME IInv, NEW w \in Worker, EnsureDeployment(w)
  PROVE  KeysKept /\ \A x \in Release : ReleaseKept(x)
<1> DEFINE r == call[w].release
<1> USE DEF IInv
<1>1. /\ r \in Release /\ UNCHANGED <<release, recorded, index, idem>>
      /\ deployment' = [deployment EXCEPT ![r] = FoundOrNewDeployment(r)]
  BY DEF EnsureDeployment, CallsKnow, CallKnows, repo
<1>2. \A x \in Release \ {r} : ReleaseKept(x)
  BY <1>1, SameReleaseKept DEF TypeOK
<1>3. CASE deployment[r] # NoDeployment
  BY <1>1, <1>2, <1>3, SameReleaseKept DEF TypeOK, FoundOrNewDeployment, KeysKept
<1>4. CASE deployment[r] = NoDeployment
  <2>1. deployment[r].phase # "READY" BY <1>4 DEF NoDeployment
  <2>2. /\ release[r] = [release[r] EXCEPT !.state = release[r].state]
        /\ StateRank[release[r].state] <= StateRank[release[r].state]
    BY <1>1, SameRow
  <2> QED BY <1>1, <1>2, <1>4, <2>1, <2>2 DEF ReleaseKept, KeysKept
<1> QED BY <1>3, <1>4

(* A committed manifest is never written over.                              *)
LEMMA CommitKept ==
  ASSUME IInv, NEW w \in Worker, CommitGitOps(w)
  PROVE  KeysKept /\ \A x \in Release : ReleaseKept(x)
<1> DEFINE r == call[w].release
<1> USE DEF IInv
<1>1. /\ r \in Release /\ UNCHANGED <<release, recorded, deployment, idem>>
      /\ \/ index' = index
         \/ index[r] = NotCommitted /\ index' = [index EXCEPT ![r] = call[w].previous]
  BY DEF CommitGitOps, CallsKnow, CallKnows, repo, store, IndexWritten
<1>2. ASSUME NEW x \in Release
      PROVE  ReleaseKept(x)
  <2>1. /\ release[x] = [release[x] EXCEPT !.state = release[x].state]
        /\ StateRank[release[x].state] <= StateRank[release[x].state]
    BY SameRow
  <2> QED BY <1>1, <2>1 DEF ReleaseKept, TypeOK
<1> QED BY <1>1, <1>2 DEF KeysKept

(* Placing an environment, or resizing what it has, keeps cells and classes.*)
LEMMA PlacementKept ==
  ASSUME TypeOK, NEW e \in Env, NEW s \in Content,
         \/ \E units \in Nat : ResizePlacement(e, units)
         \/ placement[e] = NoPlacement /\ PlaceEnvironment(e, s)
  PROVE  CellsKept
<1>1. CASE \E units \in Nat : ResizePlacement(e, units)
  <2>1. PICK units \in Nat : placement' = [placement EXCEPT
                               ![e] = [placement[e] EXCEPT !.units = units]]
    BY <1>1 DEF ResizePlacement
  <2>2. ASSUME NEW p \in Placements
        PROVE  /\ [p EXCEPT !.units = units].cell = p.cell
               /\ [p EXCEPT !.units = units].class = p.class
    BY DEF Placements
  <2> QED BY <2>1, <2>2 DEF CellsKept, TypeOK
<1>2. CASE placement[e] = NoPlacement /\ PlaceEnvironment(e, s)
  BY <1>2 DEF PlaceEnvironment, CellsKept, TypeOK
<1> QED BY <1>1, <1>2

Kept == KeysKept /\ CellsKept /\ \A r \in Release : ReleaseKept(r)

(* No step of a call takes anything back.                                   *)
LEMMA CallKept ==
  ASSUME IInv, NEW w \in Worker, CallStep(w)
  PROVE  Kept
<1> USE DEF IInv
<1>1. CASE (\E k \in Key : Begin(w, k)) \/ Abort(w) \/ CreateReplayed(w)
  BY <1>1, SameReleaseKept
     DEF Begin, Abort, CreateReplayed, store, repo, Kept, KeysKept, CellsKept
<1>2. CASE CreateDeduplicated(w)
  <2>1. /\ call[w].key \in Key /\ idem[call[w].key] = None
        /\ \E r : idem' = [idem EXCEPT ![call[w].key] = r]
        /\ UNCHANGED <<placement, release, deployment, recorded, index>>
    BY <1>2 DEF CreateDeduplicated, CallsKnow, CallKnows, repo
  <2> QED BY <2>1, SameReleaseKept DEF Kept, KeysKept, CellsKept, TypeOK
<1>3. CASE CreateRelease(w)
  <2> DEFINE k == call[w].key
  <2>1. /\ k \in Key /\ idem[k] = None
        /\ Command[k].env \in Env /\ Command[k].content \in Content
    BY <1>3, CommandAssumption DEF CreateRelease, CallsKnow, CallKnows, Deploys, Rollbacks
  <2>2. Units[Command[k].content] \in Nat BY <2>1, UnitsAssumption
  <2>3. CellsKept BY <1>3, <2>1, <2>2, PlacementKept DEF CreateRelease
  <2>4. PICK r \in Release :
          InsertRelease(w, r, Command[k].env, Command[k].content, None)
    BY <1>3 DEF CreateRelease
  <2>5. UNCHANGED <<active, deployment, recorded, repo, paasapp, obs>>
    BY <1>3 DEF CreateRelease
  <2> QED BY <2>1, <2>3, <2>4, <2>5, InsertKept DEF Kept, ReleaseOrNone
<1>4. CASE CreateRollback(w)
  <2> DEFINE k == call[w].key
             target == idem[Command[k].target]
  <2>1. /\ k \in Key /\ idem[k] = None
        /\ Command[k].env \in Env /\ Command[k].target \in Key
        /\ target # None
    BY <1>4, CommandAssumption DEF CreateRollback, CallsKnow, CallKnows, Deploys, Rollbacks
  <2>2. target \in Release BY <2>1 DEF TypeOK, ReleaseOrNone
  <2>3. release[target].content \in Content
    BY <2>1, <2>2 DEF KeysNameReleases, RowsAreFilled
  <2>4. CellsKept
    BY <1>4, <2>1, <2>3, UnitsAssumption, PlacementKept DEF CreateRollback
  <2>5. PICK r \in Release :
          InsertRelease(w, r, Command[k].env, release[target].content, target)
    BY <1>4 DEF CreateRollback
  <2>6. UNCHANGED <<active, deployment, recorded, repo, paasapp, obs>>
    BY <1>4 DEF CreateRollback
  <2> QED BY <2>1, <2>2, <2>3, <2>4, <2>5, <2>6, InsertKept DEF Kept, ReleaseOrNone
<1>5. CASE EnsureDeployment(w) \/ CommitGitOps(w)
  <2>1. UNCHANGED placement
    BY <1>5 DEF EnsureDeployment, CommitGitOps, store
  <2> QED BY <1>5, <2>1, EnsureKept, CommitKept DEF Kept, CellsKept
<1>6. CASE RecordCommit(w)
  BY <1>6, RecordKept
     DEF RecordCommit, CallsKnow, CallKnows, repo, Kept, KeysKept, CellsKept
<1> QED
  BY <1>1, <1>2, <1>3, <1>4, <1>5, <1>6 DEF CallStep

(* No step does.                                                            *)
LEMMA StepKept == IInv /\ Next => Kept
<1> SUFFICES ASSUME IInv, Next PROVE Kept OBVIOUS
<1> USE DEF IInv
<1>1. ASSUME NEW w \in Worker, CallStep(w)
      PROVE  Kept
  BY <1>1, CallKept
<1>2. ASSUME NEW r \in Release, ReconcileGitOps(r)
      PROVE  Kept
  BY <1>2, RecordKept DEF ReconcileGitOps, repo, Kept, KeysKept, CellsKept
<1>3. ASSUME UNCHANGED <<store, repo>>
      PROVE  Kept
  BY <1>3, SameReleaseKept DEF store, repo, Kept, KeysKept, CellsKept
<1>4. CASE ClusterStep
  BY <1>3, <1>4 DEF ClusterStep, ArgoSync, OperatorReport
<1>5. ASSUME NEW o \in Observer, StatusStep(o)
      PROVE  Kept
  <2>1. CASE (\E r \in Release : Observe(o, r)) \/ DropObservation(o)
    BY <1>3, <2>1 DEF Observe, DropObservation
  <2>2. CASE \/ ApplyMissing(o) \/ ApplyRolling(o)
             \/ ApplyDegraded(o) \/ ApplyOther(o)
    <3> DEFINE r == obs[o].release
    <3>1. /\ r \in Release /\ RollsOn(r)
          /\ \E sight \in Sights : Applying(o, sight)
      BY <2>2, ApplyOthersRollOn
    <3>2. /\ UNCHANGED <<placement, idem, recorded, index>>
          /\ deployment[r].phase # "NONE"
      BY <3>1, NoneAssumption DEF Applying, repo, OnlyDeployments
    <3>3. deployment'[r].previous = deployment[r].previous
      BY <2>2, <3>1, OthersKeepPrevious
    <3> QED BY <3>1, <3>2, <3>3, RollsOnKept DEF Kept, KeysKept, CellsKept
  <2>3. CASE ApplyReady(o)
    <3>1. UNCHANGED <<placement, idem>>
      BY <2>3 DEF ApplyReady, Applying
    <3> QED BY <2>3, <3>1, ReadyKept DEF Kept, KeysKept, CellsKept
  <2> QED BY <1>5, <2>1, <2>2, <2>3 DEF StatusStep
<1> QED BY <1>1, <1>2, <1>4, <1>5 DEF Next

(* No transaction, push or observation takes back what is final, in any     *)
(* order and after any interruption.                                        *)
THEOREM NothingTakenBack == Spec => NothingIsTakenBack
<1>1. IInv /\ [Next]_vars =>
        [/\ \A r \in Release : ReleaseKept(r)
         /\ \A k \in Key : idem[k] # None => idem'[k] = idem[k]
         /\ \A e \in Env : placement[e] # NoPlacement =>
              /\ placement'[e].cell = placement[e].cell
              /\ placement'[e].class = placement[e].class]_vars
  BY StepKept DEF Kept, KeysKept, CellsKept
<1> QED BY <1>1, Invariance, PTL DEF Spec, NothingIsTakenBack

-----------------------------------------------------------------------------
(* Ownership, identity and capacity                                         *)

(* Only the write transactions of Deploy and Rollback make rows and change  *)
(* the books of the cells.                                                  *)
Quiet ==
  /\ UNCHANGED <<placement, allocated>>
  /\ \A r \in Release : release[r].state = "NONE" => release'[r].state = "NONE"

Creates == \E w \in Worker : CreateRelease(w) \/ CreateRollback(w)

(* Every other step is quiet.                                               *)
LEMMA QuietUnlessCreating ==
  ASSUME IInv, Next
  PROVE  Quiet \/ Creates
<1> USE DEF IInv
<1>1. ASSUME UNCHANGED <<placement, allocated, release>>
      PROVE  Quiet
  BY <1>1 DEF Quiet
<1>2. ASSUME NEW r \in Release, RecordGitCommit(r), UNCHANGED <<placement, allocated>>
      PROVE  Quiet
  BY <1>2 DEF Quiet, RecordGitCommit, TypeOK
<1>3. ASSUME NEW w \in Worker, CallStep(w)
      PROVE  Quiet \/ Creates
  <2>1. CASE RecordCommit(w)
    BY <1>2, <2>1 DEF RecordCommit, CallsKnow, CallKnows
  <2> QED
    BY <1>1, <1>3, <2>1
    DEF CallStep, Begin, Abort, CreateReplayed, CreateDeduplicated, EnsureDeployment,
        CommitGitOps, store, Creates
<1>4. ASSUME NEW r \in Release, ReconcileGitOps(r)
      PROVE  Quiet
  BY <1>2, <1>4 DEF ReconcileGitOps
<1>5. CASE ClusterStep
  BY <1>1, <1>5 DEF ClusterStep, ArgoSync, OperatorReport, store
<1>6. ASSUME NEW o \in Observer, StatusStep(o)
      PROVE  Quiet
  <2>1. CASE (\E r \in Release : Observe(o, r)) \/ DropObservation(o)
    BY <1>1, <2>1 DEF Observe, DropObservation, store
  <2>2. CASE \/ ApplyMissing(o) \/ ApplyRolling(o)
             \/ ApplyDegraded(o) \/ ApplyOther(o)
    <3>1. PICK r \in Release : RollsOn(r)
      BY <2>2, ApplyOthersRollOn
    <3>2. UNCHANGED <<placement, allocated>>
      BY <2>2 DEF ApplyMissing, ApplyRolling, ApplyDegraded, ApplyOther, Applying
    <3> QED BY <3>1, <3>2, RollsOnRelease DEF Quiet
  <2>3. CASE ApplyReady(o)
    <3>1. UNCHANGED <<placement, allocated>>
      BY <2>3 DEF ApplyReady, Applying
    <3>2. ASSUME NEW x \in Release, release[x].state = "NONE"
          PROVE  release'[x].state = "NONE"
      <4>1. release[x] \in ReleaseRows BY DEF TypeOK, ReleaseRows
      <4>2. \/ release'[x] = release[x]
            \/ release'[x] = [release[x] EXCEPT !.state = "NONE"]
        BY <2>3, <3>2 DEF ApplyReady, Replaces, Activated, Deploying
      <4> QED BY <3>2, <4>1, <4>2 DEF ReleaseRows
    <3> QED BY <3>1, <3>2 DEF Quiet
  <2> QED BY <1>6, <2>1, <2>2, <2>3 DEF StatusStep
<1> QED BY <1>3, <1>4, <1>5, <1>6 DEF Next

(* What the two write transactions share: a new row for a key that had      *)
(* none, of an environment that is resized, or placed for the first time.   *)
LEMMA CreatesInserts ==
  ASSUME IInv, NEW w \in Worker, CreateRelease(w) \/ CreateRollback(w)
  PROVE  \E r \in Release, e \in Env, s \in Content, t \in ReleaseOrNone :
           LET k == call[w].key IN
           /\ k \in Key /\ idem[k] = None /\ call[w].pc = "create"
           /\ InsertRelease(w, r, e, s, t)
           /\ t = None => NewIdentity(e, s)
           /\ \/ /\ \/ placement[e] # NoPlacement /\ Compatible(e, s)
                    \/ Command[k].kind = "rollback"
                 /\ ResizePlacement(e, Units[s])
              \/ placement[e] = NoPlacement /\ PlaceEnvironment(e, s)
           /\ e = Command[k].env
           /\ Command[k].kind = "rollback" =>
                /\ Command[k].target \in Key
                /\ s = release[idem[Command[k].target]].content
<1> DEFINE k == call[w].key
<1> USE DEF IInv
<1>1. k \in Key /\ idem[k] = None /\ call[w].pc = "create"
  BY DEF CreateRelease, CreateRollback, CallsKnow, CallKnows
<1>2. CASE CreateRelease(w)
  <2>1. /\ Command[k].kind = "deploy"
        /\ Command[k].env \in Env /\ Command[k].content \in Content
    BY <1>1, <1>2, CommandAssumption DEF CreateRelease, Deploys, Rollbacks
  <2>2. PICK r \in Release :
          InsertRelease(w, r, Command[k].env, Command[k].content, None)
    BY <1>2 DEF CreateRelease
  <2>3. /\ NewIdentity(Command[k].env, Command[k].content)
        /\ \/ /\ placement[Command[k].env] # NoPlacement
              /\ Compatible(Command[k].env, Command[k].content)
              /\ ResizePlacement(Command[k].env, Units[Command[k].content])
           \/ /\ placement[Command[k].env] = NoPlacement
              /\ PlaceEnvironment(Command[k].env, Command[k].content)
    BY <1>2 DEF CreateRelease
  <2> QED BY <1>1, <2>1, <2>2, <2>3 DEF ReleaseOrNone
<1>3. CASE CreateRollback(w)
  <2> DEFINE target == idem[Command[k].target]
  <2>1. /\ Command[k].kind = "rollback"
        /\ Command[k].env \in Env /\ Command[k].target \in Key /\ target # None
    BY <1>1, <1>3, CommandAssumption
    DEF CreateRollback, CallsKnow, CallKnows, Deploys, Rollbacks
  <2>2. target \in Release BY <2>1 DEF TypeOK, ReleaseOrNone
  <2>3. release[target].content \in Content
    BY <2>1, <2>2 DEF KeysNameReleases, RowsAreFilled
  <2>4. PICK r \in Release :
          InsertRelease(w, r, Command[k].env, release[target].content, target)
    BY <1>3 DEF CreateRollback
  <2>5. ResizePlacement(Command[k].env, Units[release[target].content])
    BY <1>3 DEF CreateRollback
  <2> QED BY <1>1, <2>1, <2>2, <2>3, <2>4, <2>5 DEF ReleaseOrNone
<1> QED BY <1>2, <1>3

(* A stored row changes its state only, and stays.                          *)
LEMMA StoredStays ==
  ASSUME IInv, Next, NEW x \in Release, release[x].state # "NONE"
  PROVE  /\ release'[x].state # "NONE"
         /\ release'[x].env = release[x].env
         /\ release'[x].content = release[x].content
         /\ release'[x].rollbackOf = release[x].rollbackOf
<1>1. release[x] \in ReleaseRows BY DEF IInv, TypeOK, ReleaseRows
<1>2. /\ release'[x] = [release[x] EXCEPT !.state = release'[x].state]
      /\ StateRank[release[x].state] <= StateRank[release'[x].state]
  BY StepKept DEF Kept, ReleaseKept
<1>3. StateRank[release[x].state] \in 1..5
  BY <1>1, Ranks DEF ReleaseRows, ReleaseStates
<1>4. release'[x].state # "NONE"
  BY <1>2, <1>3, Ranks
<1> QED BY <1>1, <1>2, <1>4 DEF ReleaseRows

(* Every row keeps its owner and its identity.                              *)
LEMMA OwnedStep ==
  ASSUME IInv, ReleasesAreOwnedAndUnique, Next
  PROVE  ReleasesAreOwnedAndUnique'
<1> USE DEF IInv
<1>1. Kept BY StepKept
<1>2. \A x \in Release : release[x].state # "NONE" =>
        /\ release'[x].state # "NONE" /\ release'[x].env = release[x].env
        /\ release'[x].content = release[x].content
        /\ release'[x].rollbackOf = release[x].rollbackOf
  BY StoredStays
<1>3. CASE Quiet
  <2>1. \A x \in Release : release[x].state = "NONE" <=> release'[x].state = "NONE"
    BY <1>2, <1>3 DEF Quiet
  <2> QED
    BY <1>1, <1>2, <2>1, NoneAssumption DEF Kept, KeysKept, ReleasesAreOwnedAndUnique, SameIdentity
<1>4. CASE Creates
  <2>1. PICK w \in Worker : CreateRelease(w) \/ CreateRollback(w)
    BY <1>4 DEF Creates
  <2>2. PICK r \in Release, e \in Env, s \in Content, t \in ReleaseOrNone :
          /\ call[w].key \in Key /\ InsertRelease(w, r, e, s, t)
          /\ t = None => NewIdentity(e, s)
    BY <2>1, CreatesInserts
  <2>3. /\ \A x \in Release \ {r} : release'[x] = release[x]
        /\ release'[r] = [state |-> "VALIDATED", env |-> e, content |-> s, rollbackOf |-> t]
        /\ release[r].state = "NONE"
        /\ idem'[call[w].key] = r
    BY <2>2 DEF InsertRelease, TypeOK
  <2>4. \A x \in Release : release'[x].state # "NONE" => \E k \in Key : idem'[k] = x
    <3>1. SUFFICES ASSUME NEW x \in Release \ {r}, release'[x].state # "NONE"
                   PROVE  \E k \in Key : idem'[k] = x
      BY <2>2, <2>3
    <3>2. PICK k \in Key : idem[k] = x
      BY <2>3, <3>1 DEF ReleasesAreOwnedAndUnique
    <3> QED BY <1>1, <3>2, NoneAssumption DEF Kept, KeysKept
  <2>5. ASSUME NEW x \in Release, NEW y \in Release,
               release'[x].state # "NONE", release'[x].rollbackOf = None,
               release'[y].state # "NONE", release'[y].rollbackOf = None,
               release'[y].env = release'[x].env,
               release'[y].content = release'[x].content
        PROVE  x = y
    <3>1. CASE x # r /\ y # r
      BY <2>3, <2>5, <3>1 DEF ReleasesAreOwnedAndUnique, SameIdentity
    <3>2. CASE x = r /\ y # r
      BY <2>2, <2>3, <2>5, <3>2 DEF NewIdentity, SameIdentity
    <3>3. CASE x # r /\ y = r
      BY <2>2, <2>3, <2>5, <3>3 DEF NewIdentity, SameIdentity
    <3> QED BY <3>1, <3>2, <3>3
  <2> QED BY <2>4, <2>5 DEF ReleasesAreOwnedAndUnique, SameIdentity
<1> QED BY <1>3, <1>4, QuietUnlessCreating

(* Every release is owned by the key of the command that made it, and two   *)
(* plain releases never share environment and content, whoever races        *)
(* between the replay check and the insert.                                 *)
THEOREM ReleasesOwnedAndUnique == Spec => []ReleasesAreOwnedAndUnique
<1>1. Init => ReleasesAreOwnedAndUnique
  BY DEF Init, ReleasesAreOwnedAndUnique, NoReleaseRow, SameIdentity
<1>2. IInv /\ ReleasesAreOwnedAndUnique /\ [Next]_vars => ReleasesAreOwnedAndUnique'
  BY OwnedStep DEF vars, ReleasesAreOwnedAndUnique, SameIdentity
<1> QED BY <1>1, <1>2, Invariance, PTL DEF Spec

(* Between Begin and the write transaction, a rollback's target stays one   *)
(* of the environment it rolls back; rows belong to placed environments, of *)
(* the region and isolation that their content asks for.                    *)
RollbacksStayHome ==
  \A w \in Worker :
    call[w].pc = "create" /\ Command[call[w].key].kind = "rollback" =>
      release[idem[Command[call[w].key].target]].env = Command[call[w].key].env

RowsArePlaced ==
  \A r \in Release : release[r].state # "NONE" =>
    /\ placement[release[r].env].cell # None
    /\ placement[release[r].env].class = Class[release[r].content]

UnplacedHoldNothing ==
  \A e \in Env : placement[e].cell = None => placement[e] = NoPlacement

CapacityInv ==
  /\ CapacityAccounted
  /\ RollbacksStayHome
  /\ RowsArePlaced
  /\ UnplacedHoldNothing

(* What an environment holds, and the environments on a cell.               *)
Hold(e) == {e} \X (1..placement[e].units)
OnCell(c) == {f \in Env : placement[f].cell = c}

(* What a placement holds has its size.                                     *)
LEMMA HoldSize ==
  ASSUME NEW e, NEW n \in Nat
  PROVE  IsFiniteSet({e} \X (1..n)) /\ Cardinality({e} \X (1..n)) = n
<1>1. IsFiniteSet({e}) /\ Cardinality({e}) = 1 BY FS_Singleton
<1>2. IsFiniteSet(1..n) /\ Cardinality(1..n) = n BY FS_Interval
<1>3. /\ IsFiniteSet({e} \X (1..n))
      /\ Cardinality({e} \X (1..n)) = Cardinality({e}) * Cardinality(1..n)
  BY <1>1, <1>2, FS_Product, Zenon
<1> QED BY <1>1, <1>2, <1>3

(* So several placements hold finitely many units.                          *)
LEMMA UnitsFinite ==
  ASSUME TypeOK, NEW E \in SUBSET Env
  PROVE  /\ IsFiniteSet(UNION {Hold(e) : e \in E})
         /\ Cardinality(UNION {Hold(e) : e \in E}) \in Nat
<1> DEFINE S == {Hold(e) : e \in E}
           f == [e \in E |-> Hold(e)]
<1>1. IsFiniteSet(E) BY EnvAssumption, FS_Subset
<1>2. f \in Surjection(E, S) BY DEF Surjection
<1>3. IsFiniteSet(S) BY <1>1, <1>2, FS_Surjection
<1>4. ASSUME NEW T \in S PROVE IsFiniteSet(T)
  <2>1. PICK e \in E : T = Hold(e) OBVIOUS
  <2>2. placement[e].units \in Nat BY DEF TypeOK, Placements
  <2> QED BY <2>1, <2>2, HoldSize DEF Hold
<1>5. IsFiniteSet(UNION S) BY <1>3, <1>4, FS_UNION
<1> QED BY <1>5, FS_CardinalityType

(* What a placement that changes on its cell, or gets one, does to the      *)
(* units of the cells.                                                      *)
LEMMA UnitsChange ==
  ASSUME TypeOK, UnplacedHoldNothing, NEW e \in Env, NEW c \in Cell, NEW u \in Nat,
         placement[e].cell \in {c, None},
         NEW p, p.cell = c, p.units = u, placement' = [placement EXCEPT ![e] = p]
  PROVE  /\ Cardinality(UnitsOn(c)') = Cardinality(UnitsOn(c)) - placement[e].units + u
         /\ \A d \in Cell \ {c} : UnitsOn(d)' = UnitsOn(d)
<1> DEFINE old == placement[e].units
           E == OnCell(c) \ {e}
           Rest == UNION {Hold(f) : f \in E}
<1>1. old \in Nat /\ None \notin Cell
  BY NoneAssumption DEF TypeOK, Placements
<1>2. /\ placement'[e].cell = c /\ placement'[e].units = u
      /\ \A f \in Env \ {e} : placement'[f] = placement[f]
  BY DEF TypeOK
<1>3. IsFiniteSet(Rest) /\ Cardinality(Rest) \in Nat
  BY UnitsFinite DEF OnCell
<1>4. UnitsOn(c) = Rest \cup ({e} \X (1..old))
  <2>1. CASE placement[e].cell = c
    BY <2>1 DEF UnitsOn, Hold, OnCell
  <2>2. CASE placement[e].cell = None
    <3>1. old = 0 BY <2>2 DEF UnplacedHoldNothing, NoPlacement
    <3>2. {e} \X (1..old) = {} BY <3>1
    <3>3. OnCell(c) = E BY <1>1, <2>2 DEF OnCell
    <3> QED BY <3>2, <3>3 DEF UnitsOn, Hold, OnCell
  <2> QED BY <2>1, <2>2
<1>5. UnitsOn(c)' = Rest \cup ({e} \X (1..u))
  BY <1>2 DEF UnitsOn, Hold, OnCell
<1>6. ASSUME NEW n \in Nat
      PROVE  Cardinality(Rest \cup ({e} \X (1..n))) = Cardinality(Rest) + n
  <2>1. /\ IsFiniteSet({e} \X (1..n)) /\ Cardinality({e} \X (1..n)) = n
    BY HoldSize
  <2>2. Rest \cap ({e} \X (1..n)) = {} BY DEF Hold
  <2>3. Cardinality(Rest \cup ({e} \X (1..n)))
          = Cardinality(Rest) + n - Cardinality(Rest \cap ({e} \X (1..n)))
    BY <1>3, <2>1, FS_Union
  <2>4. Cardinality(Rest \cap ({e} \X (1..n))) = 0 BY <2>2, FS_EmptySet
  <2> HIDE DEF Rest
  <2> QED BY <1>3, <2>3, <2>4
<1>7. Cardinality(UnitsOn(c)') = Cardinality(UnitsOn(c)) - old + u
  <2>1. /\ Cardinality(UnitsOn(c)) = Cardinality(Rest) + old
        /\ Cardinality(UnitsOn(c)') = Cardinality(Rest) + u
    BY <1>1, <1>4, <1>5, <1>6
  <2> HIDE DEF Rest
  <2> QED BY <1>1, <1>3, <2>1
<1>8. ASSUME NEW d \in Cell \ {c}
      PROVE  UnitsOn(d)' = UnitsOn(d)
  <2>1. /\ placement[e].cell # d /\ placement'[e].cell # d
    BY <1>1, <1>2
  <2>2. \A f \in Env : placement'[f].cell = d <=> placement[f].cell = d
    BY <1>2, <2>1
  <2>3. \A f \in Env : placement[f].cell = d => placement'[f].units = placement[f].units
    BY <1>2, <2>1
  <2> QED BY <2>2, <2>3 DEF UnitsOn
<1> QED BY <1>7, <1>8

(* Growing and shrinking keep the account of the cell.                      *)
LEMMA ResizeAccounted ==
  ASSUME TypeOK, CapacityAccounted, UnplacedHoldNothing, NEW e \in Env, NEW u \in Nat,
         placement[e].cell # None, ResizePlacement(e, u)
  PROVE  CapacityAccounted' /\ UnplacedHoldNothing' /\ placement'[e].cell # None
<1> DEFINE old == placement[e].units
<1>0. PICK c \in Cell : c = placement[e].cell
  BY DEF TypeOK, Placements
<1>1. /\ old \in Nat /\ None \notin Cell
      /\ placement[e] \in Placements
  BY NoneAssumption DEF TypeOK, Placements
<1>2. /\ placement' = [placement EXCEPT ![e] = [placement[e] EXCEPT !.units = u]]
      /\ allocated' = [allocated EXCEPT ![c] = allocated[c] + u - old]
      /\ u > old => allocated[c] + (u - old) <= Capacity[c]
  BY <1>0 DEF ResizePlacement, Reallocated
<1>3. PICK p : /\ p = [placement[e] EXCEPT !.units = u]
               /\ p.cell = c /\ p.units = u
  <2>1. PICK q \in Placements : q = placement[e]
    BY <1>1
  <2>2. [q EXCEPT !.units = u].cell = q.cell /\ [q EXCEPT !.units = u].units = u
    BY DEF Placements
  <2> QED
    BY <1>0, <2>1, <2>2
<1>4. /\ Cardinality(UnitsOn(c)') = Cardinality(UnitsOn(c)) - old + u
      /\ \A d \in Cell \ {c} : UnitsOn(d)' = UnitsOn(d)
  BY <1>0, <1>1, <1>2, <1>3, UnitsChange
<1>5. /\ allocated[c] = Cardinality(UnitsOn(c)) /\ allocated[c] <= Capacity[c]
      /\ allocated[c] \in Nat /\ Capacity[c] \in Nat
      /\ allocated'[c] = allocated[c] + u - old
      /\ \A d \in Cell \ {c} : allocated'[d] = allocated[d]
  BY <1>1, <1>2, CellAssumption DEF CapacityAccounted, TypeOK
<1>6. allocated'[c] = Cardinality(UnitsOn(c)') /\ allocated'[c] <= Capacity[c]
  BY <1>1, <1>2, <1>4, <1>5
<1>7. CapacityAccounted'
  BY <1>4, <1>5, <1>6 DEF CapacityAccounted
<1> QED BY <1>1, <1>2, <1>3, <1>7 DEF UnplacedHoldNothing, TypeOK

(* So does placing an environment.                                          *)
LEMMA PlaceAccounted ==
  ASSUME TypeOK, CapacityAccounted, UnplacedHoldNothing, NEW e \in Env, NEW s \in Content,
         placement[e] = NoPlacement, PlaceEnvironment(e, s)
  PROVE  CapacityAccounted' /\ UnplacedHoldNothing' /\ placement'[e].cell # None
<1>1. PICK c \in Cell :
        /\ allocated[c] + Units[s] <= Capacity[c]
        /\ allocated' = [allocated EXCEPT ![c] = @ + Units[s]]
        /\ placement' = [placement EXCEPT
             ![e] = [cell |-> c, units |-> Units[s], class |-> Class[s]]]
  BY DEF PlaceEnvironment, Selected, CanPlace
<1>2. /\ Units[s] \in Nat /\ None \notin Cell
      /\ placement[e].cell = None /\ placement[e].units = 0
  BY UnitsAssumption, NoneAssumption DEF NoPlacement
<1>3. /\ Cardinality(UnitsOn(c)') = Cardinality(UnitsOn(c)) - placement[e].units + Units[s]
      /\ \A d \in Cell \ {c} : UnitsOn(d)' = UnitsOn(d)
  BY <1>1, <1>2, UnitsChange
<1>4. /\ allocated[c] = Cardinality(UnitsOn(c)) /\ allocated[c] \in Nat
      /\ allocated'[c] = allocated[c] + Units[s]
      /\ \A d \in Cell \ {c} : allocated'[d] = allocated[d]
  BY <1>1 DEF CapacityAccounted, TypeOK
<1>5. allocated'[c] = Cardinality(UnitsOn(c)')
  BY <1>2, <1>3, <1>4
<1>6. CapacityAccounted'
  BY <1>1, <1>3, <1>4, <1>5 DEF CapacityAccounted
<1> QED BY <1>1, <1>2, <1>6 DEF UnplacedHoldNothing, TypeOK

(* A call that is about to write was there before, or has just begun and    *)
(* found its target in the environment it rolls back.                       *)
LEMMA CreateCalls ==
  ASSUME IInv, Next, NEW v \in Worker, call'[v].pc = "create"
  PROVE  \/ call'[v] = call[v]
         \/ \E k \in Key :
              /\ call'[v].key = k
              /\ Command[k].kind = "rollback" =>
                   /\ Command[k].target \in Key
                   /\ idem[Command[k].target] # None
                   /\ release[idem[Command[k].target]].env = Command[k].env
<1> USE DEF IInv
<1>0. call \in [Worker -> CallType] BY DEF TypeOK, CallType
<1>1. ASSUME UNCHANGED call
      PROVE  call'[v] = call[v]
  BY <1>1
<1>2. ASSUME NEW w \in Worker, CallStep(w)
      PROVE  \/ call'[v] = call[v]
             \/ \E k \in Key : Begin(v, k)
  <2>1. ASSUME Return(w)
        PROVE  call'[v] = call[v]
    <3>1. /\ call'[w].pc = "idle"
          /\ \A x \in Worker \ {w} : call'[x] = call[x]
      BY <1>0, <2>1, ReturnCall
    <3> QED BY <3>1
  <2>2. ASSUME NEW r \in Release, Continue(w, "deploy", r)
        PROVE  call'[v] = call[v]
    <3>1. /\ call'[w].pc = "deploy"
          /\ \A x \in Worker \ {w} : call'[x] = call[x]
      BY <1>0, <2>2, ContinueCall
    <3> QED BY <3>1
  <2>3. CASE \E k \in Key : Begin(w, k)
    BY <2>3, <1>0 DEF Begin
  <2>4. CASE Abort(w)
    BY <2>1, <2>4 DEF Abort
  <2>5. CASE CreateReplayed(w)
    <3>1. idem[call[w].key] \in Release
      BY <2>5 DEF CreateReplayed, CallsKnow, CallKnows, TypeOK, ReleaseOrNone
    <3> QED BY <2>2, <2>5, <3>1 DEF CreateReplayed
  <2>6. CASE CreateDeduplicated(w)
    BY <2>2, <2>6 DEF CreateDeduplicated
  <2>7. CASE CreateRelease(w) \/ CreateRollback(w)
    BY <2>2, <2>7 DEF CreateRelease, CreateRollback, InsertRelease
  <2>8. CASE EnsureDeployment(w)
    <3>1. CASE Return(w) BY <2>1, <3>1
    <3>2. CASE ~Return(w)
      <4>1. /\ \A x \in Worker \ {w} : call'[x] = call[x]
            /\ call'[w] = [call[w] EXCEPT !.pc = "commit",
                                          !.previous = active[release[call[w].release].env]]
        BY <2>8, <3>2, <1>0 DEF EnsureDeployment, CallType
      <4>2. call'[w].pc = "commit" BY <1>0, <4>1 DEF CallType
      <4> QED BY <4>1, <4>2
    <3> QED BY <3>1, <3>2
  <2>9. CASE CommitGitOps(w)
    BY <2>9, <1>0 DEF CommitGitOps, CallType
  <2>10. CASE RecordCommit(w)
    BY <2>1, <2>10 DEF RecordCommit
  <2> QED
    BY <1>2, <2>3, <2>4, <2>5, <2>6, <2>7, <2>8, <2>9, <2>10 DEF CallStep
<1>3. ASSUME NEW k \in Key, Begin(v, k)
      PROVE  /\ call'[v].key = k
             /\ Command[k].kind = "rollback" =>
                  /\ Command[k].target \in Key
                  /\ idem[Command[k].target] # None
                  /\ release[idem[Command[k].target]].env = Command[k].env
  <2>1. /\ call'[v] = [pc |-> IF idem[k] = None THEN "create" ELSE "deploy", key |-> k,
                       release |-> idem[k], previous |-> None]
    BY <1>0, <1>3 DEF Begin
  <2>2. idem[k] = None BY <2>1
  <2>3. Command[k].kind = "rollback" => Command[k].target \in Key
    BY CommandAssumption DEF Deploys, Rollbacks
  <2> QED BY <1>3, <2>1, <2>2, <2>3 DEF Begin
<1>4. CASE \E w \in Worker : CallStep(w)
  BY <1>2, <1>3, <1>4
<1>5. CASE \E r \in Release : ReconcileGitOps(r)
  BY <1>1, <1>5 DEF ReconcileGitOps
<1>6. CASE ClusterStep
  BY <1>1, <1>6 DEF ClusterStep, ArgoSync, OperatorReport
<1>7. CASE \E o \in Observer : StatusStep(o)
  BY <1>1, <1>7
  DEF StatusStep, Observe, DropObservation, ApplyMissing, ApplyRolling, ApplyReady,
      ApplyDegraded, ApplyOther, Applying
<1> QED BY <1>4, <1>5, <1>6, <1>7 DEF Next

(* Every step keeps the accounts.                                           *)
LEMMA CapacityStep ==
  ASSUME IInv, CapacityInv, Next
  PROVE  CapacityInv'
<1> USE DEF IInv
<1>1. Kept BY StepKept
<1>2. RollbacksStayHome'
  <2>1. SUFFICES ASSUME NEW w \in Worker, call'[w].pc = "create",
                        Command[call'[w].key].kind = "rollback"
                 PROVE  release'[idem'[Command[call'[w].key].target]].env
                          = Command[call'[w].key].env
    BY DEF RollbacksStayHome
  <2> DEFINE k == call'[w].key
             t == idem[Command[k].target]
  <2>2. /\ Command[k].target \in Key /\ t # None
        /\ release[t].env = Command[k].env
    <3>1. CASE call'[w] = call[w]
      <4>1. call[w].key \in Key BY <2>1, <3>1 DEF CallsKnow, CallKnows
      <4>2. Command[k].target \in Key
        BY <2>1, <3>1, <4>1, CommandAssumption DEF Deploys, Rollbacks
      <4> QED BY <2>1, <3>1, <4>2 DEF CapacityInv, RollbacksStayHome, CallsKnow, CallKnows
    <3>2. CASE call'[w] # call[w]
      BY <2>1, <3>2, CreateCalls
    <3> QED BY <3>1, <3>2
  <2>3. /\ t \in Release /\ release[t].state # "NONE"
        /\ idem'[Command[k].target] = t
    BY <1>1, <2>2 DEF TypeOK, ReleaseOrNone, KeysNameReleases, Kept, KeysKept
  <2> QED BY <2>2, <2>3, StoredStays
<1>3. CASE Quiet
  <2>1. CapacityAccounted' /\ UnplacedHoldNothing'
    BY <1>3 DEF Quiet, CapacityInv, CapacityAccounted, UnitsOn, UnplacedHoldNothing
  <2>2. RowsArePlaced'
    BY <1>3, StoredStays DEF Quiet, CapacityInv, RowsArePlaced
  <2> QED BY <1>2, <2>1, <2>2 DEF CapacityInv
<1>4. CASE Creates
  <2>1. PICK w \in Worker : CreateRelease(w) \/ CreateRollback(w)
    BY <1>4 DEF Creates
  <2> DEFINE k == call[w].key
  <2>2. PICK r \in Release, e \in Env, s \in Content, t \in ReleaseOrNone :
          /\ k \in Key /\ call[w].pc = "create"
          /\ InsertRelease(w, r, e, s, t)
          /\ \/ /\ \/ placement[e] # NoPlacement /\ Compatible(e, s)
                   \/ Command[k].kind = "rollback"
                /\ ResizePlacement(e, Units[s])
             \/ placement[e] = NoPlacement /\ PlaceEnvironment(e, s)
          /\ e = Command[k].env
          /\ Command[k].kind = "rollback" =>
               /\ Command[k].target \in Key
               /\ s = release[idem[Command[k].target]].content
    BY <2>1, CreatesInserts
  <2>3. ASSUME ResizePlacement(e, Units[s]), placement[e].cell # None
        PROVE  CapacityAccounted' /\ UnplacedHoldNothing' /\ placement'[e].cell # None
    BY <2>3, ResizeAccounted, UnitsAssumption DEF CapacityInv
  <2>4. ASSUME placement[e] = NoPlacement, PlaceEnvironment(e, s)
        PROVE  CapacityAccounted' /\ UnplacedHoldNothing' /\ placement'[e].cell # None
    BY <2>4, PlaceAccounted DEF CapacityInv
  <2>5. Command[k].kind = "rollback" =>
          placement[e].cell # None /\ placement[e].class = Class[s]
    <3>1. SUFFICES ASSUME Command[k].kind = "rollback"
                   PROVE  placement[e].cell # None /\ placement[e].class = Class[s]
      OBVIOUS
    <3>2. /\ idem[Command[k].target] \in Release
          /\ release[idem[Command[k].target]].state # "NONE"
      BY <2>2, <3>1 DEF CallsKnow, CallKnows, TypeOK, ReleaseOrNone, KeysNameReleases
    <3>3. release[idem[Command[k].target]].env = e
      BY <2>2, <3>1 DEF CapacityInv, RollbacksStayHome
    <3> QED BY <2>2, <3>1, <3>2, <3>3 DEF CapacityInv, RowsArePlaced
  <2>6. placement[e] # NoPlacement => placement[e].cell # None
    BY DEF CapacityInv, UnplacedHoldNothing
  <2>7. CapacityAccounted' /\ UnplacedHoldNothing' /\ placement'[e].cell # None
    BY <2>2, <2>3, <2>4, <2>5, <2>6
  <2>8. placement'[e].class = Class[s]
    <3>1. CASE placement[e] # NoPlacement
      <4>1. Command[k].kind # "rollback" => Compatible(e, s) BY <2>2, <3>1
      <4>2. placement[e].class = Class[s] BY <2>5, <4>1 DEF Compatible
      <4> QED BY <1>1, <3>1, <4>2 DEF Kept, CellsKept
    <3>2. CASE placement[e] = NoPlacement
      <4>1. placement[e].cell = None BY <3>2 DEF NoPlacement
      <4>2. PlaceEnvironment(e, s) BY <2>2, <2>5, <3>2, <4>1
      <4> QED BY <4>2 DEF PlaceEnvironment, TypeOK
    <3> QED BY <3>1, <3>2
  <2>9. RowsArePlaced'
    <3>1. SUFFICES ASSUME NEW x \in Release, release'[x].state # "NONE"
                   PROVE  /\ placement'[release'[x].env].cell # None
                          /\ placement'[release'[x].env].class = Class[release'[x].content]
      BY DEF RowsArePlaced
    <3>2. CASE x = r
      <4>1. release'[r].env = e /\ release'[r].content = s
        BY <2>2 DEF InsertRelease, TypeOK
      <4> QED BY <2>7, <2>8, <3>2, <4>1
    <3>3. CASE x # r
      <4>1. release'[x] = release[x] BY <2>2, <3>3 DEF InsertRelease, TypeOK
      <4>2. /\ release[x].env \in Env
            /\ placement[release[x].env].cell # None
            /\ placement[release[x].env].class = Class[release[x].content]
        BY <3>1, <4>1 DEF RowsAreFilled, CapacityInv, RowsArePlaced
      <4>3. placement[release[x].env] # NoPlacement
        BY <4>2 DEF NoPlacement
      <4> QED BY <1>1, <4>1, <4>2, <4>3 DEF Kept, CellsKept
    <3> QED BY <3>2, <3>3
  <2> QED BY <1>2, <2>7, <2>9 DEF CapacityInv
<1> QED BY <1>3, <1>4, QuietUnlessCreating

(* The books of the cells, and where the releases are, stay in order.       *)
LEMMA CapacityInvariance == Spec => []CapacityInv
<1>1. Init => CapacityInv
  <2>1. SUFFICES ASSUME Init PROVE CapacityInv OBVIOUS
  <2>2. \A e \in Env : placement[e] = NoPlacement BY <2>1 DEF Init
  <2>3. ASSUME NEW c \in Cell
        PROVE  allocated[c] = Cardinality(UnitsOn(c)) /\ allocated[c] <= Capacity[c]
    <3>1. None \notin Cell /\ Capacity[c] \in Nat BY NoneAssumption, CellAssumption
    <3>2. UnitsOn(c) = {} BY <2>2, <3>1 DEF UnitsOn, NoPlacement
    <3> QED BY <2>1, <3>1, <3>2, FS_EmptySet DEF Init
  <2>4. RollbacksStayHome /\ RowsArePlaced
    BY <2>1 DEF Init, RollbacksStayHome, RowsArePlaced, IdleCall, NoReleaseRow
  <2> QED BY <2>2, <2>3, <2>4 DEF CapacityInv, CapacityAccounted, UnplacedHoldNothing
<1>2. IInv /\ CapacityInv /\ [Next]_vars => CapacityInv'
  <2>1. CapacityInv /\ UNCHANGED vars => CapacityInv'
    BY DEF vars, CapacityInv, CapacityAccounted, UnitsOn, RollbacksStayHome,
           RowsArePlaced, UnplacedHoldNothing
  <2> QED BY <2>1, CapacityStep
<1> QED BY <1>1, <1>2, Invariance, PTL DEF Spec

(* A cell's allocated units are, at every moment, those of the placements   *)
(* on it, and never more than its capacity, for any number of environments, *)
(* cells and calls.                                                         *)
THEOREM CapacityIsAccounted == Spec => []CapacityAccounted
<1>1. CapacityInv => CapacityAccounted BY DEF CapacityInv
<1> QED BY <1>1, CapacityInvariance, PTL

(* A release is of the region and isolation that its environment is placed  *)
(* for, which no deployment changes; a rollback does not check it, and need *)
(* not.                                                                     *)
THEOREM PlacedAsAsked == Spec => []RowsArePlaced
<1>1. CapacityInv => RowsArePlaced BY DEF CapacityInv
<1> QED BY <1>1, CapacityInvariance, PTL

-----------------------------------------------------------------------------
(* The GitOps repository below Commit and FindByRelease.  An index file is  *)
(* copied from the worktree to git's index and from there to the main       *)
(* branch, and nowhere changes once it is there.                            *)
Main == TreeAt(Len(log))

IndexesFlow ==
  \A r \in Releases :
    /\ worktree.indexes[r] # NoBundle => worktree.indexes[r].release = r
    /\ staged.indexes[r] # NoBundle => worktree.indexes[r] = staged.indexes[r]
    /\ Main.indexes[r] # NoBundle => staged.indexes[r] = Main.indexes[r]

Holds(tree, b) == /\ \A f \in ManifestFile : tree.files[b.path][f] = b
                  /\ tree.indexes[b.release] = b

WholeAt(tree, p) ==
  \E b \in Slot : /\ \A f \in ManifestFile : tree.files[p][f] = b
                  /\ b # NoBundle => b.path = p /\ tree.indexes[b.release] = b
Whole(tree) == \A p \in Paths : WholeAt(tree, p)

(* A release appears on the main branch with one of its commits.            *)
Introduced(r, b, i) ==
  /\ i \in DOMAIN log
  /\ b \in Bundle
  /\ log[i].tree.indexes[r] = b
  /\ TreeAt(i - 1).indexes[r] = NoBundle

(* What the running Commit has done so far.                                 *)
CommitKnows ==
  LET b == commit.bundle IN
  /\ commit.step = "write" =>
       /\ worktree.indexes[b.release] = NoBundle
       /\ \A f \in commit.written : worktree.files[b.path][f] = b
  /\ commit.step = "add" =>
       Holds(worktree, b) /\ staged.indexes[b.release] = NoBundle
  /\ commit.step = "commit" => Holds(staged, b) /\ Main.indexes[b.release] = NoBundle
  /\ commit.step = "answer" => Introduced(b.release, b, Len(log))

(* The commits of the main branch keep the indexes of those before.         *)
IndexesKept ==
  \A i, j \in 0..Len(log) : i <= j =>
    \A r \in Releases : TreeAt(i).indexes[r] # NoBundle =>
                          TreeAt(j).indexes[r] = TreeAt(i).indexes[r]

LogIsWhole ==
  \A i \in DOMAIN log : Whole(log[i].tree) /\ Holds(log[i].tree, log[i].for)

AnswersIntroduce == \A a \in answers : Introduced(a.release, a.bundle, a.commit)

GitInv ==
  /\ GitTypeOK /\ IndexesFlow /\ Whole(staged) /\ CommitKnows
  /\ IndexesKept /\ LogIsWhole /\ AnswersIntroduce

LEMMA BundleIsSome ==
  ASSUME NEW b \in Bundle
  PROVE  b # NoBundle /\ b.release \in Releases /\ b.path \in Paths /\ b \in Slot
BY BundleAssumption DEF Releases, Paths, Slot

LEMMA TreeParts ==
  ASSUME NEW tree \in Trees
  PROVE  /\ tree.files \in [Paths -> [ManifestFile -> Slot]]
         /\ tree.indexes \in [Releases -> Slot]
         /\ tree = [files |-> tree.files, indexes |-> tree.indexes]
         /\ \A p \in Paths, f \in ManifestFile : tree.files[p][f] \in Slot
         /\ \A r \in Releases : tree.indexes[r] \in Slot
BY DEF Trees

LEMMA NoTreeIsEmpty ==
  /\ NoTree \in Trees
  /\ \A p \in Paths, f \in ManifestFile : NoTree.files[p][f] = NoBundle
  /\ \A r \in Releases : NoTree.indexes[r] = NoBundle
BY DEF NoTree, Trees, Slot

LEMMA ElementTyped ==
  ASSUME NEW S, NEW q \in Seq(S), NEW i \in 1..Len(q)
  PROVE  q[i] \in S /\ DOMAIN q = 1..Len(q) /\ Len(q) \in Nat
OBVIOUS

LEMMA TreesTyped ==
  ASSUME log \in Seq([tree : Trees, for : Bundle]), NEW i \in 0..Len(log)
  PROVE  TreeAt(i) \in Trees
<1>1. CASE i = 0
  BY <1>1, NoTreeIsEmpty DEF TreeAt
<1>2. CASE i # 0
  <2>1. i \in 1..Len(log)
    BY <1>2
  <2>2. log[i] \in [tree : Trees, for : Bundle]
    BY <2>1, ElementTyped
  <2>3. QED
    BY <1>2, <2>2 DEF TreeAt
<1>3. QED
  BY <1>1, <1>2

(* What a commit that is running is for.                                    *)
LEMMA CommitParts ==
  ASSUME GitTypeOK, commit.step # "none"
  PROVE  /\ commit.bundle \in Bundle /\ commit.written \in SUBSET ManifestFile
         /\ commit.step \in {"write", "add", "commit", "answer"}
         /\ \A s \in {"write", "add", "commit", "answer"} :
              /\ [commit EXCEPT !.step = s].step = s
              /\ [commit EXCEPT !.step = s].bundle = commit.bundle
              /\ [commit EXCEPT !.step = s]
                   \in [bundle : Bundle, step : {"write", "add", "commit", "answer"},
                        written : SUBSET ManifestFile]
BY DEF GitTypeOK, NoCommit

LEMMA StartHolds == GitInit => GitInv
<1>1. SUFFICES ASSUME GitInit PROVE GitInv
  OBVIOUS
<1>2. /\ worktree = NoTree /\ staged = NoTree /\ log = <<>> /\ commit = NoCommit
      /\ answers = {} /\ stops = 0
  BY <1>1 DEF GitInit
<1>3. Len(log) = 0 /\ DOMAIN log = {} /\ log \in Seq([tree : Trees, for : Bundle])
  BY <1>2
<1>4. GitTypeOK
  BY <1>2, <1>3, NoTreeIsEmpty, BundleAssumption DEF GitTypeOK
<1>5. Main = NoTree
  BY <1>3 DEF Main, TreeAt
<1>6. IndexesFlow
  BY <1>2, <1>5, NoTreeIsEmpty DEF IndexesFlow
<1>7. Whole(staged)
  <2>1. NoBundle \in Slot
    BY DEF Slot
  <2>2. QED
    BY <1>2, <2>1, NoTreeIsEmpty DEF Whole, WholeAt
<1>8. CommitKnows
  BY <1>2 DEF CommitKnows, NoCommit
<1>9. IndexesKept
  <2>1. \A i \in 0..Len(log) : i = 0
    BY <1>3
  <2>2. QED
    BY <2>1 DEF IndexesKept
<1>10. LogIsWhole /\ AnswersIntroduce
  BY <1>2, <1>3 DEF LogIsWhole, AnswersIntroduce
<1>11. QED
  BY <1>4, <1>6, <1>7, <1>8, <1>9, <1>10 DEF GitInv

(* Steps that leave log and git's index as they are.                        *)
LEMMA SideKept ==
  ASSUME GitInv, UNCHANGED <<staged, log>>, GitTypeOK',
         \A r \in Releases :
           /\ worktree'.indexes[r] # NoBundle => worktree'.indexes[r].release = r
           /\ staged.indexes[r] # NoBundle => worktree'.indexes[r] = worktree.indexes[r],
         CommitKnows', AnswersIntroduce'
  PROVE  GitInv'
<1>1. Main' = Main
  BY DEF Main, TreeAt
<1>2. IndexesFlow'
  BY <1>1 DEF GitInv, IndexesFlow
<1>3. Whole(staged)' /\ IndexesKept' /\ LogIsWhole'
  BY DEF GitInv, Whole, WholeAt, IndexesKept, LogIsWhole, TreeAt, Holds
<1>4. QED
  BY <1>2, <1>3 DEF GitInv

LEMMA IntroducedKept ==
  ASSUME log' = log, NEW r, NEW b, NEW i, Introduced(r, b, i)
  PROVE  Introduced(r, b, i)'
BY DEF Introduced, TreeAt

LEMMA BeginStep ==
  ASSUME GitInv, NEW b \in Bundle, BeginCommit(b)
  PROVE  GitInv'
<1>1. UNCHANGED <<worktree, staged, log, answers, stops>>
  BY DEF BeginCommit
<1>2. GitTypeOK'
  BY <1>1 DEF BeginCommit, GitInv, GitTypeOK
<1>3. CommitKnows'
  BY DEF BeginCommit, CommitKnows
<1>4. AnswersIntroduce'
  BY <1>1, IntroducedKept DEF GitInv, AnswersIntroduce
<1>5. QED
  BY <1>1, <1>2, <1>3, <1>4, SideKept DEF GitInv, IndexesFlow

LEMMA WriteStep ==
  ASSUME GitInv, NEW f \in ManifestFile, WriteManifest(f)
  PROVE  GitInv'
<1>1. PICK b : b = commit.bundle
  OBVIOUS
<1>2. /\ commit.step = "write" /\ f \notin commit.written
      /\ worktree' = [worktree EXCEPT !.files[b.path][f] = b]
      /\ commit' = [commit EXCEPT !.written = @ \cup {f}]
      /\ UNCHANGED <<staged, log, answers, stops>>
  BY <1>1 DEF WriteManifest
<1>3. /\ b \in Bundle /\ commit.written \in SUBSET ManifestFile
      /\ commit \in [bundle : Bundle, step : {"write", "add", "commit", "answer"},
                     written : SUBSET ManifestFile]
  BY <1>1, <1>2 DEF GitInv, GitTypeOK, NoCommit
<1>4. worktree \in Trees
  BY DEF GitInv, GitTypeOK
<1>5. /\ worktree'.indexes = worktree.indexes /\ worktree' \in Trees
      /\ worktree'.files[b.path][f] = b
      /\ \A g \in ManifestFile \ {f} :
           worktree'.files[b.path][g] = worktree.files[b.path][g]
  BY <1>2, <1>3, <1>4, BundleIsSome, TreeParts DEF Trees
<1>6. /\ commit'.bundle = b /\ commit'.step = "write" /\ commit'.written = commit.written \cup {f}
      /\ commit' \in [bundle : Bundle, step : {"write", "add", "commit", "answer"},
                     written : SUBSET ManifestFile]
  BY <1>1, <1>2, <1>3
<1>7. GitTypeOK'
  BY <1>2, <1>5, <1>6 DEF GitInv, GitTypeOK
<1>8. CommitKnows'
  <2>1. worktree.indexes[b.release] = NoBundle
        /\ \A g \in commit.written : worktree.files[b.path][g] = b
    BY <1>1, <1>2 DEF GitInv, CommitKnows
  <2>2. \A g \in commit'.written : worktree'.files[b.path][g] = b
    BY <1>3, <1>5, <1>6, <2>1
  <2>3. QED
    BY <1>5, <1>6, <2>1, <2>2 DEF CommitKnows
<1>9. AnswersIntroduce'
  BY <1>2, IntroducedKept DEF GitInv, AnswersIntroduce
<1>10. QED
  BY <1>2, <1>5, <1>7, <1>8, <1>9, SideKept DEF GitInv, IndexesFlow

LEMMA IndexStep ==
  ASSUME GitInv, WriteIndex
  PROVE  GitInv'
<1>1. PICK b : b = commit.bundle
  OBVIOUS
<1>2. /\ commit.step = "write" /\ commit.written = ManifestFile
      /\ worktree' = [worktree EXCEPT !.indexes[b.release] = b]
      /\ commit' = [commit EXCEPT !.step = "add"]
      /\ UNCHANGED <<staged, log, answers, stops>>
  BY <1>1 DEF WriteIndex
<1>3. /\ b \in Bundle /\ commit'.bundle = b /\ commit'.step = "add"
      /\ commit' \in [bundle : Bundle, step : {"write", "add", "commit", "answer"},
                      written : SUBSET ManifestFile]
  BY <1>1, <1>2, CommitParts DEF GitInv
<1>4. worktree \in Trees
  BY DEF GitInv, GitTypeOK
<1>5. /\ worktree'.files = worktree.files /\ worktree' \in Trees
      /\ worktree'.indexes[b.release] = b
      /\ \A r \in Releases \ {b.release} : worktree'.indexes[r] = worktree.indexes[r]
  BY <1>2, <1>3, <1>4, BundleIsSome, TreeParts DEF Trees
<1>6. GitTypeOK'
  BY <1>2, <1>3, <1>5 DEF GitInv, GitTypeOK
<1>7. /\ worktree.indexes[b.release] = NoBundle
      /\ \A f \in ManifestFile : worktree.files[b.path][f] = b
  BY <1>1, <1>2 DEF GitInv, CommitKnows
<1>8. staged.indexes[b.release] = NoBundle
  BY <1>3, <1>7, BundleIsSome DEF GitInv, IndexesFlow
<1>9. CommitKnows'
  BY <1>2, <1>3, <1>5, <1>7, <1>8 DEF CommitKnows, Holds
<1>10. AnswersIntroduce'
  BY <1>2, IntroducedKept DEF GitInv, AnswersIntroduce
<1>11. \A r \in Releases :
         /\ worktree'.indexes[r] # NoBundle => worktree'.indexes[r].release = r
         /\ staged.indexes[r] # NoBundle => worktree'.indexes[r] = worktree.indexes[r]
  <2>1. ASSUME NEW r \in Releases
        PROVE  /\ worktree'.indexes[r] # NoBundle => worktree'.indexes[r].release = r
               /\ staged.indexes[r] # NoBundle => worktree'.indexes[r] = worktree.indexes[r]
    <3>1. CASE r = b.release
      BY <1>5, <1>8, <3>1
    <3>2. CASE r # b.release
      BY <1>5, <3>2 DEF GitInv, IndexesFlow
    <3>3. QED
      BY <3>1, <3>2
  <2>2. QED
    BY <2>1
<1>12. QED
  BY <1>2, <1>6, <1>9, <1>10, <1>11, SideKept

(* What git add stages of the files of a release.                           *)
LEMMA AddedParts ==
  ASSUME NEW tree \in Trees, NEW from \in Trees, NEW b \in Bundle
  PROVE  /\ Added(tree, from, b) \in Trees
         /\ Added(tree, from, b).files[b.path] = from.files[b.path]
         /\ Added(tree, from, b).indexes[b.release] = from.indexes[b.release]
         /\ \A p \in Paths \ {b.path} : Added(tree, from, b).files[p] = tree.files[p]
         /\ \A r \in Releases \ {b.release} :
              Added(tree, from, b).indexes[r] = tree.indexes[r]
BY BundleIsSome, TreeParts DEF Added, Trees

LEMMA AddedWhole ==
  ASSUME NEW tree \in Trees, NEW from \in Trees, NEW b \in Bundle,
         Whole(tree), tree.indexes[b.release] = NoBundle, Holds(from, b)
  PROVE  Whole(Added(tree, from, b)) /\ Holds(Added(tree, from, b), b)
<1>1. PICK added : added = Added(tree, from, b)
  OBVIOUS
<1>2. /\ added.files[b.path] = from.files[b.path]
      /\ added.indexes[b.release] = b
      /\ \A p \in Paths \ {b.path} : added.files[p] = tree.files[p]
      /\ \A r \in Releases \ {b.release} : added.indexes[r] = tree.indexes[r]
  <2>1. from.indexes[b.release] = b
    BY DEF Holds
  <2>2. QED
    BY <1>1, <2>1, AddedParts
<1>3. Holds(added, b)
  BY <1>2 DEF Holds
<1>4. ASSUME NEW p \in Paths PROVE WholeAt(added, p)
  <2>1. CASE p = b.path
    BY <1>3, <2>1, BundleIsSome DEF WholeAt, Holds
  <2>2. CASE p # b.path
    <3>1. PICK c \in Slot : /\ \A f \in ManifestFile : tree.files[p][f] = c
                            /\ c # NoBundle => c.path = p /\ tree.indexes[c.release] = c
      BY DEF Whole, WholeAt
    <3>2. c # NoBundle => added.indexes[c.release] = c
      <4>1. SUFFICES ASSUME c # NoBundle PROVE added.indexes[c.release] = c
        OBVIOUS
      <4>2. c \in Bundle /\ c.release \in Releases
        BY <3>1, <4>1 DEF Slot, Releases
      <4>3. c.release # b.release
        BY <3>1, <4>1
      <4>4. QED
        BY <1>2, <3>1, <4>1, <4>2, <4>3
    <3>3. added.files[p] = tree.files[p]
      BY <1>2, <2>2
    <3>4. QED
      BY <3>1, <3>2, <3>3 DEF WholeAt
  <2>3. QED
    BY <2>1, <2>2
<1>5. QED
  BY <1>1, <1>3, <1>4 DEF Whole

LEMMA AddStep ==
  ASSUME GitInv, GitAdd
  PROVE  GitInv'
<1>1. PICK b : b = commit.bundle
  OBVIOUS
<1>2. /\ commit.step = "add" /\ staged' = Added(staged, worktree, b)
      /\ commit' = [commit EXCEPT !.step = "commit"]
      /\ UNCHANGED <<worktree, log, answers, stops>>
  BY <1>1 DEF GitAdd
<1>3. /\ b \in Bundle /\ commit'.bundle = b /\ commit'.step = "commit"
      /\ commit' \in [bundle : Bundle, step : {"write", "add", "commit", "answer"},
                      written : SUBSET ManifestFile]
  BY <1>1, <1>2, CommitParts DEF GitInv
<1>4. worktree \in Trees /\ staged \in Trees
  BY DEF GitInv, GitTypeOK
<1>5. Holds(worktree, b) /\ staged.indexes[b.release] = NoBundle /\ Whole(staged)
  BY <1>1, <1>2 DEF GitInv, CommitKnows
<1>6. staged' \in Trees /\ Whole(staged') /\ Holds(staged', b)
  BY <1>2, <1>3, <1>4, <1>5, AddedParts, AddedWhole
<1>7. GitTypeOK'
  BY <1>2, <1>3, <1>6 DEF GitInv, GitTypeOK
<1>8. Main' = Main
  BY <1>2 DEF Main, TreeAt
<1>9. /\ b.release \in Releases /\ Main.indexes[b.release] = NoBundle
      /\ b # NoBundle
  BY <1>3, <1>5, BundleIsSome DEF GitInv, IndexesFlow
<1>10. IndexesFlow'
  <2>1. PICK added : added = Added(staged, worktree, b)
    OBVIOUS
  <2>2. /\ added.indexes[b.release] = worktree.indexes[b.release]
        /\ \A r \in Releases \ {b.release} : added.indexes[r] = staged.indexes[r]
    <3>1. PICK from \in Trees : from = worktree
      BY <1>4
    <3>2. PICK tree \in Trees : tree = staged
      BY <1>4
    <3>3. added = Added(tree, from, b)
      BY <2>1, <3>1, <3>2
    <3>4. /\ added.indexes[b.release] = from.indexes[b.release]
          /\ \A r \in Releases \ {b.release} : added.indexes[r] = tree.indexes[r]
      <4>1. b \in Bundle
        BY <1>3
      <4>2. QED
        BY <3>3, <4>1, AddedParts
    <3>5. QED
      BY <3>1, <3>2, <3>4
  <2>3. staged' = added
    BY <1>2, <2>1
  <2>4. QED
    BY <1>2, <1>8, <1>9, <2>2, <2>3 DEF GitInv, IndexesFlow
<1>11. Whole(staged)'
  BY <1>6 DEF Whole, WholeAt
<1>12. CommitKnows'
  BY <1>2, <1>3, <1>6, <1>8, <1>9 DEF CommitKnows, Holds
<1>13. IndexesKept' /\ LogIsWhole'
  BY <1>2 DEF GitInv, IndexesKept, LogIsWhole, TreeAt, Holds, Whole, WholeAt
<1>14. AnswersIntroduce'
  BY <1>2, IntroducedKept DEF GitInv, AnswersIntroduce
<1>15. QED
  BY <1>7, <1>10, <1>11, <1>12, <1>13, <1>14 DEF GitInv

(* A commit extends the log.                                                *)
LEMMA LogExtended ==
  ASSUME GitTypeOK, NEW b \in Bundle,
         log' = Append(log, [tree |-> staged, for |-> b])
  PROVE  /\ Len(log) \in Nat /\ Len(log') = Len(log) + 1
         /\ DOMAIN log = 1..Len(log) /\ DOMAIN log' = 1..(Len(log) + 1)
         /\ log' \in Seq([tree : Trees, for : Bundle])
         /\ \A i \in 1..Len(log) : log'[i] = log[i]
         /\ log'[Len(log) + 1] = [tree |-> staged, for |-> b]
         /\ \A i \in 0..Len(log) : TreeAt(i)' = TreeAt(i)
         /\ Main' = staged
<1>1. staged \in Trees /\ log \in Seq([tree : Trees, for : Bundle])
  BY DEF GitTypeOK
<1>2. [tree |-> staged, for |-> b] \in [tree : Trees, for : Bundle]
  BY <1>1
<1>3. /\ Len(log) \in Nat /\ Len(log') = Len(log) + 1
      /\ DOMAIN log = 1..Len(log) /\ DOMAIN log' = 1..(Len(log) + 1)
      /\ log' \in Seq([tree : Trees, for : Bundle])
      /\ \A i \in 1..Len(log) : log'[i] = log[i]
      /\ log'[Len(log) + 1] = [tree |-> staged, for |-> b]
  BY <1>1, <1>2
<1>4. \A i \in 0..Len(log) : TreeAt(i)' = TreeAt(i)
  BY <1>3 DEF TreeAt
<1>5. Main' = staged
  BY <1>3 DEF Main, TreeAt
<1>6. QED
  BY <1>3, <1>4, <1>5

LEMMA CommitStep ==
  ASSUME GitInv, GitCommit
  PROVE  GitInv'
<1>1. PICK b : b = commit.bundle
  OBVIOUS
<1>2. /\ commit.step = "commit" /\ log' = Append(log, [tree |-> staged, for |-> b])
      /\ commit' = [commit EXCEPT !.step = "answer"]
      /\ UNCHANGED <<worktree, staged, answers, stops>>
  BY <1>1 DEF GitCommit
<1>3. /\ b \in Bundle /\ commit'.bundle = b /\ commit'.step = "answer"
      /\ commit' \in [bundle : Bundle, step : {"write", "add", "commit", "answer"},
                      written : SUBSET ManifestFile]
  BY <1>1, <1>2, CommitParts DEF GitInv
<1>4. PICK n : n = Len(log)
  OBVIOUS
<1>5. /\ n \in Nat /\ Len(log') = n + 1
      /\ DOMAIN log = 1..n /\ DOMAIN log' = 1..(n + 1)
      /\ log' \in Seq([tree : Trees, for : Bundle])
      /\ \A i \in 1..n : log'[i] = log[i]
      /\ log'[n + 1] = [tree |-> staged, for |-> b]
      /\ \A i \in 0..n : TreeAt(i)' = TreeAt(i)
      /\ Main' = staged
  BY <1>2, <1>3, <1>4, LogExtended DEF GitInv
<1>6. Holds(staged, b) /\ Main.indexes[b.release] = NoBundle
  BY <1>1, <1>2 DEF GitInv, CommitKnows
<1>7. GitTypeOK'
  BY <1>2, <1>3, <1>5 DEF GitInv, GitTypeOK
<1>8. IndexesFlow'
  BY <1>2, <1>5 DEF GitInv, IndexesFlow
<1>9. Whole(staged)'
  BY <1>2 DEF GitInv, Whole, WholeAt
<1>10. TreeAt(n + 1)' = staged /\ TreeAt(n) = Main
  BY <1>4, <1>5 DEF TreeAt, Main
<1>11. CommitKnows'
  <2>1. TreeAt(n)' = Main
    BY <1>5, <1>10
  <2>2. (n + 1) - 1 = n /\ n + 1 \in 1..(n + 1)
    BY <1>5
  <2>3. Introduced(b.release, b, Len(log))'
    BY <1>3, <1>5, <1>6, <2>1, <2>2 DEF Introduced, Holds, TreeAt
  <2>4. QED
    BY <1>3, <2>3 DEF CommitKnows
<1>12. IndexesKept'
  <2>1. ASSUME NEW i \in 0..(n + 1), NEW j \in 0..(n + 1), i <= j,
               NEW r \in Releases, TreeAt(i)'.indexes[r] # NoBundle
        PROVE  TreeAt(j)'.indexes[r] = TreeAt(i)'.indexes[r]
    <3>1. CASE i = j
      BY <3>1
    <3>2. CASE j \in 0..n
      <4>1. i \in 0..n
        BY <1>5, <2>1, <3>2
      <4>2. QED
        BY <1>4, <1>5, <2>1, <3>2, <4>1 DEF GitInv, IndexesKept
    <3>3. CASE i \in 0..n /\ j = n + 1
      <4>1. n \in 0..n /\ i <= n
        BY <1>5, <3>3
      <4>2. TreeAt(i)' = TreeAt(i)
        BY <1>5, <3>3
      <4>3. Main.indexes[r] = TreeAt(i).indexes[r]
        BY <1>4, <1>10, <2>1, <3>3, <4>1, <4>2 DEF GitInv, IndexesKept
      <4>4. staged.indexes[r] = Main.indexes[r]
        BY <2>1, <4>2, <4>3 DEF GitInv, IndexesFlow
      <4>5. QED
        BY <1>10, <3>3, <4>2, <4>3, <4>4
    <3>4. QED
      BY <1>5, <2>1, <3>1, <3>2, <3>3
  <2>2. QED
    BY <1>5, <2>1 DEF IndexesKept
<1>13. LogIsWhole'
  <2>1. ASSUME NEW i \in 1..(n + 1)
        PROVE  (Whole(log[i].tree) /\ Holds(log[i].tree, log[i].for))'
    <3>1. CASE i \in 1..n
      <4>1. log'[i] = log[i] /\ Whole(log[i].tree) /\ Holds(log[i].tree, log[i].for)
        BY <1>5, <3>1 DEF GitInv, LogIsWhole
      <4>2. QED
        BY <4>1 DEF Whole, WholeAt, Holds
    <3>2. CASE i = n + 1
      <4>1. log'[i].tree = staged /\ log'[i].for = b /\ Whole(staged)
        BY <1>5, <3>2 DEF GitInv
      <4>2. QED
        BY <1>6, <4>1 DEF Whole, WholeAt, Holds
    <3>3. QED
      BY <1>5, <2>1, <3>1, <3>2
  <2>2. QED
    BY <1>5, <2>1 DEF LogIsWhole
<1>14. AnswersIntroduce'
  <2>1. ASSUME NEW a \in answers
        PROVE  Introduced(a.release, a.bundle, a.commit)'
    <3>1. PICK i : i = a.commit
      OBVIOUS
    <3>2. Introduced(a.release, a.bundle, i)
      BY <3>1 DEF GitInv, AnswersIntroduce
    <3>3. i \in 1..n /\ i - 1 \in 0..n /\ i \in 1..(n + 1)
      BY <1>5, <3>2 DEF Introduced
    <3>4. log'[i] = log[i] /\ TreeAt(i - 1)' = TreeAt(i - 1)
      BY <1>5, <3>3
    <3>5. QED
      BY <1>5, <3>1, <3>2, <3>3, <3>4 DEF Introduced
  <2>2. QED
    BY <1>2, <2>1 DEF AnswersIntroduce
<1>15. QED
  BY <1>7, <1>8, <1>9, <1>11, <1>12, <1>13, <1>14 DEF GitInv

(* Steps that leave the three trees as they are.                            *)
LEMMA TreesKept ==
  ASSUME GitInv, UNCHANGED <<worktree, staged, log>>, GitTypeOK', CommitKnows',
         AnswersIntroduce'
  PROVE  GitInv'
BY SideKept DEF GitInv, IndexesFlow

LEMMA AnswerTyped ==
  ASSUME NEW r \in Releases, NEW b \in Bundle, NEW i \in Nat, b.release = r
  PROVE  /\ Answer(b, i) \in [release : Releases, bundle : Bundle, commit : Nat]
         /\ Answer(b, i).release = r /\ Answer(b, i).bundle = b /\ Answer(b, i).commit = i
BY DEF Answer

(* A true answer is added.                                                  *)
LEMMA AnswerAdded ==
  ASSUME GitInv, UNCHANGED <<worktree, staged, log, stops>>, commit' = NoCommit,
         NEW b \in Bundle, NEW i, Introduced(b.release, b, i),
         answers' = answers \cup {Answer(b, i)}
  PROVE  GitInv'
<1>1. i \in Nat /\ b.release \in Releases
  <2>1. i \in DOMAIN log /\ DOMAIN log = 1..Len(log)
    BY DEF Introduced, GitInv, GitTypeOK
  <2>2. QED
    BY <2>1, BundleIsSome
<1>2. PICK a : a = Answer(b, i)
  OBVIOUS
<1>3. /\ a \in [release : Releases, bundle : Bundle, commit : Nat]
      /\ a.release = b.release /\ a.bundle = b /\ a.commit = i
  BY <1>1, <1>2, AnswerTyped
<1>4. GitTypeOK'
  BY <1>2, <1>3 DEF GitInv, GitTypeOK, NoCommit
<1>5. CommitKnows'
  BY DEF CommitKnows, NoCommit
<1>6. AnswersIntroduce'
  <2>1. \A c \in answers : Introduced(c.release, c.bundle, c.commit)'
    BY IntroducedKept DEF GitInv, AnswersIntroduce
  <2>2. Introduced(a.release, a.bundle, a.commit)'
    BY <1>3, IntroducedKept
  <2>3. QED
    BY <1>2, <2>1, <2>2 DEF AnswersIntroduce
<1>7. QED
  BY <1>4, <1>5, <1>6, TreesKept

LEMMA AnswerStep ==
  ASSUME GitInv, AnswerHead
  PROVE  GitInv'
<1>1. PICK b : b = commit.bundle
  OBVIOUS
<1>2. /\ commit.step = "answer" /\ answers' = answers \cup {Answer(b, Len(log))}
      /\ commit' = NoCommit /\ UNCHANGED <<worktree, staged, log, stops>>
  BY <1>1 DEF AnswerHead
<1>3. b \in Bundle /\ Introduced(b.release, b, Len(log))
  BY <1>1, <1>2, CommitParts DEF GitInv, CommitKnows
<1>4. QED
  BY <1>2, <1>3, AnswerAdded

(* commitForPath finds the commit with which the release appeared, and the  *)
(* worktree still holds what that commit says of it.                        *)
LEMMA FoundIsIntroduced ==
  ASSUME GitInv, NEW r \in Releases, NEW i, worktree.indexes[r] # NoBundle,
         CommitForPath(r, i)
  PROVE  /\ worktree.indexes[r] \in Bundle /\ worktree.indexes[r].release = r
         /\ Introduced(r, worktree.indexes[r], i)
<1>1. PICK n : n = Len(log)
  OBVIOUS
<1>2. n \in Nat /\ DOMAIN log = 1..n /\ worktree \in Trees
  BY <1>1 DEF GitInv, GitTypeOK
<1>3. i \in 1..n /\ TreeAt(i).indexes[r] # TreeAt(i - 1).indexes[r]
  BY <1>2 DEF CommitForPath
<1>4. i \in 0..n /\ i - 1 \in 0..n /\ n \in 0..n /\ i - 1 <= i /\ i <= n
  BY <1>2, <1>3
<1>5. TreeAt(i - 1).indexes[r] = NoBundle
  BY <1>1, <1>3, <1>4 DEF GitInv, IndexesKept
<1>6. TreeAt(i).indexes[r] # NoBundle
  BY <1>3, <1>5
<1>7. Main.indexes[r] = TreeAt(i).indexes[r]
  BY <1>1, <1>4, <1>6 DEF GitInv, IndexesKept, Main
<1>8. worktree.indexes[r] = TreeAt(i).indexes[r]
  BY <1>6, <1>7 DEF GitInv, IndexesFlow
<1>9. worktree.indexes[r] \in Bundle /\ worktree.indexes[r].release = r
  BY <1>2, TreeParts DEF Slot, GitInv, IndexesFlow
<1>10. QED
  BY <1>2, <1>3, <1>5, <1>8, <1>9 DEF Introduced, TreeAt

LEMMA FindStep ==
  ASSUME GitInv, NEW r \in Releases, NEW i, FindByRelease(r, i)
  PROVE  GitInv'
<1>1. PICK b : b = worktree.indexes[r]
  OBVIOUS
<1>2. /\ commit = NoCommit /\ b # NoBundle /\ CommitForPath(r, i)
      /\ answers' = answers \cup {Answer(b, i)}
      /\ UNCHANGED <<worktree, staged, log, commit, stops>>
  BY <1>1 DEF FindByRelease
<1>3. b \in Bundle /\ b.release = r /\ Introduced(r, b, i)
  BY <1>1, <1>2, FoundIsIntroduced
<1>4. QED
  BY <1>2, <1>3, AnswerAdded

LEMMA StopStep ==
  ASSUME GitInv, Stop
  PROVE  GitInv'
<1>1. GitTypeOK'
  BY BundleAssumption DEF Stop, GitInv, GitTypeOK, NoCommit
<1>2. CommitKnows'
  BY DEF Stop, CommitKnows, NoCommit
<1>3. AnswersIntroduce'
  BY IntroducedKept DEF Stop, GitInv, AnswersIntroduce
<1>4. QED
  BY <1>1, <1>2, <1>3, TreesKept DEF Stop

(* GitInv is an inductive invariant of the repository.                      *)
THEOREM GitInvariance == GitSpec => []GitInv
<1>1. ASSUME GitInv, [GitNext]_gitVars PROVE GitInv'
  <2>1. CASE UNCHANGED gitVars
    <3>1. UNCHANGED <<worktree, staged, log, commit, answers, stops>>
      BY <2>1 DEF gitVars
    <3>2. GitTypeOK' /\ CommitKnows' /\ AnswersIntroduce'
      BY <1>1, <3>1 DEF GitInv, GitTypeOK, CommitKnows, AnswersIntroduce, Introduced,
                        Holds, TreeAt, Main
    <3>3. QED
      BY <1>1, <3>1, <3>2, TreesKept
  <2>2. CASE Proceed
    BY <1>1, <2>2, WriteStep, IndexStep, AddStep, CommitStep, AnswerStep DEF Proceed
  <2>3. CASE Stop
    BY <1>1, <2>3, StopStep
  <2>4. CASE \E b \in Bundle : BeginCommit(b)
    BY <1>1, <2>4, BeginStep
  <2>5. CASE \E r \in Releases, i \in DOMAIN log : FindByRelease(r, i)
    BY <1>1, <2>5, FindStep
  <2>6. CASE \E b \in Bundle, i \in DOMAIN log : CommitAgain(b, i)
    BY <1>1, <2>6, FindStep, BundleIsSome DEF CommitAgain
  <2>7. QED
    BY <1>1, <2>1, <2>2, <2>3, <2>4, <2>5, <2>6 DEF GitNext
<1>2. QED
  BY <1>1, StartHolds, PTL DEF GitSpec

(* BundlesAreWhole, of the commits that Commit makes of what is staged,     *)
(* holds however many calls stop half way.                                  *)
THEOREM BundlesStayWhole == GitSpec => []BundlesAreWhole
<1>1. GitInv => BundlesAreWhole
  BY DEF GitInv, LogIsWhole, Whole, WholeAt, Holds, BundlesAreWhole
<1>2. QED
  BY <1>1, GitInvariance, PTL

(* A release appears once.                                                  *)
LEMMA IntroducedOnce ==
  ASSUME GitInv, NEW r \in Releases, NEW b, NEW c, NEW i, NEW j,
         Introduced(r, b, i), Introduced(r, c, j)
  PROVE  i = j /\ b = c
<1>1. PICK n : n = Len(log)
  OBVIOUS
<1>2. n \in Nat /\ DOMAIN log = 1..n
  BY <1>1 DEF GitInv, GitTypeOK
<1>3. /\ i \in 1..n /\ j \in 1..n /\ b # NoBundle /\ c # NoBundle
      /\ TreeAt(i).indexes[r] = b /\ TreeAt(i - 1).indexes[r] = NoBundle
      /\ TreeAt(j).indexes[r] = c /\ TreeAt(j - 1).indexes[r] = NoBundle
  BY <1>2, BundleAssumption DEF Introduced, TreeAt
<1>4. /\ i \in 0..n /\ j \in 0..n /\ i - 1 \in 0..n /\ j - 1 \in 0..n
      /\ (i <= j - 1 \/ j <= i - 1 \/ i = j)
  BY <1>2, <1>3
<1>5. ~(i <= j - 1)
  BY <1>1, <1>3, <1>4 DEF GitInv, IndexesKept
<1>6. ~(j <= i - 1)
  BY <1>1, <1>3, <1>4 DEF GitInv, IndexesKept
<1>7. QED
  BY <1>3, <1>4, <1>5, <1>6

(* AnswersAgree: Commit and FindByRelease answer a release with the commit  *)
(* that it first appeared in, whichever call did the work.                  *)
THEOREM AnswersHold == GitSpec => []AnswersAgree
<1>1. ASSUME GitInv PROVE AnswersAgree
  <2>1. ASSUME NEW a \in answers
        PROVE  /\ a \in [release : Releases, bundle : Bundle, commit : Nat]
               /\ Introduced(a.release, a.bundle, a.commit)
    BY <1>1 DEF GitInv, GitTypeOK, AnswersIntroduce
  <2>2. ASSUME NEW a \in answers, NEW c \in answers, a.release = c.release
        PROVE  a = c
    <3>1. a.commit = c.commit /\ a.bundle = c.bundle
      BY <1>1, <2>1, <2>2, IntroducedOnce
    <3>2. QED
      BY <2>1, <2>2, <3>1
  <2>3. QED
    BY <2>1, <2>2 DEF AnswersAgree, Introduced
<1>2. QED
  BY <1>1, GitInvariance, PTL

(* What is staged and not committed: bundles of releases that the main      *)
(* branch does not have.  The manifests that are staged differ from those   *)
(* of the main branch only where such a bundle is, and where one is, they   *)
(* are of such a bundle.                                                    *)
Cur(tree, p) == tree.files[p]["paasapp.yaml"]

New(b) == /\ b \in Bundle /\ staged.indexes[b.release] = b
          /\ Main.indexes[b.release] = NoBundle

StagedIsNew ==
  /\ \A p \in Paths : Cur(staged, p) # Cur(Main, p) => New(Cur(staged, p))
  /\ \A b \in Bundle : New(b) => New(Cur(staged, b.path))

LEMMA StagedNewAdd ==
  ASSUME GitInv, StagedIsNew, GitAdd
  PROVE  StagedIsNew'
<1>1. PICK b : b = commit.bundle
  OBVIOUS
<1>2. /\ commit.step = "add" /\ staged' = Added(staged, worktree, b)
      /\ UNCHANGED <<worktree, log>>
  BY <1>1 DEF GitAdd
<1>3. /\ b \in Bundle /\ b \in Slot /\ b.release \in Releases /\ b.path \in Paths
      /\ b # NoBundle
  BY <1>1, <1>2, CommitParts, BundleIsSome DEF GitInv
<1>4. Holds(worktree, b) /\ staged.indexes[b.release] = NoBundle
  BY <1>1, <1>2 DEF GitInv, CommitKnows
<1>5. Main' = Main /\ Main.indexes[b.release] = NoBundle
  BY <1>2, <1>3, <1>4 DEF Main, TreeAt, GitInv, IndexesFlow
<1>6. /\ staged'.indexes[b.release] = b
      /\ Cur(staged', b.path) = b
      /\ \A p \in Paths \ {b.path} : Cur(staged', p) = Cur(staged, p)
      /\ \A r \in Releases \ {b.release} : staged'.indexes[r] = staged.indexes[r]
  <2>1. PICK tree \in Trees : tree = staged
    BY DEF GitInv, GitTypeOK
  <2>2. PICK from \in Trees : from = worktree
    BY DEF GitInv, GitTypeOK
  <2>3. PICK added : added = Added(tree, from, b)
    OBVIOUS
  <2>4. /\ added.files[b.path] = from.files[b.path]
        /\ added.indexes[b.release] = from.indexes[b.release]
        /\ \A p \in Paths \ {b.path} : added.files[p] = tree.files[p]
        /\ \A r \in Releases \ {b.release} : added.indexes[r] = tree.indexes[r]
    BY <1>3, <2>3, AddedParts
  <2>5. staged' = added
    BY <1>2, <2>1, <2>2, <2>3
  <2>6. from.indexes[b.release] = b /\ from.files[b.path]["paasapp.yaml"] = b
    BY <1>4, <2>2 DEF Holds, ManifestFile
  <2>7. QED
    BY <2>1, <2>4, <2>5, <2>6 DEF Cur
<1>7. New(b)'
  BY <1>3, <1>5, <1>6 DEF New
<1>8. ASSUME NEW c, New(c) PROVE New(c)'
  <2>1. c \in Bundle /\ c.release \in Releases /\ c # NoBundle
    BY <1>8, BundleIsSome DEF New
  <2>2. c.release # b.release
    BY <1>4, <1>8, <2>1 DEF New
  <2>3. QED
    BY <1>5, <1>6, <1>8, <2>1, <2>2 DEF New
<1>9. ASSUME NEW p \in Paths, (Cur(staged, p) # Cur(Main, p))'
      PROVE  New(Cur(staged, p))'
  <2>1. CASE p = b.path
    BY <1>6, <1>7, <2>1 DEF New, Cur
  <2>2. CASE p # b.path
    <3>1. Cur(staged', p) = Cur(staged, p)
      BY <1>6, <2>2
    <3>2. New(Cur(staged, p))
      BY <1>5, <1>9, <3>1 DEF StagedIsNew, Cur
    <3>3. PICK c : c = Cur(staged, p)
      OBVIOUS
    <3>4. New(c)'
      BY <1>8, <3>2, <3>3
    <3>5. QED
      BY <3>1, <3>3, <3>4 DEF New, Cur
  <2>3. QED
    BY <2>1, <2>2
<1>10. ASSUME NEW d \in Bundle, New(d)'
       PROVE  New(Cur(staged, d.path))'
  <2>1. d.release \in Releases /\ d.path \in Paths /\ staged'.indexes[d.release] = d
    BY <1>10, BundleIsSome DEF New
  <2>2. CASE d.path = b.path
    BY <1>6, <1>7, <2>2 DEF New, Cur
  <2>3. CASE d.path # b.path
    <3>1. d.release # b.release
      BY <1>6, <2>1, <2>3
    <3>2. New(d)
      BY <1>5, <1>6, <1>10, <2>1, <3>1 DEF New
    <3>3. New(Cur(staged, d.path))
      BY <3>2 DEF StagedIsNew
    <3>4. Cur(staged', d.path) = Cur(staged, d.path)
      BY <1>6, <2>1, <2>3
    <3>5. PICK c : c = Cur(staged, d.path)
      OBVIOUS
    <3>6. New(c)'
      BY <1>8, <3>3, <3>5
    <3>7. QED
      BY <3>4, <3>5, <3>6 DEF New, Cur
  <2>4. QED
    BY <2>2, <2>3
<1>11. QED
  BY <1>9, <1>10 DEF StagedIsNew

LEMMA StagedNewCommit ==
  ASSUME GitInv, GitCommit
  PROVE  StagedIsNew' /\ Main' = staged /\ staged' = staged
<1>1. Main' = staged /\ staged' = staged
  BY CommitParts, LogExtended DEF GitInv, GitCommit
<1>2. \A b \in Bundle : ~New(b)'
  BY <1>1, BundleIsSome DEF New
<1>3. QED
  BY <1>1, <1>2 DEF StagedIsNew, Cur

LEMMA StagedNewKept ==
  ASSUME StagedIsNew, UNCHANGED <<staged, log>>
  PROVE  StagedIsNew' /\ Main' = Main
<1>1. Main' = Main
  BY DEF Main, TreeAt
<1>2. QED
  BY <1>1 DEF StagedIsNew, New, Cur

LEMMA OtherSteps ==
  ASSUME [GitNext]_gitVars, ~GitAdd, ~GitCommit
  PROVE  UNCHANGED <<staged, log>>
BY DEF GitNext, gitVars, Proceed, WriteManifest, WriteIndex, AnswerHead, Stop, BeginCommit,
       FindByRelease, CommitAgain

(* What a commit publishes.                                                 *)
LEMMA CommitPublishes ==
  ASSUME GitInv, StagedIsNew, GitCommit, NEW new, new = {b \in Bundle : New(b)}
  PROVE  /\ new # {}
         /\ \A b \in new : Main.indexes[b.release] = NoBundle
                           /\ staged.indexes[b.release] = b
         /\ \A r \in Releases : (\A b \in new : b.release # r)
                                  => staged.indexes[r] = Main.indexes[r]
         /\ \A p \in Paths : (\A b \in new : b.path # p)
                               => Cur(staged, p) = Cur(Main, p)
         /\ \A b \in new : Cur(staged, b.path) \in new
                           /\ Cur(staged, b.path).path = b.path
<1>1. new # {}
  <2>1. PICK b : b = commit.bundle
    OBVIOUS
  <2>2. commit.step = "commit" /\ b \in Bundle
    BY <2>1, CommitParts DEF GitInv, GitCommit
  <2>3. Holds(staged, b) /\ Main.indexes[b.release] = NoBundle
    BY <2>1, <2>2 DEF GitInv, CommitKnows
  <2>4. QED
    BY <2>2, <2>3 DEF New, Holds
<1>2. \A b \in new : Main.indexes[b.release] = NoBundle /\ staged.indexes[b.release] = b
  BY DEF New
<1>3. ASSUME NEW r \in Releases, \A b \in new : b.release # r
      PROVE  staged.indexes[r] = Main.indexes[r]
  <2>1. SUFFICES ASSUME staged.indexes[r] # NoBundle, Main.indexes[r] = NoBundle
                 PROVE  FALSE
    BY DEF GitInv, IndexesFlow
  <2>2. PICK b : b = staged.indexes[r]
    OBVIOUS
  <2>3. b \in Bundle
    BY <2>1, <2>2, TreeParts DEF GitInv, GitTypeOK, Slot
  <2>4. b.release = r
    BY <2>1, <2>2 DEF GitInv, IndexesFlow
  <2>5. QED
    BY <1>3, <2>1, <2>2, <2>3, <2>4 DEF New
<1>4. ASSUME NEW p \in Paths, New(Cur(staged, p))
      PROVE  Cur(staged, p).path = p /\ Cur(staged, p) \in new
  <2>1. PICK b : b = Cur(staged, p)
    OBVIOUS
  <2>2. b \in Bundle /\ b # NoBundle /\ b \in new
    BY <1>4, <2>1, BundleIsSome DEF New
  <2>3. PICK c \in Slot : /\ \A f \in ManifestFile : staged.files[p][f] = c
                          /\ c # NoBundle => c.path = p
    BY DEF GitInv, Whole, WholeAt
  <2>4. b = c
    BY <2>1, <2>3 DEF Cur, ManifestFile
  <2>5. QED
    BY <2>1, <2>2, <2>3, <2>4
<1>5. ASSUME NEW p \in Paths, \A b \in new : b.path # p
      PROVE  Cur(staged, p) = Cur(Main, p)
  BY <1>4, <1>5 DEF StagedIsNew
<1>6. ASSUME NEW b \in new
      PROVE  Cur(staged, b.path) \in new /\ Cur(staged, b.path).path = b.path
  <2>1. b \in Bundle /\ b.path \in Paths /\ New(Cur(staged, b.path))
    BY BundleIsSome DEF StagedIsNew
  <2>2. QED
    BY <1>4, <2>1
<1>7. QED
  BY <1>1, <1>2, <1>3, <1>5, <1>6

LEMMA CommitRefines ==
  ASSUME GitInv, StagedIsNew, GitCommit
  PROVE  \E new \in SUBSET Bundle : Manifests!Publish(new)
<1>1. PICK new \in SUBSET Bundle : new = {b \in Bundle : New(b)}
  OBVIOUS
<1>2. /\ new # {}
      /\ \A b \in new : Main.indexes[b.release] = NoBundle /\ staged.indexes[b.release] = b
      /\ \A r \in Releases : (\A b \in new : b.release # r)
                               => staged.indexes[r] = Main.indexes[r]
      /\ \A p \in Paths : (\A b \in new : b.path # p) => Cur(staged, p) = Cur(Main, p)
      /\ \A b \in new : Cur(staged, b.path) \in new
                        /\ Cur(staged, b.path).path = b.path
  BY <1>1, CommitPublishes
<1>3. TreeAt(Len(log))' = staged /\ TreeAt(Len(log)) = Main /\ staged \in Trees
  BY StagedNewCommit DEF Main, GitInv, GitTypeOK
<1>4. Manifests!Publish(new)
  <2>1. \A b, c \in new : b.release = c.release => b = c
    BY <1>2
  <2>2. staged.indexes = [r \in Releases |-> IF \E b \in new : b.release = r
                                               THEN CHOOSE b \in new : b.release = r
                                               ELSE Main.indexes[r]]
    <3>1. ASSUME NEW r \in Releases
          PROVE  staged.indexes[r] = IF \E b \in new : b.release = r
                                       THEN CHOOSE b \in new : b.release = r
                                       ELSE Main.indexes[r]
      <4>1. CASE \E b \in new : b.release = r
        <5>1. PICK b : b = CHOOSE c \in new : c.release = r
          OBVIOUS
        <5>2. b \in new /\ b.release = r
          BY <4>1, <5>1
        <5>3. QED
          BY <1>2, <4>1, <5>1, <5>2
      <4>2. CASE ~ \E b \in new : b.release = r
        BY <1>2, <4>2
      <4>3. QED
        BY <4>1, <4>2
    <3>2. staged.indexes \in [Releases -> Slot]
      BY <1>3, TreeParts
    <3>3. QED
      BY <3>1, <3>2
  <2>3. [p \in Paths |-> Cur(staged, p)] \in [Paths -> Bundle \cup {NoBundle}]
    BY <1>3, TreeParts DEF Cur, Slot, ManifestFile
  <2>4. ASSUME NEW p \in Paths
        PROVE  IF \E b \in new : b.path = p
                 THEN Cur(staged, p) \in {b \in new : b.path = p}
                 ELSE Cur(staged, p) = Cur(Main, p)
    BY <1>2
  <2>5. Manifests!Releases = Releases /\ Manifests!Paths = Paths
    BY DEF Releases, Paths, Manifests!Releases, Manifests!Paths
  <2>6. \A b \in new : Main.indexes[b.release] = NoBundle
    BY <1>2
  <2>7. QED
    BY <1>2, <1>3, <2>1, <2>2, <2>3, <2>4, <2>5, <2>6 DEF Manifests!Publish, Cur
<1>5. QED
  BY <1>4

(* ImplementsManifestLedger: what git commit does to the main branch is one *)
(* step of ManifestLedger, whoever staged what it commits, and no other     *)
(* step touches the main branch.                                            *)
THEOREM ManifestRefinement == GitSpec => ImplementsManifestLedger
<1>1. GitInit => StagedIsNew /\ Manifests!ManifestInit
  <2>1. SUFFICES ASSUME GitInit PROVE StagedIsNew /\ Manifests!ManifestInit
    OBVIOUS
  <2>2. staged = NoTree /\ Len(log) = 0 /\ Main = NoTree /\ TreeAt(Len(log)) = NoTree
    BY <2>1 DEF GitInit, Main, TreeAt
  <2>3. \A b \in Bundle : ~New(b)
    BY <2>2, NoTreeIsEmpty, BundleIsSome DEF New
  <2>4. StagedIsNew
    BY <2>2, <2>3 DEF StagedIsNew
  <2>5. Manifests!ManifestInit
    BY <2>2 DEF Manifests!ManifestInit, Manifests!Releases, Manifests!Paths, Releases, Paths,
                NoTree, ManifestFile
  <2>6. QED
    BY <2>4, <2>5
<1>2. ASSUME GitInv, StagedIsNew, [GitNext]_gitVars
      PROVE  StagedIsNew' /\ [\E new \in SUBSET Bundle : Manifests!Publish(new)]_(Manifests!manifestVars)
  <2>1. CASE GitAdd
    <3>1. UNCHANGED log
      BY <2>1 DEF GitAdd
    <3>2. UNCHANGED Manifests!manifestVars
      BY <3>1 DEF Manifests!manifestVars, TreeAt
    <3>3. QED
      BY <1>2, <2>1, <3>2, StagedNewAdd
  <2>2. CASE GitCommit
    BY <1>2, <2>2, StagedNewCommit, CommitRefines
  <2>3. CASE ~GitAdd /\ ~GitCommit
    <3>1. UNCHANGED <<staged, log>>
      BY <1>2, <2>3, OtherSteps
    <3>2. UNCHANGED Manifests!manifestVars
      BY <3>1 DEF Manifests!manifestVars, TreeAt
    <3>3. QED
      BY <1>2, <3>1, <3>2, StagedNewKept
  <2>4. QED
    BY <2>1, <2>2, <2>3
<1>3. QED
  BY <1>1, <1>2, GitInvariance, PTL DEF GitSpec, ImplementsManifestLedger, Manifests!ManifestSpec
=============================================================================
