----------------------------- MODULE Source_proofs -----------------------------
(***************************************************************************)
(* Proofs about SourceControl, for any number of repositories, calls,       *)
(* deliveries, passes, webhooks and provider projects, and about            *)
(* SourceWorkspace, for any number of workspaces, calls and commits.        *)
(*                                                                         *)
(* SourceControl: what links a repository to the provider only grows       *)
(* (Kept): an attached id stays, a provider project keeps its correlation  *)
(* and its protection, branches gain commits, sent webhooks stay sent.     *)
(* What a call, a delivery or a pass holds was true of the provider when    *)
(* it was read (CallsHold, HandlesHold, PassesHold), and being a lower     *)
(* bound on something that grows it is still true when it is stored.       *)
(*                                                                         *)
(* SourceWorkspace: a copy of a row that is as new as the row says the      *)
(* same (CopyOf), so what a call saves is what its stage makes of the row   *)
(* (StageHolds, RowHolds), and no two calls hold one credential             *)
(* (CredentialInv).  Every step of a call is an Effect.                     *)
(***************************************************************************)
EXTENDS SourceControl, SourceWorkspace, FiniteSetTheorems, TLAPS

(* A call that goes on with a provider project holds one that was created   *)
(* for its repository, and attaches it only once it is protected.           *)
CallHolds(c) ==
  /\ provision[c].pc # "idle" => provision[c].repository \in Repository
  /\ provision[c].pc \in {"protecting", "attaching"} =>
       /\ provision[c].remote \in Remote
       /\ remote[provision[c].remote].repository = provision[c].repository
  /\ provision[c].pc = "attaching" => remote[provision[c].remote].protected

CallsHold == \A c \in Caller : CallHolds(c)

(* A delivery in progress holds a head at least as new as its own push.     *)
HandleHolds(h) ==
  handle[h] # NoHandle =>
    /\ handle[h].webhook \in Pushes
    /\ handle[h].repository \in Repository
    /\ repository[handle[h].repository].remote = handle[h].webhook.remote
    /\ handle[h].commit \in Commits
    /\ handle[h].commit.remote = handle[h].webhook.remote
    /\ handle[h].commit.number >= handle[h].webhook.after

HandlesHold == \A h \in Handler : HandleHolds(h)

(* A pass works on attached repositories and holds a commit of their own.   *)
PassHolds(c) ==
  /\ \A r \in reconcile[c].todo : repository[r].remote # None
  /\ reconcile[c].repository # None =>
       /\ repository[reconcile[c].repository].remote # None
       /\ reconcile[c].commit \in Commits
       /\ reconcile[c].commit.remote =
            repository[reconcile[c].repository].remote

PassesHold == \A c \in Reconciler : PassHolds(c)

(* Default branches are empty until their project exists, and a webhook is  *)
(* sent of a push that was made.                                            *)
ProviderHolds ==
  /\ \A i \in Remote :
       IF remote[i].repository = None THEN head[i][Main] = 0
       ELSE head[i][Main] > 0
  /\ \A w \in sent : w \in Pushes => w.after <= head[w.remote][w.branch]

SourceInv ==
  /\ TypeOK
  /\ CallsHold
  /\ HandlesHold
  /\ PassesHold
  /\ ProviderHolds
  /\ HeadsOfOwnProject
  /\ DeliveredOnce

(* What only grows.                                                         *)
Kept ==
  /\ \A r \in Repository : repository[r].remote # None =>
       repository'[r].remote = repository[r].remote
  /\ \A i \in Remote : remote[i].repository # None =>
       /\ remote'[i].repository = remote[i].repository
       /\ remote[i].protected => remote'[i].protected
  /\ \A i \in Remote, b \in Branch : head'[i][b] >= head[i][b]
  /\ sent \subseteq sent'

USE MainAssumption, BoundAssumption, NoneAssumption

(* A webhook is a push or a merge request event by its kind, and never the  *)
(* empty receipt.                                                           *)
LEMMA WebhookKinds ==
  ASSUME NEW w \in Webhooks
  PROVE  /\ w.kind = "push" => w \in Pushes
         /\ w.kind = "merge_request" => w \in MergeRequestEvents
         /\ w \in Pushes <=> w.kind = "push"
         /\ w # NoWebhook
         /\ w.id \in Event
BY DEF Webhooks, Pushes, MergeRequestEvents, NoWebhook

(* The initial state satisfies the invariant.                               *)
LEMMA InitHolds == Init => SourceInv
<1> SUFFICES ASSUME Init PROVE SourceInv
  OBVIOUS
<1>1. TypeOK
  BY DEF Init, TypeOK, NoRepository, NoCall, NoHandle, NoPass, NoRemote,
         RepositoryStates
<1>2. CallsHold /\ PassesHold
  BY DEF Init, CallsHold, CallHolds, PassesHold, PassHolds, NoCall, NoPass
<1>3. HandlesHold
  BY DEF Init, HandlesHold, HandleHolds
<1>4. ProviderHolds
  BY DEF Init, ProviderHolds, NoRemote
<1>5. HeadsOfOwnProject /\ DeliveredOnce
  BY DEF Init, HeadsOfOwnProject, DeliveredOnce, NoRepository, NoCommit, Ready
<1> QED
  BY <1>1, <1>2, <1>3, <1>4, <1>5 DEF SourceInv

(* The actions change disjoint parts of the state: what each group leaves   *)
(* alone is stated once.                                                    *)
LEMMA TypesProjects ==
  ASSUME SourceInv, NEW r \in Repository, NEW s \in Slug,
         CreateProject(r, s) \/ RenameProject(r, s)
  PROVE  TypeOK'
<1>1. CASE CreateProject(r, s)
  BY <1>1 DEF SourceInv, TypeOK, CreateProject, SetState, calls, provider,
              RepositoryStates
<1>2. CASE RenameProject(r, s)
  BY <1>2 DEF SourceInv, TypeOK, RenameProject, calls, provider
<1> QED
  BY <1>1, <1>2

LEMMA GoOnTypes ==
  ASSUME TypeOK, NEW c \in Caller, NEW i \in Remote \cup {None},
         NEW pc \in {"creating", "finding", "failing", "protecting", "attaching"},
         GoOn(c, pc, i)
  PROVE  provision' \in
           [Caller -> [pc : {"idle", "creating", "finding", "failing",
                             "protecting", "attaching"},
                       repository : Repository \cup {None},
                       slug : Slug \cup {None}, remote : Remote \cup {None}]]
BY DEF TypeOK, GoOn

LEMMA TypesCalls ==
  ASSUME SourceInv, NEW c \in Caller,
         \/ \E r \in Repository : BeginProvisioning(c, r)
         \/ \E i \in Remote : CreateRemote(c, i) \/ FindRemote(c, i)
         \/ CreateFails(c) \/ FindFails(c) \/ FailProvisioning(c)
         \/ ProtectBranch(c) \/ AttachProvider(c) \/ StopProvision(c)
  PROVE  TypeOK'
<1> USE DEF SourceInv, TypeOK
<1>0. NoCall \in [pc : {"idle", "creating", "finding", "failing",
                        "protecting", "attaching"},
                  repository : Repository \cup {None},
                  slug : Slug \cup {None}, remote : Remote \cup {None}]
  BY DEF NoCall
<1>1. ASSUME NEW r \in Repository, BeginProvisioning(c, r)
      PROVE  TypeOK'
  BY <1>1 DEF BeginProvisioning, SetState, provider, RepositoryStates
<1>2. ASSUME NEW i \in Remote, CreateRemote(c, i)
      PROVE  TypeOK'
  <2>1. head' \in [Remote -> [Branch -> 0..MaxCommits]]
    <3>1. [head[i] EXCEPT ![Main] = 1] \in [Branch -> 0..MaxCommits]
      OBVIOUS
    <3> QED
      BY <1>2, <3>1 DEF CreateRemote
  <2>2. remote' \in [Remote -> [repository : Repository \cup {None},
                                path : Slug \cup {None},
                                protected : BOOLEAN]]
    <3>1. /\ provision[c].repository \in Repository \cup {None}
          /\ provision[c].slug \in Slug \cup {None}
      OBVIOUS
    <3> QED
      BY <1>2, <3>1 DEF CreateRemote
  <2>3. provision' \in
          [Caller -> [pc : {"idle", "creating", "finding", "failing",
                            "protecting", "attaching"},
                      repository : Repository \cup {None},
                      slug : Slug \cup {None}, remote : Remote \cup {None}]]
    BY <1>2, GoOnTypes DEF CreateRemote
  <2> QED
    BY <1>2, <2>1, <2>2, <2>3 DEF CreateRemote, records
<1>3. ASSUME NEW i \in Remote, FindRemote(c, i)
      PROVE  TypeOK'
  BY <1>3 DEF FindRemote, GoOn, records, provider
<1>4. CASE CreateFails(c)
  BY <1>4 DEF CreateFails, GoOn, records, provider
<1>5. CASE FindFails(c)
  BY <1>5 DEF FindFails, GoOn, records, provider
<1>6. CASE FailProvisioning(c)
  <2>1. provision[c].repository \in Repository
    BY <1>6 DEF FailProvisioning, CallsHold, CallHolds
  <2> QED
    BY <1>0, <1>6, <2>1 DEF FailProvisioning, SetState, provider, RepositoryStates
<1>7. CASE ProtectBranch(c)
  BY <1>7 DEF ProtectBranch, GoOn, records
<1>8. CASE AttachProvider(c)
  BY <1>0, <1>8 DEF AttachProvider, provider, RepositoryStates
<1>9. CASE StopProvision(c)
  BY <1>0, <1>9 DEF StopProvision, records, provider
<1> QED
  BY <1>1, <1>2, <1>3, <1>4, <1>5, <1>6, <1>7, <1>8, <1>9

LEMMA TypesDeliveries ==
  ASSUME SourceInv,
         \/ \E h \in Handler :
              \/ \E w \in sent, r \in Repository : ReadHead(h, w, r)
              \/ HandlePush(h) \/ StopHandler(h)
         \/ \E w \in sent, r \in Repository : HandleMergeRequest(w, r)
  PROVE  TypeOK'
<1> USE DEF SourceInv, TypeOK
<1>0. NoHandle \in [webhook : Pushes \cup {NoWebhook},
                    repository : Repository \cup {None},
                    commit : Commits \cup {NoCommit}]
  BY DEF NoHandle
<1>1. ASSUME NEW h \in Handler, NEW w \in sent, NEW r \in Repository,
             ReadHead(h, w, r)
      PROVE  TypeOK'
  <2>1. w \in Pushes
    BY <1>1, WebhookKinds DEF ReadHead
  <2>2. [remote |-> w.remote, number |-> head[w.remote][w.branch]] \in Commits
    BY <1>1, <2>1 DEF ReadHead, Pushes, Commits
  <2> QED
    BY <1>1, <2>1, <2>2 DEF ReadHead, records, provider
<1>2. ASSUME NEW h \in Handler, HandlePush(h)
      PROVE  TypeOK'
  <2>1. /\ handle[h].webhook \in Pushes
        /\ handle[h].webhook \in Webhooks
        /\ handle[h].repository \in Repository
        /\ handle[h].commit \in Commits
    BY <1>2 DEF HandlePush, HandlesHold, HandleHolds, Webhooks
  <2>2. handle[h].webhook.id \in Event /\ handle[h].webhook.branch \in Branch
    BY <2>1 DEF Pushes
  <2>3. /\ receipt' \in [Event -> Webhooks \cup {NoWebhook}]
        /\ emitted' \in [Event -> Nat]
        /\ branch' \in [Repository -> [Branch -> Commits \cup {NoCommit}]]
    <3>1. CASE Fresh(handle[h].webhook)
      <4> DEFINE r == handle[h].repository
                 b == handle[h].webhook.branch
      <4>1. [branch[r] EXCEPT ![b] = handle[h].commit]
              \in [Branch -> Commits \cup {NoCommit}]
        BY <2>1, <2>2
      <4>2. branch' = [branch EXCEPT ![r] =
                         [branch[r] EXCEPT ![b] = handle[h].commit]]
        BY <1>2, <3>1 DEF HandlePush
      <4>3. branch' \in [Repository -> [Branch -> Commits \cup {NoCommit}]]
        BY <2>1, <4>1, <4>2
      <4>4. /\ receipt' \in [Event -> Webhooks \cup {NoWebhook}]
            /\ emitted' \in [Event -> Nat]
        <5> DEFINE w == handle[h].webhook
        <5>1. /\ receipt' = [receipt EXCEPT ![w.id] = w]
              /\ emitted' = [emitted EXCEPT ![w.id] = @ + 1]
          BY <1>2, <3>1 DEF HandlePush, Receive
        <5>2. w \in Webhooks /\ w.id \in Event
          BY <2>1, <2>2
        <5> HIDE DEF w
        <5> QED
          BY <5>1, <5>2
      <4> QED
        BY <4>3, <4>4
    <3>2. CASE ~Fresh(handle[h].webhook)
      BY <1>2, <3>2 DEF HandlePush
    <3> QED
      BY <3>1, <3>2
  <2> QED
    BY <1>0, <1>2, <2>3 DEF HandlePush, provider
<1>3. ASSUME NEW h \in Handler, StopHandler(h)
      PROVE  TypeOK'
  BY <1>0, <1>3 DEF StopHandler, records, provider
<1>4. ASSUME NEW w \in sent, NEW r \in Repository, HandleMergeRequest(w, r)
      PROVE  TypeOK'
  <2>1. w \in Webhooks /\ w \in MergeRequestEvents /\ w.id \in Event
    BY <1>4, WebhookKinds DEF HandleMergeRequest
  <2>2. w.iid \in MergeRequest /\ w.state \in MergeRequestStates
    BY <2>1 DEF MergeRequestEvents
  <2> QED
    BY <1>4, <2>1, <2>2 DEF HandleMergeRequest, Receive, calls, provider
<1> QED
  BY <1>1, <1>2, <1>3, <1>4

LEMMA TypesPasses ==
  ASSUME SourceInv, NEW c \in Reconciler,
         \/ ListRepositories(c) \/ SyncRepository(c) \/ StopPass(c)
         \/ \E r \in Repository : ReadRemote(c, r) \/ SkipRepository(c, r)
  PROVE  TypeOK'
<1> USE DEF SourceInv, TypeOK
<1>1. CASE ListRepositories(c)
  BY <1>1 DEF ListRepositories, records, provider
<1>2. CASE SyncRepository(c)
  <2>1. /\ reconcile[c].repository \in Repository
        /\ reconcile[c].commit \in Commits
    BY <1>2 DEF SyncRepository, PassesHold, PassHolds
  <2> QED
    <3>1. branch' \in [Repository -> [Branch -> Commits \cup {NoCommit}]]
      BY <1>2, <2>1 DEF SyncRepository
    <3>2. reconcile' \in [Reconciler -> [todo : SUBSET Repository,
                                         repository : Repository \cup {None},
                                         commit : Commits \cup {NoCommit}]]
      BY <1>2 DEF SyncRepository
    <3> QED
      BY <1>2, <3>1, <3>2 DEF SyncRepository, provider
<1>3. CASE StopPass(c)
  BY <1>3 DEF StopPass, NoPass, records, provider
<1>4. ASSUME NEW r \in Repository, ReadRemote(c, r)
      PROVE  TypeOK'
  <2>1. repository[r].remote \in Remote /\ head[repository[r].remote][Main] > 0
    BY <1>4 DEF ReadRemote, PassesHold, PassHolds, HeadsOfOwnProject, ProviderHolds
  <2>2. [remote |-> repository[r].remote,
         number |-> head[repository[r].remote][Main]] \in Commits
    BY <2>1 DEF Commits
  <2> QED
    BY <1>4, <2>2 DEF ReadRemote, records, provider
<1>5. ASSUME NEW r \in Repository, SkipRepository(c, r)
      PROVE  TypeOK'
  BY <1>5 DEF SkipRepository, records, provider
<1> QED
  BY <1>1, <1>2, <1>3, <1>4, <1>5

LEMMA TypesProvider ==
  ASSUME SourceInv, NEW i \in Remote, NEW e \in Event,
         \/ \E b \in Branch : Push(i, b, e)
         \/ \E m \in MergeRequest, s \in MergeRequestStates :
              ChangeMergeRequest(i, m, s, e)
  PROVE  TypeOK'
<1> USE DEF SourceInv, TypeOK
<1>1. ASSUME NEW b \in Branch, Push(i, b, e)
      PROVE  TypeOK'
  <2>1. head[i][b] \in 0..MaxCommits /\ head[i][b] + 1 \in 1..MaxCommits
    BY <1>1 DEF Push
  <2>2. [kind |-> "push", id |-> e, remote |-> i, branch |-> b,
         after |-> head[i][b] + 1] \in Webhooks
    BY <2>1 DEF Webhooks, Pushes
  <2> QED
    BY <1>1, <2>1, <2>2 DEF Push, records, calls
<1>2. ASSUME NEW m \in MergeRequest, NEW s \in MergeRequestStates,
             ChangeMergeRequest(i, m, s, e)
      PROVE  TypeOK'
  <2>1. [kind |-> "merge_request", id |-> e, remote |-> i, iid |-> m,
         state |-> s] \in Webhooks
    BY DEF Webhooks, MergeRequestEvents
  <2> QED
    BY <1>2, <2>1 DEF ChangeMergeRequest, records, calls
<1> QED
  BY <1>1, <1>2

(* Every step keeps the types.                                              *)
LEMMA TypesNext ==
  ASSUME SourceInv, [Next]_vars
  PROVE  TypeOK'
<1>1. CASE UNCHANGED vars
  BY <1>1 DEF SourceInv, TypeOK, vars, records, calls, provider
<1>2. CASE Next
  BY <1>2, TypesProjects, TypesCalls, TypesDeliveries, TypesPasses,
     TypesProvider DEF Next
<1> QED
  BY <1>1, <1>2

-----------------------------------------------------------------------------
(* What only grows.                                                         *)

LEMMA SetStateKeeps ==
  ASSUME TypeOK, NEW r \in Repository, NEW s, SetState(r, s)
  PROVE  \A q \in Repository : repository'[q].remote = repository[q].remote
BY DEF TypeOK, SetState

LEMMA UnchangedKeeps ==
  ASSUME TypeOK, UNCHANGED <<repository, provider>>
  PROVE  Kept
BY DEF TypeOK, Kept, provider

LEMMA KeptCalls ==
  ASSUME SourceInv, NEW c \in Caller,
         \/ \E r \in Repository : BeginProvisioning(c, r)
         \/ \E i \in Remote : CreateRemote(c, i) \/ FindRemote(c, i)
         \/ CreateFails(c) \/ FindFails(c) \/ FailProvisioning(c)
         \/ ProtectBranch(c) \/ AttachProvider(c) \/ StopProvision(c)
  PROVE  Kept
<1>0. TypeOK /\ CallsHold /\ ProviderHolds
  BY DEF SourceInv
<1>1. ASSUME NEW r \in Repository, BeginProvisioning(c, r)
      PROVE  Kept
  BY <1>0, <1>1, SetStateKeeps DEF BeginProvisioning, provider, Kept, TypeOK
<1>2. ASSUME NEW i \in Remote, CreateRemote(c, i)
      PROVE  Kept
  <2>1. remote[i].repository = None /\ head[i][Main] = 0
    BY <1>0, <1>2 DEF CreateRemote, Exists, ProviderHolds
  <2>2. \A j \in Remote : remote[j].repository # None => remote'[j] = remote[j]
    BY <1>0, <1>2, <2>1 DEF CreateRemote, TypeOK
  <2>3. \A j \in Remote, b \in Branch : head'[j][b] >= head[j][b]
    <3> SUFFICES ASSUME NEW j \in Remote, NEW b \in Branch
                 PROVE  head'[j][b] >= head[j][b]
      OBVIOUS
    <3>1. /\ head \in [Remote -> [Branch -> 0..MaxCommits]]
          /\ head' = [head EXCEPT ![i] = [head[i] EXCEPT ![Main] = 1]]
      BY <1>0, <1>2 DEF CreateRemote, TypeOK
    <3> QED
      BY <2>1, <3>1
  <2>4. UNCHANGED <<repository, sent>>
    BY <1>2 DEF CreateRemote, records
  <2> QED
    BY <2>2, <2>3, <2>4 DEF Kept
<1>3. ASSUME NEW i \in Remote, FindRemote(c, i)
      PROVE  Kept
  BY <1>0, <1>3, UnchangedKeeps DEF FindRemote, records
<1>4. CASE CreateFails(c)
  BY <1>0, <1>4, UnchangedKeeps DEF CreateFails, records
<1>5. CASE FindFails(c)
  BY <1>0, <1>5, UnchangedKeeps DEF FindFails, records
<1>6. CASE FailProvisioning(c)
  <2>1. provision[c].repository \in Repository
    BY <1>0, <1>6 DEF FailProvisioning, CallsHold, CallHolds
  <2> QED
    BY <1>0, <1>6, <2>1, SetStateKeeps
       DEF FailProvisioning, provider, Kept, TypeOK
<1>7. CASE ProtectBranch(c)
  <2>1. /\ UNCHANGED <<repository, head, sent>>
        /\ \A i \in Remote :
             /\ remote'[i].repository = remote[i].repository
             /\ remote[i].protected => remote'[i].protected
    BY <1>0, <1>7 DEF ProtectBranch, records, TypeOK
  <2> QED
    BY <1>0, <2>1 DEF Kept, TypeOK
<1>8. CASE AttachProvider(c)
  <2>1. \A q \in Repository : repository[q].remote # None =>
          repository'[q].remote = repository[q].remote
    BY <1>0, <1>8 DEF AttachProvider, MayAttach, TypeOK
  <2> QED
    BY <1>0, <1>8, <2>1 DEF AttachProvider, provider, Kept, TypeOK
<1>9. CASE StopProvision(c)
  BY <1>0, <1>9, UnchangedKeeps DEF StopProvision, records
<1> QED
  BY <1>1, <1>2, <1>3, <1>4, <1>5, <1>6, <1>7, <1>8, <1>9

LEMMA KeptNext ==
  ASSUME SourceInv, [Next]_vars
  PROVE  Kept
<1>0. TypeOK
  BY DEF SourceInv
<1>1. CASE UNCHANGED vars
  BY <1>0, <1>1, UnchangedKeeps DEF vars, records
<1>2. ASSUME NEW r \in Repository, NEW s \in Slug, CreateProject(r, s)
      PROVE  Kept
  BY <1>0, <1>2, SetStateKeeps DEF CreateProject, provider, Kept, TypeOK
<1>3. ASSUME NEW r \in Repository, NEW s \in Slug, RenameProject(r, s)
      PROVE  Kept
  BY <1>0, <1>3, UnchangedKeeps DEF RenameProject
<1>4. ASSUME NEW h \in Handler, NEW w \in sent, NEW r \in Repository,
             ReadHead(h, w, r)
      PROVE  Kept
  BY <1>0, <1>4, UnchangedKeeps DEF ReadHead, records
<1>5. ASSUME NEW h \in Handler, HandlePush(h) \/ StopHandler(h)
      PROVE  Kept
  BY <1>0, <1>5, UnchangedKeeps DEF HandlePush, StopHandler, records
<1>6. ASSUME NEW w \in sent, NEW r \in Repository, HandleMergeRequest(w, r)
      PROVE  Kept
  BY <1>0, <1>6, UnchangedKeeps DEF HandleMergeRequest
<1>7. ASSUME NEW c \in Reconciler,
             \/ ListRepositories(c) \/ SyncRepository(c) \/ StopPass(c)
             \/ \E r \in Repository : ReadRemote(c, r) \/ SkipRepository(c, r)
      PROVE  Kept
  BY <1>0, <1>7, UnchangedKeeps
     DEF ListRepositories, SyncRepository, StopPass, ReadRemote,
         SkipRepository, records
<1>8. ASSUME NEW i \in Remote, NEW e \in Event, NEW b \in Branch, Push(i, b, e)
      PROVE  Kept
  <2>1. \A j \in Remote, d \in Branch : head'[j][d] >= head[j][d]
    BY <1>0, <1>8 DEF Push, TypeOK
  <2> QED
    BY <1>0, <1>8, <2>1 DEF Push, records, Kept, TypeOK
<1>9. ASSUME NEW i \in Remote, NEW e \in Event, NEW m \in MergeRequest,
             NEW s \in MergeRequestStates, ChangeMergeRequest(i, m, s, e)
      PROVE  Kept
  BY <1>0, <1>9 DEF ChangeMergeRequest, records, Kept, TypeOK
<1> QED
  BY <1>1, <1>2, <1>3, <1>4, <1>5, <1>6, <1>7, <1>8, <1>9, KeptCalls DEF Next

-----------------------------------------------------------------------------
(* Calls of ProvisionRepository.                                            *)

(* What a call holds stays true while others work.                          *)
LEMMA CallStays ==
  ASSUME SourceInv, Kept, NEW c \in Caller, provision'[c] = provision[c]
  PROVE  CallHolds(c)'
<1>1. CallHolds(c) /\ provision[c].repository \in Repository \cup {None}
  BY DEF SourceInv, CallsHold, TypeOK
<1> QED
  BY <1>1 DEF CallHolds, Kept

LEMMA CallsNext ==
  ASSUME SourceInv, Kept, [Next]_vars
  PROVE  CallsHold'
<1> SUFFICES ASSUME NEW d \in Caller
             PROVE  CallHolds(d)'
  BY DEF CallsHold
<1>0. TypeOK /\ CallHolds(d)
  BY DEF SourceInv, CallsHold
<1>1. ASSUME NEW c \in Caller, c # d,
             \/ \E r \in Repository : BeginProvisioning(c, r)
             \/ \E i \in Remote : CreateRemote(c, i) \/ FindRemote(c, i)
             \/ CreateFails(c) \/ FindFails(c) \/ FailProvisioning(c)
             \/ ProtectBranch(c) \/ AttachProvider(c) \/ StopProvision(c)
      PROVE  CallHolds(d)'
  <2>1. provision'[d] = provision[d]
    BY <1>0, <1>1
       DEF TypeOK, BeginProvisioning, CreateRemote, FindRemote, CreateFails,
           FindFails, FailProvisioning, ProtectBranch, AttachProvider,
           StopProvision, GoOn
  <2> QED
    BY <2>1, CallStays
<1>2. ASSUME NEW r \in Repository, BeginProvisioning(d, r)
      PROVE  CallHolds(d)'
  BY <1>0, <1>2 DEF BeginProvisioning, TypeOK, CallHolds
<1>3. ASSUME NEW i \in Remote, CreateRemote(d, i)
      PROVE  CallHolds(d)'
  <2>1. /\ provision'[d].repository = provision[d].repository
        /\ \/ provision'[d].pc = "protecting" /\ provision'[d].remote = i
           \/ provision'[d].pc = "finding"
    BY <1>0, <1>3 DEF CreateRemote, GoOn, TypeOK
  <2>2. /\ provision[d].repository \in Repository
        /\ remote'[i].repository = provision[d].repository
    BY <1>0, <1>3 DEF CreateRemote, TypeOK, CallHolds
  <2> QED
    BY <2>1, <2>2 DEF CallHolds
<1>4. ASSUME NEW i \in Remote, FindRemote(d, i)
      PROVE  CallHolds(d)'
  <2>1. /\ provision'[d].repository = provision[d].repository
        /\ provision'[d].pc = "protecting" /\ provision'[d].remote = i
        /\ UNCHANGED remote
    BY <1>0, <1>4 DEF FindRemote, GoOn, TypeOK, provider
  <2> QED
    BY <1>0, <1>4, <2>1 DEF FindRemote, CallHolds
<1>5. CASE CreateFails(d) \/ FindFails(d)
  <2>1. /\ provision[d].pc # "idle"
        /\ provision'[d].repository = provision[d].repository
        /\ provision'[d].pc \in {"finding", "failing"}
    BY <1>0, <1>5 DEF CreateFails, FindFails, GoOn, TypeOK
  <2> QED
    BY <1>0, <2>1 DEF CallHolds
<1>6. CASE FailProvisioning(d) \/ AttachProvider(d) \/ StopProvision(d)
  <2>1. provision'[d].pc = "idle"
    BY <1>0, <1>6
       DEF FailProvisioning, AttachProvider, StopProvision, NoCall, TypeOK
  <2> QED
    BY <2>1 DEF CallHolds
<1>7. CASE ProtectBranch(d)
  <2>1. /\ provision'[d].repository = provision[d].repository
        /\ provision'[d].remote = provision[d].remote
        /\ provision'[d].pc = "attaching"
    BY <1>0, <1>7 DEF ProtectBranch, GoOn, TypeOK
  <2>2. /\ provision[d].repository \in Repository
        /\ provision[d].remote \in Remote
        /\ remote[provision[d].remote].repository = provision[d].repository
    BY <1>0, <1>7 DEF ProtectBranch, CallHolds
  <2>3. /\ remote'[provision[d].remote].repository = provision[d].repository
        /\ remote'[provision[d].remote].protected
    BY <1>0, <1>7, <2>2 DEF ProtectBranch, TypeOK
  <2> QED
    BY <2>1, <2>2, <2>3 DEF CallHolds
<1>8. CASE UNCHANGED provision
  BY <1>8, CallStays
<1>9. CASE UNCHANGED vars
  BY <1>8, <1>9 DEF vars, calls
<1>10. ASSUME NEW h \in Handler, NEW w \in sent, NEW r \in Repository,
              ReadHead(h, w, r)
       PROVE  CallHolds(d)'
  BY <1>8, <1>10 DEF ReadHead
<1>11. CASE Next
  BY <1>1, <1>2, <1>3, <1>4, <1>5, <1>6, <1>7, <1>8, <1>10, <1>11
     DEF Next, CreateProject, RenameProject, HandlePush, StopHandler,
         HandleMergeRequest, ListRepositories, SyncRepository, StopPass,
         ReadRemote, SkipRepository, Push, ChangeMergeRequest, calls
<1> QED
  BY <1>9, <1>11

-----------------------------------------------------------------------------
(* Deliveries and passes.                                                   *)

LEMMA HandleStays ==
  ASSUME SourceInv, Kept, NEW h \in Handler, handle'[h] = handle[h]
  PROVE  HandleHolds(h)'
<1>1. HandleHolds(h)
  BY DEF SourceInv, HandlesHold
<1>2. handle[h] # NoHandle => handle[h].webhook.remote # None
  BY <1>1 DEF HandleHolds, Pushes
<1> QED
  BY <1>1, <1>2 DEF HandleHolds, Kept

LEMMA HandlesNext ==
  ASSUME SourceInv, Kept, [Next]_vars
  PROVE  HandlesHold'
<1> SUFFICES ASSUME NEW g \in Handler
             PROVE  HandleHolds(g)'
  BY DEF HandlesHold
<1>0. TypeOK /\ ProviderHolds
  BY DEF SourceInv
<1>1. CASE UNCHANGED handle
  BY <1>1, HandleStays
<1>2. ASSUME NEW h \in Handler, NEW w \in sent, NEW r \in Repository,
             ReadHead(h, w, r)
      PROVE  HandleHolds(g)'
  <2>1. CASE g # h
    BY <1>0, <1>2, <2>1, HandleStays DEF ReadHead, TypeOK
  <2>2. CASE g = h
    <3>1. w \in Pushes
      BY <1>0, <1>2, WebhookKinds DEF ReadHead, TypeOK
    <3>2. /\ w.remote \in Remote /\ w.branch \in Branch
          /\ head[w.remote][w.branch] \in 1..MaxCommits
          /\ w.after <= head[w.remote][w.branch]
          /\ repository[r].remote = w.remote
      BY <1>0, <1>2, <3>1 DEF ReadHead, Pushes, TypeOK, ProviderHolds
    <3>3. /\ handle'[g] =
               [webhook |-> w, repository |-> r,
                commit |-> [remote |-> w.remote,
                            number |-> head[w.remote][w.branch]]]
          /\ UNCHANGED repository
      BY <1>0, <1>2, <2>2 DEF ReadHead, records, TypeOK
    <3> QED
      BY <3>1, <3>2, <3>3 DEF HandleHolds, Commits, Pushes
  <2> QED
    BY <2>1, <2>2
<1>3. ASSUME NEW h \in Handler, HandlePush(h) \/ StopHandler(h)
      PROVE  HandleHolds(g)'
  <2>1. CASE g # h
    BY <1>0, <1>3, <2>1, HandleStays DEF HandlePush, StopHandler, TypeOK
  <2>2. CASE g = h
    BY <1>0, <1>3, <2>2 DEF HandlePush, StopHandler, TypeOK, HandleHolds
  <2> QED
    BY <2>1, <2>2
<1>4. CASE UNCHANGED vars
  BY <1>1, <1>4 DEF vars, calls
<1>5. CASE Next
  BY <1>1, <1>2, <1>3, <1>5
     DEF Next, CreateProject, RenameProject, BeginProvisioning, CreateRemote,
         CreateFails, FindRemote, FindFails, FailProvisioning, ProtectBranch,
         AttachProvider, StopProvision, HandleMergeRequest, ListRepositories,
         SyncRepository, StopPass, ReadRemote, SkipRepository, Push,
         ChangeMergeRequest, calls
<1> QED
  BY <1>4, <1>5

LEMMA PassStays ==
  ASSUME SourceInv, Kept, NEW c \in Reconciler, reconcile'[c] = reconcile[c]
  PROVE  PassHolds(c)'
<1>1. PassHolds(c) /\ reconcile[c].todo \subseteq Repository
      /\ reconcile[c].repository \in Repository \cup {None}
  BY DEF SourceInv, PassesHold, TypeOK
<1> QED
  BY <1>1 DEF PassHolds, Kept

LEMMA PassesNext ==
  ASSUME SourceInv, Kept, [Next]_vars
  PROVE  PassesHold'
<1> SUFFICES ASSUME NEW d \in Reconciler
             PROVE  PassHolds(d)'
  BY DEF PassesHold
<1>0. TypeOK /\ ProviderHolds /\ HeadsOfOwnProject /\ PassHolds(d)
  BY DEF SourceInv, PassesHold
<1>1. CASE UNCHANGED reconcile
  BY <1>1, PassStays
<1>2. ASSUME NEW c \in Reconciler, c # d,
             \/ ListRepositories(c) \/ SyncRepository(c) \/ StopPass(c)
             \/ \E r \in Repository : ReadRemote(c, r) \/ SkipRepository(c, r)
      PROVE  PassHolds(d)'
  <2>1. reconcile'[d] = reconcile[d]
    BY <1>0, <1>2 DEF ListRepositories, SyncRepository, StopPass, ReadRemote,
                      SkipRepository, TypeOK
  <2> QED
    BY <2>1, PassStays
<1>3. CASE ListRepositories(d)
  <2>1. /\ reconcile'[d].todo = {r \in Repository : Ready(r)}
        /\ reconcile'[d].repository = None
        /\ UNCHANGED repository
    BY <1>0, <1>3 DEF ListRepositories, records, TypeOK
  <2> QED
    BY <1>0, <2>1 DEF HeadsOfOwnProject, PassHolds
<1>4. CASE SyncRepository(d) \/ StopPass(d)
  <2>1. /\ reconcile'[d].todo \subseteq reconcile[d].todo
        /\ reconcile'[d].repository = None
        /\ UNCHANGED repository
    BY <1>0, <1>4 DEF SyncRepository, StopPass, NoPass, records, TypeOK
  <2> QED
    BY <1>0, <2>1 DEF PassHolds
<1>5. ASSUME NEW r \in Repository, ReadRemote(d, r)
      PROVE  PassHolds(d)'
  <2> DEFINE i == repository[r].remote
  <2>1. i \in Remote /\ head[i][Main] \in 1..MaxCommits
    <3>1. i \in Remote /\ remote[i].repository = r
      BY <1>0, <1>5 DEF ReadRemote, PassHolds, HeadsOfOwnProject, TypeOK
    <3>2. head[i][Main] > 0
      BY <1>0, <3>1 DEF ProviderHolds
    <3> QED
      BY <1>0, <3>1, <3>2 DEF TypeOK
  <2>2. /\ reconcile'[d] = [todo |-> reconcile[d].todo \ {r}, repository |-> r,
                            commit |-> [remote |-> i, number |-> head[i][Main]]]
        /\ UNCHANGED repository
    BY <1>0, <1>5 DEF ReadRemote, records, TypeOK
  <2> QED
    BY <1>0, <2>1, <2>2 DEF PassHolds, Commits
<1>6. ASSUME NEW r \in Repository, SkipRepository(d, r)
      PROVE  PassHolds(d)'
  <2>1. /\ reconcile'[d].todo \subseteq reconcile[d].todo
        /\ reconcile'[d].repository = None
        /\ UNCHANGED repository
    BY <1>0, <1>6 DEF SkipRepository, records, TypeOK
  <2> QED
    BY <1>0, <2>1 DEF PassHolds
<1>7. CASE UNCHANGED vars
  BY <1>1, <1>7 DEF vars, calls
<1>8. CASE Next
  BY <1>1, <1>2, <1>3, <1>4, <1>5, <1>6, <1>8
     DEF Next, CreateProject, RenameProject, BeginProvisioning, CreateRemote,
         CreateFails, FindRemote, FindFails, FailProvisioning, ProtectBranch,
         AttachProvider, StopProvision, ReadHead, HandlePush, StopHandler,
         HandleMergeRequest, Push, ChangeMergeRequest, calls
<1> QED
  BY <1>7, <1>8

LEMMA ProviderNext ==
  ASSUME SourceInv, Kept, [Next]_vars
  PROVE  ProviderHolds'
<1>0. TypeOK /\ ProviderHolds /\ CallsHold
  BY DEF SourceInv
<1>1. CASE UNCHANGED provider
  BY <1>0, <1>1 DEF ProviderHolds, provider
<1>2. \A w \in sent : w \in Pushes => w.after <= head'[w.remote][w.branch]
  <2> SUFFICES ASSUME NEW w \in sent, w \in Pushes
               PROVE  w.after <= head'[w.remote][w.branch]
    OBVIOUS
  <2>1. w.remote \in Remote /\ w.branch \in Branch /\ w.after \in 1..MaxCommits
    BY DEF Pushes
  <2>2. CASE UNCHANGED head
    BY <1>0, <2>2 DEF ProviderHolds
  <2>3. ASSUME NEW c \in Caller, NEW i \in Remote, CreateRemote(c, i)
        PROVE  w.after <= head'[w.remote][w.branch]
    <3>1. head \in [Remote -> [Branch -> 0..MaxCommits]]
          /\ head' = [head EXCEPT ![i] = [head[i] EXCEPT ![Main] = 1]]
      BY <1>0, <2>3 DEF CreateRemote, TypeOK
    <3>2. head'[w.remote][w.branch] \in 0..MaxCommits
      BY <2>1, <3>1
    <3> QED
      BY <1>0, <2>1, <3>1, <3>2 DEF ProviderHolds, Kept
  <2>4. ASSUME NEW i \in Remote, NEW e \in Event, NEW b \in Branch, Push(i, b, e)
        PROVE  w.after <= head'[w.remote][w.branch]
    <3>1. head \in [Remote -> [Branch -> 0..MaxCommits]]
          /\ head' = [head EXCEPT ![i] = [head[i] EXCEPT ![b] = head[i][b] + 1]]
          /\ head[i][b] < MaxCommits
      BY <1>0, <2>4 DEF Push, TypeOK
    <3>2. head'[w.remote][w.branch] \in 0..MaxCommits
      BY <2>1, <3>1
    <3> QED
      BY <1>0, <2>1, <3>1, <3>2 DEF ProviderHolds, Kept
  <2>5. CASE UNCHANGED vars
    BY <2>2, <2>5 DEF vars, provider
  <2>6. CASE Next
    BY <2>2, <2>3, <2>4, <2>6
       DEF Next, CreateProject, RenameProject, BeginProvisioning, CreateFails,
           FindRemote, FindFails, FailProvisioning, ProtectBranch,
           AttachProvider, StopProvision, ReadHead, HandlePush, StopHandler,
           HandleMergeRequest, ListRepositories, SyncRepository, StopPass,
           ReadRemote, SkipRepository, ChangeMergeRequest, provider
  <2> QED
    BY <2>5, <2>6
<1>3. ASSUME NEW c \in Caller, NEW i \in Remote, CreateRemote(c, i)
      PROVE  ProviderHolds'
  <2>1. /\ provision[c].repository \in Repository
        /\ \A j \in Remote : j # i => remote'[j] = remote[j]
                                      /\ head'[j] = head[j]
        /\ remote'[i].repository = provision[c].repository
        /\ UNCHANGED sent
    BY <1>0, <1>3 DEF CreateRemote, TypeOK, CallsHold, CallHolds
  <2>2. head'[i][Main] = 1
    <3>1. head \in [Remote -> [Branch -> 0..MaxCommits]]
          /\ head' = [head EXCEPT ![i] = [head[i] EXCEPT ![Main] = 1]]
      BY <1>0, <1>3 DEF CreateRemote, TypeOK
    <3> QED
      BY <3>1
  <2>3. provision[c].repository # None
    BY <2>1
  <2> QED
    BY <1>0, <1>2, <2>1, <2>2, <2>3 DEF ProviderHolds
<1>4. ASSUME NEW c \in Caller, ProtectBranch(c)
      PROVE  ProviderHolds'
  <2>1. /\ \A i \in Remote : remote'[i].repository = remote[i].repository
        /\ UNCHANGED <<head, sent>>
    BY <1>0, <1>4 DEF ProtectBranch, TypeOK
  <2> QED
    BY <1>0, <2>1 DEF ProviderHolds
<1>5. ASSUME NEW i \in Remote, NEW e \in Event, NEW b \in Branch, Push(i, b, e)
      PROVE  ProviderHolds'
  <2>1. /\ head \in [Remote -> [Branch -> 0..MaxCommits]]
        /\ head' = [head EXCEPT ![i] = [head[i] EXCEPT ![b] = head[i][b] + 1]]
        /\ UNCHANGED remote
        /\ remote[i].repository # None
    BY <1>0, <1>5 DEF Push, Exists, TypeOK
  <2>3. \A j \in Remote : IF remote'[j].repository = None THEN head'[j][Main] = 0
                          ELSE head'[j][Main] > 0
    BY <1>0, <2>1 DEF ProviderHolds
  <2>4. \A w \in sent' : w \in Pushes => w.after <= head'[w.remote][w.branch]
    <3>1. head'[i][b] = head[i][b] + 1
      BY <2>1
    <3> QED
      BY <1>2, <1>5, <2>1, <3>1 DEF Push
  <2> QED
    BY <2>3, <2>4 DEF ProviderHolds
<1>6. ASSUME NEW i \in Remote, NEW e \in Event, NEW m \in MergeRequest,
             NEW s \in MergeRequestStates, ChangeMergeRequest(i, m, s, e)
      PROVE  ProviderHolds'
  <2>1. \A w \in sent' : w \in sent \/ w \notin Pushes
    BY <1>6 DEF ChangeMergeRequest, Pushes
  <2> QED
    BY <1>0, <1>6, <2>1 DEF ChangeMergeRequest, ProviderHolds
<1>7. CASE UNCHANGED vars
  BY <1>1, <1>7 DEF vars
<1>8. CASE Next
  BY <1>1, <1>3, <1>4, <1>5, <1>6, <1>8
     DEF Next, CreateProject, RenameProject, BeginProvisioning, CreateFails,
         FindRemote, FindFails, FailProvisioning, AttachProvider,
         StopProvision, ReadHead, HandlePush, StopHandler,
         HandleMergeRequest, ListRepositories, SyncRepository, StopPass,
         ReadRemote, SkipRepository
<1> QED
  BY <1>7, <1>8

-----------------------------------------------------------------------------
(* Repositories and the heads they record.                                  *)

LEMMA HeadsStay ==
  ASSUME SourceInv, Kept, UNCHANGED branch,
         \A r \in Repository :
           repository'[r].state = "READY" \/ repository'[r].remote # None =>
             \/ repository[r].remote # None
             \/ /\ repository'[r].remote # None
                /\ remote'[repository'[r].remote].repository = r
                /\ remote'[repository'[r].remote].protected
  PROVE  HeadsOfOwnProject'
<1>0. TypeOK /\ HeadsOfOwnProject
  BY DEF SourceInv
<1> SUFFICES ASSUME NEW r \in Repository
             PROVE  /\ repository'[r].remote # None =>
                         /\ remote'[repository'[r].remote].repository = r
                         /\ remote'[repository'[r].remote].protected
                    /\ repository'[r].state = "READY" =>
                         repository'[r].remote # None
                    /\ \A b \in Branch :
                         branch'[r][b].remote \in {None, repository'[r].remote}
  BY DEF HeadsOfOwnProject, Ready
<1>1. CASE repository[r].remote # None
  <2>1. /\ repository[r].remote \in Remote
        /\ repository'[r].remote = repository[r].remote
    BY <1>0, <1>1 DEF TypeOK, Kept
  <2>2. /\ remote[repository[r].remote].repository = r
        /\ remote[repository[r].remote].protected
        /\ \A b \in Branch : branch[r][b].remote \in {None, repository[r].remote}
    BY <1>0, <1>1 DEF HeadsOfOwnProject
  <2>3. /\ remote'[repository[r].remote].repository = r
        /\ remote'[repository[r].remote].protected
    BY <2>1, <2>2 DEF Kept
  <2> QED
    BY <1>1, <2>1, <2>2, <2>3
<1>2. CASE repository[r].remote = None
  <2>1. \A b \in Branch : branch'[r][b].remote = None
    BY <1>0, <1>2 DEF HeadsOfOwnProject
  <2> QED
    BY <1>2, <2>1
<1> QED
  BY <1>1, <1>2

LEMMA HeadsNext ==
  ASSUME SourceInv, Kept, [Next]_vars
  PROVE  HeadsOfOwnProject'
<1>0. TypeOK /\ HeadsOfOwnProject /\ CallsHold /\ HandlesHold /\ PassesHold
  BY DEF SourceInv
<1>1. ASSUME UNCHANGED <<repository, branch>>
      PROVE  HeadsOfOwnProject'
  BY <1>0, <1>1, HeadsStay DEF HeadsOfOwnProject, Ready
<1>2. ASSUME NEW r \in Repository, NEW s \in {"REQUESTED", "PROVISIONING", "FAILED"},
             SetState(r, s), UNCHANGED branch
      PROVE  HeadsOfOwnProject'
  <2>1. \A q \in Repository :
          /\ repository'[q].remote = repository[q].remote
          /\ repository'[q].state = "READY" => repository[q].state = "READY"
    BY <1>0, <1>2 DEF SetState, TypeOK
  <2> QED
    BY <1>0, <1>2, <2>1, HeadsStay DEF HeadsOfOwnProject, Ready
<1>3. ASSUME NEW c \in Caller, FailProvisioning(c)
      PROVE  HeadsOfOwnProject'
  <2>1. provision[c].repository \in Repository
    BY <1>0, <1>3 DEF FailProvisioning, CallsHold, CallHolds
  <2> QED
    BY <1>2, <1>3, <2>1 DEF FailProvisioning
<1>4. ASSUME NEW c \in Caller, AttachProvider(c)
      PROVE  HeadsOfOwnProject'
  <2> DEFINE r == provision[c].repository
             i == provision[c].remote
  <2>1. /\ r \in Repository /\ i \in Remote
        /\ remote[i].repository = r /\ remote[i].protected
    BY <1>0, <1>4 DEF AttachProvider, CallsHold, CallHolds
  <2>2. /\ repository' = [repository EXCEPT ![r] = [state |-> "READY", remote |-> i]]
        /\ UNCHANGED <<branch, remote>>
    BY <1>4 DEF AttachProvider, provider
  <2>3. repository'[r] = [state |-> "READY", remote |-> i]
        /\ \A q \in Repository : q # r => repository'[q] = repository[q]
    BY <1>0, <2>1, <2>2 DEF TypeOK
  <2>4. \A q \in Repository :
          repository'[q].state = "READY" \/ repository'[q].remote # None =>
             \/ repository[q].remote # None
             \/ /\ repository'[q].remote # None
                /\ remote'[repository'[q].remote].repository = q
                /\ remote'[repository'[q].remote].protected
    BY <1>0, <2>1, <2>2, <2>3 DEF HeadsOfOwnProject, Ready
  <2> QED
    BY <2>2, <2>4, HeadsStay
<1>5. ASSUME NEW r \in Repository, NEW b \in Branch, NEW k \in Commits,
             k.remote = repository[r].remote,
             branch' = [branch EXCEPT ![r] = [branch[r] EXCEPT ![b] = k]],
             UNCHANGED <<repository, remote>>
      PROVE  HeadsOfOwnProject'
  <2>1. \A q \in Repository, d \in Branch :
          branch'[q][d] = IF q = r /\ d = b THEN k ELSE branch[q][d]
    BY <1>0, <1>5 DEF TypeOK
  <2> QED
    BY <1>0, <1>5, <2>1 DEF HeadsOfOwnProject, Ready
<1>6. ASSUME NEW h \in Handler, HandlePush(h)
      PROVE  HeadsOfOwnProject'
  <2> DEFINE r == handle[h].repository
             w == handle[h].webhook
             k == handle[h].commit
  <2>1. /\ r \in Repository /\ w \in Pushes /\ k \in Commits
        /\ k.remote = repository[r].remote
    BY <1>0, <1>6 DEF HandlePush, HandlesHold, HandleHolds
  <2>2. w.branch \in Branch
    BY <2>1 DEF Pushes
  <2>3. CASE Fresh(w)
    BY <1>5, <1>6, <2>1, <2>2, <2>3 DEF HandlePush, provider
  <2>4. CASE ~Fresh(w)
    BY <1>1, <1>6, <2>4 DEF HandlePush
  <2> QED
    BY <2>3, <2>4
<1>7. ASSUME NEW c \in Reconciler, SyncRepository(c)
      PROVE  HeadsOfOwnProject'
  <2> DEFINE r == reconcile[c].repository
             k == reconcile[c].commit
  <2>1. /\ r \in Repository /\ k \in Commits
        /\ k.remote = repository[r].remote
    BY <1>0, <1>7 DEF SyncRepository, PassesHold, PassHolds, TypeOK
  <2> QED
    BY <1>5, <1>7, <2>1 DEF SyncRepository, provider
<1>8. CASE UNCHANGED vars
  BY <1>1, <1>8 DEF vars, records
<1>9. CASE Next
  BY <1>1, <1>2, <1>3, <1>4, <1>6, <1>7, <1>9
     DEF Next, CreateProject, RenameProject, BeginProvisioning, CreateRemote,
         CreateFails, FindRemote, FindFails, ProtectBranch, StopProvision,
         ReadHead, StopHandler, HandleMergeRequest, ListRepositories,
         StopPass, ReadRemote, SkipRepository, Push, ChangeMergeRequest,
         records
<1> QED
  BY <1>8, <1>9

-----------------------------------------------------------------------------
(* Receipts.                                                                *)

(* A receipt is stored once, of a webhook that is handled, with the source  *)
(* event; a push is stored with a head that includes it.                    *)
LEMMA ReceiptSteps ==
  ASSUME SourceInv, [Next]_vars
  PROVE  \/ UNCHANGED <<receipt, emitted>>
         \/ \E w \in Webhooks :
              /\ Fresh(w) /\ Receive(w)
              /\ w \in Pushes =>
                   \E r \in Repository :
                     /\ branch'[r][w.branch].remote = w.remote
                     /\ branch'[r][w.branch].number >= w.after
<1>0. TypeOK /\ HandlesHold
  BY DEF SourceInv
<1>1. ASSUME NEW h \in Handler, HandlePush(h), Fresh(handle[h].webhook)
      PROVE  \E w \in Webhooks :
              /\ Fresh(w) /\ Receive(w)
              /\ \E r \in Repository :
                   /\ branch'[r][w.branch].remote = w.remote
                   /\ branch'[r][w.branch].number >= w.after
  <2> DEFINE r == handle[h].repository
             w == handle[h].webhook
             k == handle[h].commit
  <2>1. /\ r \in Repository /\ w \in Pushes /\ k \in Commits
        /\ k.remote = w.remote /\ k.number >= w.after
    BY <1>0, <1>1 DEF HandlePush, HandlesHold, HandleHolds
  <2>2. w.branch \in Branch /\ w \in Webhooks
    BY <2>1 DEF Pushes, Webhooks
  <2>3. /\ Receive(w)
        /\ branch' = [branch EXCEPT ![r] = [branch[r] EXCEPT ![w.branch] = k]]
    BY <1>1 DEF HandlePush
  <2>4. branch'[r][w.branch] = k
    BY <1>0, <2>1, <2>2, <2>3 DEF TypeOK
  <2> HIDE DEF r, w, k
  <2>5. Fresh(w)
    BY <1>1 DEF w
  <2> QED
    BY <2>1, <2>2, <2>3, <2>4, <2>5
<1>2. ASSUME NEW w \in sent, NEW r \in Repository, HandleMergeRequest(w, r)
      PROVE  w \in Webhooks /\ Fresh(w) /\ Receive(w) /\ w \notin Pushes
  BY <1>0, <1>2 DEF HandleMergeRequest, TypeOK, Pushes
<1>3. CASE UNCHANGED vars
  BY <1>3 DEF vars, records
<1>4. CASE Next
  BY <1>1, <1>2, <1>4
     DEF Next, CreateProject, RenameProject, BeginProvisioning, CreateRemote,
         CreateFails, FindRemote, FindFails, FailProvisioning, ProtectBranch,
         AttachProvider, StopProvision, ReadHead, HandlePush, StopHandler,
         ListRepositories, SyncRepository, StopPass, ReadRemote,
         SkipRepository, Push, ChangeMergeRequest, records
<1> QED
  BY <1>3, <1>4

LEMMA DeliveredNext ==
  ASSUME SourceInv, [Next]_vars
  PROVE  DeliveredOnce'
<1>0. TypeOK /\ DeliveredOnce
  BY DEF SourceInv
<1>1. CASE UNCHANGED <<receipt, emitted>>
  BY <1>0, <1>1 DEF DeliveredOnce
<1>2. ASSUME NEW w \in Webhooks, Fresh(w), Receive(w)
      PROVE  DeliveredOnce'
  <2>1. w.id \in Event /\ w # NoWebhook
    BY WebhookKinds
  <2>2. emitted[w.id] = 0
    BY <1>0, <1>2, <2>1 DEF Fresh, DeliveredOnce
  <2>3. \A e \in Event :
          /\ receipt'[e] = IF e = w.id THEN w ELSE receipt[e]
          /\ emitted'[e] = IF e = w.id THEN 1 ELSE emitted[e]
    <3>1. /\ receipt' = [receipt EXCEPT ![w.id] = w]
          /\ emitted' = [emitted EXCEPT ![w.id] = emitted[w.id] + 1]
      BY <1>2 DEF Receive
    <3>2. DOMAIN receipt = Event /\ DOMAIN emitted = Event
      BY <1>0 DEF TypeOK
    <3> QED
      BY <2>2, <3>1, <3>2
  <2> QED
    BY <1>0, <2>1, <2>3 DEF DeliveredOnce
<1> QED
  BY <1>1, <1>2, ReceiptSteps

-----------------------------------------------------------------------------
(* The invariant is inductive: the links to the provider only grow, and     *)
(* what the calls hold is bounded by them.                                  *)
THEOREM SourceInvariance == Spec => []SourceInv
<1>1. ASSUME SourceInv, [Next]_vars
      PROVE  SourceInv'
  BY <1>1, KeptNext, TypesNext, CallsNext, HandlesNext, PassesNext,
     ProviderNext, HeadsNext, DeliveredNext DEF SourceInv
<1> QED
  BY <1>1, InitHolds, PTL DEF Spec

(* Every variable has its type.                                             *)
THEOREM SourceTypes == Spec => []TypeOK
<1>1. SourceInv => TypeOK
  BY DEF SourceInv
<1> QED
  BY <1>1, SourceInvariance, PTL

(* A repository is attached to a protected project of its own and records   *)
(* heads of that project only, with any number of concurrent provisionings. *)
THEOREM OwnProjectHolds == Spec => []HeadsOfOwnProject
<1>1. SourceInv => HeadsOfOwnProject
  BY DEF SourceInv
<1> QED
  BY <1>1, SourceInvariance, PTL

(* The provider identity of a repository never changes.                     *)
THEOREM IdentityStays == Spec => IdentityIsKept
<1>1. ASSUME SourceInv, [Next]_vars
      PROVE  [\A r \in Repository : repository[r].remote # None =>
                repository'[r].remote = repository[r].remote]_vars
  BY <1>1, KeptNext DEF Kept
<1> QED
  BY <1>1, SourceInvariance, PTL DEF Spec, IdentityIsKept

(* A webhook id leads to one source event at most.                          *)
THEOREM OneEventPerWebhook == Spec => []DeliveredOnce
<1>1. SourceInv => DeliveredOnce
  BY DEF SourceInv
<1> QED
  BY <1>1, SourceInvariance, PTL

(* The head stored with a push includes the pushed commit.                  *)
THEOREM PushesAreIncluded == Spec => HandledPushIsIncluded
<1> DEFINE Included ==
      \A e \in Event :
        (receipt[e] = NoWebhook /\ receipt'[e] \in Pushes) =>
          \E r \in Repository :
            /\ branch'[r][receipt'[e].branch].remote = receipt'[e].remote
            /\ branch'[r][receipt'[e].branch].number >= receipt'[e].after
<1>1. ASSUME SourceInv, [Next]_vars
      PROVE  Included
  <2> SUFFICES ASSUME NEW e \in Event,
                      receipt[e] = NoWebhook, receipt'[e] \in Pushes
               PROVE  \E r \in Repository :
                        /\ branch'[r][receipt'[e].branch].remote
                             = receipt'[e].remote
                        /\ branch'[r][receipt'[e].branch].number
                             >= receipt'[e].after
    OBVIOUS
  <2>1. receipt'[e] # receipt[e]
    BY DEF NoWebhook, Pushes
  <2>2. PICK w \in Webhooks :
          /\ Fresh(w) /\ Receive(w)
          /\ w \in Pushes =>
               \E r \in Repository :
                 /\ branch'[r][w.branch].remote = w.remote
                 /\ branch'[r][w.branch].number >= w.after
    BY <1>1, <2>1, ReceiptSteps
  <2>3. receipt'[e] = w
    BY <1>1, <2>1, <2>2 DEF Receive, SourceInv, TypeOK
  <2> QED
    BY <2>2, <2>3
<1>2. Included => [\A e \in Event :
       (receipt[e] = NoWebhook /\ receipt'[e] \in Pushes) =>
         \E r \in Repository :
           LET w == receipt'[e]
           IN /\ branch'[r][w.branch].remote = w.remote
              /\ branch'[r][w.branch].number >= w.after]_vars
  OBVIOUS
<1>3. ASSUME SourceInv, [Next]_vars
      PROVE  [\A e \in Event :
       (receipt[e] = NoWebhook /\ receipt'[e] \in Pushes) =>
         \E r \in Repository :
           LET w == receipt'[e]
           IN /\ branch'[r][w.branch].remote = w.remote
              /\ branch'[r][w.branch].number >= w.after]_vars
  BY <1>1, <1>2, <1>3
<1> QED
  BY <1>3, SourceInvariance, PTL DEF Spec, HandledPushIsIncluded

-----------------------------------------------------------------------------
(* Workspaces                                                               *)

WorkspaceStates == {"CREATED", "CLONED", "PATCHED", "COMMITTED", "PUSHED",
                    "COMPLETED", "FAILED", "EXPIRED", "DELETED"}
Stages == {"loaded", "delete", "clone", "work", "push", "confirm", "pushed",
           "finish", "complete", "announce"}
Rows == [state : WorkspaceStates, version : Nat, commit : Nat, credential : Nat]
Executions == [at : Stages, workspace : Workspace, row : Rows, credential : Nat,
               before : Int]

WorkspaceTypeOK ==
  /\ row \in [Workspace -> Rows \cup {NoRow}]
  /\ call \in [Executor -> Executions \cup {NoExecution}]
  /\ tip \in Nat \cup {NoHead}
  /\ reach \subseteq Nat /\ landed \subseteq Nat
  /\ commits \in Nat /\ created \in Nat /\ live \subseteq Nat
  /\ announced \in [Workspace -> Nat]
  /\ interrupted \subseteq Workspace

(* The branch holds its head and nothing but what has been on it; a commit  *)
(* made by a workspace or by others is never the base.                      *)
BranchHolds ==
  /\ tip = NoHead => reach = {}
  /\ tip = Base => reach = {Base}
  /\ tip # NoHead => tip \in reach
  /\ reach \subseteq landed

(* What the copy of the row tells, by the stage the call x has come to; on  *)
(* is what has been on the branch.                                          *)
StageHolds(x, on) ==
  /\ x.at = "loaded" => x.row.state # "COMPLETED"
  /\ x.at = "clone" => x.row.state = "CREATED"
  /\ x.at = "work" => x.row.state \notin {"CREATED", "PUSHED", "COMPLETED"}
  /\ x.at \in {"push", "confirm", "pushed"} => x.row.state = "COMMITTED"
  /\ x.at = "finish" => x.row.state = "PUSHED"
  /\ x.at = "complete" => x.row.state \in {"PUSHED", "FAILED", "DELETED"}
  /\ x.at = "pushed" => x.row.commit \in on

(* A commit is never the base, and what is recorded as pushed was.          *)
RowHolds(r, on) ==
  /\ r.state = "COMMITTED" => r.commit # Base
  /\ r.state \in {"PUSHED", "COMPLETED"} => r.commit \in on

(* A copy x is as old as the row r or older; when it is not older it        *)
(* differs in the credential at most, which the call sets before it saves.  *)
CopyOf(x, r) ==
  /\ x.version <= r.version
  /\ x.version = r.version => x.state = r.state /\ x.commit = r.commit

RowsHold == \A w \in Workspace : row[w] # NoRow => RowHolds(row[w], landed)

ExecutionsHold ==
  \A c \in Executor : call[c] # NoExecution =>
    /\ StageHolds(call[c], landed)
    /\ RowHolds(call[c].row, landed)
    /\ row[call[c].workspace] # NoRow
    /\ CopyOf(call[c].row, row[call[c].workspace])

(* One call at most goes on to announce, and only what is complete.         *)
Announcing(w) == {c \in Executor : call[c].at = "announce" /\ call[c].workspace = w}

AnnouncedOnce ==
  \A w \in Workspace :
    /\ \A c, d \in Announcing(w) : c = d
    /\ announced[w] \in {0, 1}
    /\ announced[w] = 1 => Announcing(w) = {}
    /\ announced[w] = 1 \/ Announcing(w) # {} =>
         /\ row[w].state \in {"COMPLETED", "DELETED"}
         /\ row[w].commit \in landed

PushInv ==
  /\ WorkspaceTypeOK
  /\ BranchHolds
  /\ ExecutionsHold
  /\ RowsHold
  /\ AnnouncedOnce

(* The calls that hold a credential they made, and what else is on record.  *)
Own == {"clone", "work", "push", "confirm", "pushed"}
Owners == {c \in Executor : call[c].at \in Own}

CredentialInv ==
  /\ live \subseteq 1..created
  /\ \A w \in Workspace : row[w] # NoRow => row[w].credential \in 0..created
  /\ \A c \in Executor : call[c] # NoExecution =>
       call[c].credential \in 0..created /\ call[c].row.credential \in 0..created
  /\ \A c \in Owners :
       /\ call[c].credential \in live
       /\ call[c].row.credential = call[c].credential
       /\ \A d \in Owners : call[d].credential = call[c].credential => c = d
       /\ \A d \in Executor :
            /\ call[d].at \in {"finish", "complete"} =>
                 call[d].credential # call[c].credential
            /\ call[d].at = "loaded" /\ call[d].row.state = "PUSHED" =>
                 call[d].row.credential # call[c].credential
       /\ \A w \in Workspace :
            row[w].state = "PUSHED" => row[w].credential # call[c].credential

Accounted ==
  interrupted # {}
    \/ \A k \in live : \E c \in Executor :
         call[c].at \in Own \cup {"finish"} /\ call[c].credential = k

-----------------------------------------------------------------------------
(* What a step of call c does, y being the call after it, in parts that     *)
(* every action but Load shares.                                            *)
Goes(c, y) ==
  /\ call[c] \in Executions
  /\ call' = [call EXCEPT ![c] = y]
  /\ y \in Executions \cup {NoExecution}
  /\ y # NoExecution => y.workspace = call[c].workspace /\ StageHolds(y, landed')
  /\ landed \subseteq landed'

KeepsRow(c, y) ==
  /\ row' = row
  /\ y # NoExecution => y.row = [call[c].row EXCEPT !.credential = y.row.credential]
  /\ y.at # "announce"

SavesRow(c, y) ==
  LET x == call[c].row
      w == call[c].workspace IN
  \E new \in Rows :
    /\ row[w].version = x.version
    /\ row' = [row EXCEPT ![w] = new]
    /\ RowHolds(new, landed)
    /\ new.version > x.version \/ new = x
    /\ y # NoExecution => y.row = new
    /\ x.state \in {"COMPLETED", "DELETED"} =>
         new.state = "DELETED" /\ new.commit = x.commit
    /\ y.at = "announce" => x.state = "PUSHED" /\ new.state = "COMPLETED"
    /\ new.credential \in {x.credential, NoId}
    /\ new.state = "PUSHED" => call[c].at = "pushed" /\ y.at = "finish"

Announces(c, y) ==
  \/ announced' = announced /\ (call[c].at = "announce" => y = NoExecution)
  \/ /\ call[c].at = "announce" /\ y = NoExecution
     /\ announced' = [announced EXCEPT ![call[c].workspace] = @ + 1]

Holding == Own \cup {"finish"}

MakesCredential(c, y) ==
  /\ call[c].at = "loaded"
  /\ created' = created + 1
  /\ live' = live \cup {created'}
  /\ y.at \in {"clone", "work"}
  /\ y.credential = created' /\ y.row.credential = created'
  /\ row' = row

KeepsCredential(c, y) ==
  LET x == call[c] IN
  /\ created' = created
  /\ \/ live' = live
     \/ x.at \in Holding /\ y.at \notin Own /\ live' = live \ {x.credential}
  /\ y # NoExecution =>
       /\ y.at # "loaded"
       /\ \/ x.at \in Holding /\ y.credential = x.credential
          \/ /\ x.at = "loaded" /\ x.row.state = "PUSHED"
             /\ y.at = "finish" /\ y.credential = x.row.credential
          \/ x.at = "complete" /\ y.at = "announce" /\ y.credential = x.credential
       /\ y.row.credential \in {x.row.credential, NoId}
       /\ y.at \in Own => x.at \in Own /\ y.row.credential = x.row.credential
  /\ x.at \in Holding /\ y.at \notin Holding =>
       interrupted' # {} \/ live' = live \ {x.credential}

Effect(c, y) ==
  /\ Goes(c, y)
  /\ KeepsRow(c, y) \/ SavesRow(c, y)
  /\ Announces(c, y)
  /\ MakesCredential(c, y) \/ KeepsCredential(c, y)
  /\ interrupted \subseteq interrupted' /\ interrupted' \subseteq Workspace

(* A call in progress, and the row it works on.                             *)
LEMMA CallInProgress ==
  ASSUME PushInv, NEW c \in Executor, call[c].at # "idle"
  PROVE  /\ call[c] \in Executions /\ call[c] # NoExecution
         /\ call[c].row \in Rows /\ call[c].workspace \in Workspace
         /\ StageHolds(call[c], landed) /\ RowHolds(call[c].row, landed)
         /\ row[call[c].workspace] \in Rows
         /\ CopyOf(call[c].row, row[call[c].workspace])
BY DEF PushInv, WorkspaceTypeOK, ExecutionsHold, NoExecution, Executions, Rows, NoRow

(* The ways in which a call ends.                                           *)
LEMMA ReturnEffect ==
  ASSUME PushInv, NEW c \in Executor, call[c].at # "idle", ReturnError(c),
         UNCHANGED <<landed, announced, created>>,
         \/ live' = live
         \/ call[c].at \in Holding /\ live' = live \ {call[c].credential}
  PROVE  /\ Goes(c, NoExecution) /\ Announces(c, NoExecution)
         /\ KeepsCredential(c, NoExecution)
         /\ interrupted \subseteq interrupted' /\ interrupted' \subseteq Workspace
<1>1. call[c] \in Executions /\ call[c].workspace \in Workspace
  BY CallInProgress
<1>2. Goes(c, NoExecution)
  BY <1>1 DEF Goes, ReturnError
<1>3. KeepsCredential(c, NoExecution)
  BY <1>1 DEF KeepsCredential, ReturnError, NoExecution, Own
<1>4. interrupted' \subseteq Workspace
  BY <1>1 DEF ReturnError, PushInv, WorkspaceTypeOK
<1> QED BY <1>2, <1>3, <1>4 DEF Announces, ReturnError

(* ... and leaves the row alone.                                            *)
LEMMA ReturnKeeps ==
  ASSUME PushInv, NEW c \in Executor, call[c].at # "idle", ReturnError(c), row' = row,
         UNCHANGED <<landed, announced, created>>,
         \/ live' = live
         \/ call[c].at \in Holding /\ live' = live \ {call[c].credential}
  PROVE  Effect(c, NoExecution)
BY ReturnEffect DEF Effect, KeepsRow, NoExecution

(* A row that has moved on.                                                 *)
LEMMA MovedRow ==
  ASSUME NEW r \in Rows, NEW s \in WorkspaceStates
  PROVE  /\ Moved(r, s) \in Rows
         /\ Moved(r, s).state = s /\ Moved(r, s).version = r.version + 1
         /\ Moved(r, s).commit = r.commit /\ Moved(r, s).credential = r.credential
<1>1. PICK v \in Nat : v = r.version + 1 BY DEF Rows
<1>2. Moved(r, s) = [r EXCEPT !.state = s, !.version = v]
  BY <1>1 DEF Moved
<1>3. [r EXCEPT !.state = s, !.version = v] \in Rows
  BY DEF Rows
<1>4. Moved(r, s).state = s /\ Moved(r, s).version = v
  BY <1>2 DEF Rows
<1>5. Moved(r, s).commit = r.commit /\ Moved(r, s).credential = r.credential
  BY <1>2 DEF Rows
<1> QED BY <1>1, <1>2, <1>3, <1>4, <1>5

(* A call that saves the row last.                                          *)
LEMMA SaveAndReturnEffect ==
  ASSUME PushInv, NEW c \in Executor, call[c].at # "idle", NEW new \in Rows,
         SaveAndReturn(c, new),
         UNCHANGED <<landed, announced, created>>,
         \/ live' = live
         \/ call[c].at \in Holding /\ live' = live \ {call[c].credential},
         new.version > call[c].row.version \/ new = call[c].row,
         new.state \in {"FAILED", "EXPIRED", "DELETED"},
         call[c].row.state \in {"COMPLETED", "DELETED"} =>
           new.state = "DELETED" /\ new.commit = call[c].row.commit,
         new.credential \in {call[c].row.credential, NoId}
  PROVE  Effect(c, NoExecution)
<1>1. ReturnError(c) BY DEF SaveAndReturn
<1>2. CASE row' = row
  BY <1>1, <1>2, ReturnKeeps
<1>3. CASE UpdateWorkspace(call[c].workspace, new, call[c].row.version)
  <2>1. SavesRow(c, NoExecution)
    BY <1>3 DEF SavesRow, UpdateWorkspace, RowHolds, NoExecution
  <2> QED BY <1>1, <2>1, ReturnEffect DEF Effect
<1> QED BY <1>2, <1>3 DEF SaveAndReturn

(* A call that fails saves that it did.                                     *)
LEMMA FailEffect ==
  ASSUME PushInv, NEW c \in Executor,
         \/ call[c].at \in {"clone", "confirm"}
         \/ /\ call[c].at = "work"
            /\ call[c].row.state \notin {"FAILED", "DELETED"},
         Fail(c), UNCHANGED <<landed, announced, created>>,
         \/ live' = live
         \/ call[c].at \in Holding /\ live' = live \ {call[c].credential}
  PROVE  Effect(c, NoExecution)
<1> DEFINE new == Moved(call[c].row, "FAILED")
<1>1. /\ call[c].row \in Rows /\ StageHolds(call[c], landed)
  BY CallInProgress
<1>2. /\ new \in Rows /\ new.state = "FAILED"
      /\ new.version = call[c].row.version + 1 /\ new.credential = call[c].row.credential
  BY <1>1, MovedRow DEF WorkspaceStates
<1>3. call[c].row.state \notin {"COMPLETED", "DELETED"}
  BY <1>1 DEF StageHolds
<1>4. new.version > call[c].row.version BY <1>1, <1>2 DEF Rows
<1>5. SaveAndReturn(c, new) BY DEF Fail
<1> HIDE DEF new
<1> QED BY <1>2, <1>3, <1>4, <1>5, SaveAndReturnEffect

(* A call that saves the row and goes on to the stage at.                   *)
LEMMA SaveEffect ==
  ASSUME PushInv, NEW c \in Executor, call[c].at # "idle", NEW new \in Rows,
         NEW at \in Stages, Save(c, new, at),
         UNCHANGED <<landed, announced, created, live>>,
         StageHolds([call[c] EXCEPT !.row = new, !.at = at], landed),
         RowHolds(new, landed), new.version > call[c].row.version,
         call[c].row.state \notin {"COMPLETED", "DELETED"},
         at = "announce" => /\ call[c].at = "complete" /\ call[c].row.state = "PUSHED"
                            /\ new.state = "COMPLETED",
         at # "announce" => /\ call[c].at \in Own /\ at \in Holding
                            /\ new.credential = call[c].row.credential,
         new.credential \in {call[c].row.credential, NoId},
         new.state = "PUSHED" => call[c].at = "pushed" /\ at = "finish"
  PROVE  \E y : Effect(c, y)
<1> DEFINE x == call[c]
           y == [x EXCEPT !.row = new, !.at = at]
<1>1. x \in Executions /\ x.workspace \in Workspace
  BY CallInProgress
<1>2. /\ y \in Executions /\ y.workspace = x.workspace /\ y.row = new /\ y.at = at
      /\ y.credential = x.credential /\ y # NoExecution
  BY <1>1 DEF Executions, NoExecution
<1>3. CASE UpdateWorkspace(x.workspace, new, x.row.version)
              /\ call' = [call EXCEPT ![c].row = new, ![c].at = at]
              /\ UNCHANGED interrupted
  <2>1. call' = [call EXCEPT ![c] = y]
    BY <1>3, <1>1 DEF PushInv, WorkspaceTypeOK
  <2> HIDE DEF y
  <2>2. StageHolds(y, landed) BY DEF y
  <2>3. Goes(c, y) BY <1>1, <1>2, <2>1, <2>2 DEF Goes
  <2>4. SavesRow(c, y)
    BY <1>2, <1>3 DEF SavesRow, UpdateWorkspace
  <2>5. Announces(c, y)
    BY <1>2 DEF Announces, Own
  <2>6. KeepsCredential(c, y)
    BY <1>2, <1>3 DEF KeepsCredential, Holding, Own, Stages
  <2> QED BY <1>3, <2>3, <2>4, <2>5, <2>6 DEF Effect, PushInv, WorkspaceTypeOK
<1>4. CASE ReturnError(c) /\ UNCHANGED row
  BY <1>4, ReturnKeeps
<1> QED BY <1>3, <1>4 DEF Save

(* A call that goes on with its copy of the row.                            *)
LEMMA ContinueEffect ==
  ASSUME PushInv, NEW c \in Executor, call[c].at # "idle",
         NEW y \in Executions, call' = [call EXCEPT ![c] = y],
         y.workspace = call[c].workspace, y.row = call[c].row,
         StageHolds(y, landed'), landed \subseteq landed',
         UNCHANGED <<row, announced, created, interrupted>>,
         y.at \notin {"announce", "loaded"}, call[c].at # "announce",
         \/ call[c].at \in Holding /\ y.credential = call[c].credential
         \/ call[c].at = "loaded" /\ y.at = "finish" /\ y.credential = call[c].row.credential,
         y.at \in Own => call[c].at \in Own,
         \/ live' = live /\ (call[c].at \in Holding => y.at \in Holding)
         \/ /\ call[c].at \in Holding /\ y.at \notin Own
            /\ live' = live \ {call[c].credential}
  PROVE  Effect(c, y)
<1>1. call[c] \in Executions /\ y # NoExecution
  BY CallInProgress DEF NoExecution, Executions, Stages
<1>2. y.row = [call[c].row EXCEPT !.credential = y.row.credential]
  BY <1>1 DEF Executions, Rows
<1>3. Goes(c, y) BY <1>1 DEF Goes
<1>4. KeepsRow(c, y) BY <1>2 DEF KeepsRow
<1>5. Announces(c, y) BY DEF Announces
<1>6. KeepsCredential(c, y)
  <2>1. y.at = "finish" /\ call[c].at = "loaded" => call[c].row.state = "PUSHED"
    BY <1>1 DEF Goes, StageHolds
  <2> QED BY <1>1, <2>1 DEF KeepsCredential, Own
<1> QED BY <1>3, <1>4, <1>5, <1>6 DEF Effect, PushInv, WorkspaceTypeOK

(* The stages of a call that make, use or revoke its credential.            *)
LEMMA MakeEffect ==
  ASSUME PushInv, NEW c \in Executor, StartExecute(c) \/ ResumeExecute(c)
  PROVE  \E y : Effect(c, y)
<1> DEFINE x == call[c]
<1>1. PICK at \in {"clone", "work"} :
        /\ x.at = "loaded" /\ CreateCredential(c, at)
        /\ at = "clone" => x.row.state = "CREATED"
        /\ at = "work" => x.row.state \notin {"CREATED", "PUSHED"}
        /\ UNCHANGED <<row, landed, announced>>
  BY DEF StartExecute, ResumeExecute, branchVars
<1> DEFINE r == [x.row EXCEPT !.credential = created']
           y == [x EXCEPT !.at = at, !.credential = created', !.row = r]
<1>2. x \in Executions /\ x.row \in Rows /\ StageHolds(x, landed)
  BY <1>1, CallInProgress
<1>3. /\ created' \in Nat /\ created' = created + 1 /\ live' = live \cup {created'}
      /\ interrupted' = interrupted
      /\ call' = [call EXCEPT ![c].at = at, ![c].credential = created',
                              ![c].row.credential = created']
  BY <1>1 DEF CreateCredential, PushInv, WorkspaceTypeOK
<1>4. r \in Rows /\ r.state = x.row.state /\ r.credential = created' /\ r.commit = x.row.commit
  BY <1>2, <1>3 DEF Rows
<1> HIDE DEF r
<1>5. /\ y \in Executions /\ y.at = at /\ y.credential = created' /\ y.row = r
      /\ y.workspace = x.workspace
  BY <1>1, <1>2, <1>3, <1>4 DEF Executions, Stages
<1>6. call' = [call EXCEPT ![c] = y]
  <2>1. y = [x EXCEPT !.at = at, !.credential = created', !.row.credential = created']
    BY <1>2 DEF r, Executions
  <2> HIDE DEF y
  <2>2. call \in [Executor -> Executions \cup {NoExecution}]
    BY DEF PushInv, WorkspaceTypeOK
  <2> QED
    BY <1>3, <2>1, <2>2
<1> HIDE DEF y
<1>7. StageHolds(y, landed')
  BY <1>1, <1>2, <1>4, <1>5 DEF StageHolds
<1>8. Goes(c, y)
  BY <1>1, <1>2, <1>5, <1>6, <1>7 DEF Goes
<1>9. KeepsRow(c, y)
  BY <1>1, <1>2, <1>4, <1>5 DEF KeepsRow, r, Rows
<1>10. Announces(c, y)
  BY <1>1 DEF Announces
<1>11. MakesCredential(c, y)
  BY <1>1, <1>3, <1>4, <1>5 DEF MakesCredential
<1> QED BY <1>3, <1>8, <1>9, <1>10, <1>11 DEF Effect, PushInv, WorkspaceTypeOK

(* The stages that go on with the row as it is.                             *)
LEMMA GoOnEffect ==
  ASSUME PushInv, BranchHolds, NEW c \in Executor,
         \/ ResumePushed(c) \/ PushBranch(c)
         \/ ReadBranch(c) /\ ~Fail(c)
         \/ Confirm(c) /\ ~Fail(c)
         \/ RevokeCredential(c) /\ ~ReturnError(c)
  PROVE  \E y : Effect(c, y)
<1> DEFINE x == call[c]
<1>1. x.at # "idle"
  BY DEF ResumePushed, PushBranch, ReadBranch, Confirm, RevokeCredential
<1>2. /\ x \in Executions /\ x.row \in Rows /\ StageHolds(x, landed)
      /\ call \in [Executor -> Executions \cup {NoExecution}]
  BY <1>1, CallInProgress DEF PushInv, WorkspaceTypeOK
<1>3. CASE ResumePushed(c)
  <2> DEFINE y == [x EXCEPT !.at = "finish", !.credential = x.row.credential]
  <2>1. /\ y \in Executions /\ y.at = "finish" /\ y.credential = x.row.credential
        /\ y.row = x.row /\ y.workspace = x.workspace
    BY <1>2 DEF Executions, Stages, Rows
  <2>2. call' = [call EXCEPT ![c] = y]
    BY <1>2, <1>3 DEF ResumePushed
  <2>3. /\ x.at = "loaded" /\ x.row.state = "PUSHED"
        /\ UNCHANGED <<row, landed, announced, created, live, interrupted>>
    BY <1>3 DEF ResumePushed, branchVars, credentialVars
  <2> HIDE DEF y
  <2>4. StageHolds(y, landed') BY <2>1, <2>3 DEF StageHolds
  <2> QED BY <1>1, <2>1, <2>2, <2>3, <2>4, ContinueEffect DEF Own, Holding
<1>4. ASSUME NEW at \in {"pushed", "confirm", "complete"}, Continue(c, at),
             landed \subseteq landed', UNCHANGED <<row, announced, created>>,
             at = "complete" => x.at \in {"finish", "work"} /\ live' = live \ {x.credential},
             at = "complete" => x.row.state \in {"PUSHED", "FAILED", "DELETED"},
             at # "complete" => x.at \in {"push", "confirm"} /\ live' = live,
             at = "pushed" => x.row.commit \in landed'
      PROVE  \E y : Effect(c, y)
  <2> DEFINE y == [x EXCEPT !.at = at]
  <2>1. /\ y \in Executions /\ y.at = at /\ y.credential = x.credential
        /\ y.row = x.row /\ y.workspace = x.workspace
    BY <1>2 DEF Executions, Stages
  <2>2. call' = [call EXCEPT ![c] = y] /\ interrupted' = interrupted
    BY <1>2, <1>4 DEF Continue
  <2> HIDE DEF y
  <2>3. StageHolds(y, landed') BY <1>2, <1>4, <2>1 DEF StageHolds
  <2> QED BY <1>1, <1>4, <2>1, <2>2, <2>3, ContinueEffect DEF Own, Holding
<1>5. CASE PushBranch(c)
  <2>1. /\ x.at = "push" /\ UNCHANGED <<row, announced, created, live>>
        /\ \/ /\ \E at \in {"pushed", "confirm"} : Continue(c, at)
              /\ landed' = landed \cup reach' /\ tip \in {Lease(c), x.row.commit}
              /\ reach' = IF tip = x.row.commit THEN reach ELSE {Base, x.row.commit}
           \/ Continue(c, "confirm") /\ landed' = landed
    BY <1>5 DEF PushBranch, credentialVars
  <2>2. x.row.commit # NoHead BY <1>2 DEF Rows, NoHead
  <2>3. tip = x.row.commit => tip \in reach BY <2>2 DEF BranchHolds
  <2> QED BY <1>4, <2>1, <2>3
<1>6. CASE ReadBranch(c) /\ ~Fail(c)
  <2> DEFINE y == [x EXCEPT !.at = "push", !.before = tip]
  <2>0. tip \in Int BY DEF PushInv, WorkspaceTypeOK, NoHead
  <2>1. /\ y \in Executions /\ y.at = "push" /\ y.credential = x.credential
        /\ y.row = x.row /\ y.workspace = x.workspace
    BY <1>2, <2>0 DEF Executions, Stages
  <2>2. call' = [call EXCEPT ![c] = y]
    BY <1>2, <1>6 DEF ReadBranch
  <2>3. /\ x.at = "work" /\ x.row.state = "COMMITTED"
        /\ UNCHANGED <<row, landed, announced, created, live, interrupted>>
    BY <1>6 DEF ReadBranch, branchVars, credentialVars
  <2> HIDE DEF y
  <2>4. StageHolds(y, landed') BY <2>1, <2>3 DEF StageHolds
  <2> QED BY <1>1, <2>1, <2>2, <2>3, <2>4, ContinueEffect DEF Own, Holding
<1>7. CASE Confirm(c) /\ ~Fail(c)
  <2>1. /\ x.at = "confirm" /\ Continue(c, "pushed")
        /\ UNCHANGED <<row, announced, created, live, landed>>
        /\ tip = x.row.commit
    BY <1>7 DEF Confirm, branchVars, credentialVars
  <2>2. x.row.commit # NoHead BY <1>2 DEF Rows, NoHead
  <2> QED BY <1>4, <2>1, <2>2 DEF BranchHolds
<1>8. CASE RevokeCredential(c) /\ ~ReturnError(c)
  <2>1. /\ \/ x.at = "finish"
           \/ x.at = "work" /\ x.row.state \in {"FAILED", "DELETED"}
        /\ Continue(c, "complete") /\ live' = live \ {x.credential}
        /\ UNCHANGED <<row, announced, created, landed>>
    BY <1>8 DEF RevokeCredential, branchVars
  <2> QED BY <1>2, <1>4, <2>1 DEF StageHolds
<1> QED BY <1>3, <1>5, <1>6, <1>7, <1>8

(* The stages that save the row.                                            *)
LEMMA SavingEffect ==
  ASSUME PushInv, NEW c \in Executor,
         \/ CloneExact(c) \/ Apply(c) \/ Commit(c) \/ RecordPushed(c) \/ Complete(c)
         \/ ReadBranch(c) /\ Fail(c)
         \/ Confirm(c) /\ Fail(c)
  PROVE  \E y : Effect(c, y)
<1> DEFINE x == call[c]
<1>1. x.at # "idle"
  BY DEF CloneExact, Apply, Commit, RecordPushed, Complete, ReadBranch, Confirm
<1>2. /\ x \in Executions /\ x.row \in Rows
      /\ StageHolds(x, landed) /\ RowHolds(x.row, landed)
  BY <1>1, CallInProgress
<1>3. x.row.version + 1 > x.row.version BY <1>2 DEF Rows
<1>4. ASSUME NEW new \in Rows, NEW at \in Stages
      PROVE  LET y == [x EXCEPT !.row = new, !.at = at] IN
             y.at = at /\ y.row = new
  BY <1>2 DEF Executions
<1>5. CASE /\ Fail(c)
           /\ \/ CloneExact(c) \/ Apply(c) \/ Commit(c)
              \/ ReadBranch(c) \/ Confirm(c)
  <2>1. UNCHANGED <<landed, announced, created>>
    BY <1>5 DEF CloneExact, Apply, Commit, ReadBranch, Confirm, branchVars, credentialVars
  <2>2. \/ x.at \in {"clone", "confirm"}
        \/ x.at = "work" /\ x.row.state \notin {"FAILED", "DELETED"}
    BY <1>5 DEF CloneExact, Apply, Commit, ReadBranch, Confirm
  <2>3. \/ live' = live
        \/ x.at \in Holding /\ live' = live \ {x.credential}
    BY <1>5
    DEF CloneExact, Apply, Commit, ReadBranch, Confirm, credentialVars, Holding, Own
  <2> QED BY <1>5, <2>1, <2>2, <2>3, FailEffect
<1>6. ASSUME NEW s \in {"CLONED", "PATCHED", "PUSHED"}, NEW at \in {"work", "finish"},
             Save(c, Moved(x.row, s), at), UNCHANGED <<landed, announced, created, live>>,
             x.row.state \in {"CREATED", "CLONED", "COMMITTED"}, x.at \in Own,
             s = "PUSHED" <=> at = "finish",
             s = "PUSHED" => x.at = "pushed"
      PROVE  \E y : Effect(c, y)
  <2> DEFINE new == Moved(x.row, s)
  <2>1. /\ new \in Rows /\ new.state = s /\ new.version = x.row.version + 1
        /\ new.commit = x.row.commit /\ new.credential = x.row.credential
    BY <1>2, MovedRow DEF WorkspaceStates
  <2> HIDE DEF new
  <2>2. RowHolds(new, landed)
    BY <1>2, <1>6, <2>1 DEF RowHolds, StageHolds
  <2>3. StageHolds([x EXCEPT !.row = new, !.at = at], landed)
    BY <1>4, <1>6, <2>1 DEF StageHolds, Stages
  <2>4. Save(c, new, at) BY <1>6 DEF new
  <2>5. at \in Stages /\ at \in Holding BY DEF Stages, Holding, Own
  <2> QED BY <1>1, <1>3, <1>6, <2>1, <2>2, <2>3, <2>4, <2>5, SaveEffect
<1>7. CASE (CloneExact(c) \/ Apply(c)) /\ ~Fail(c)
  BY <1>2, <1>6, <1>7
  DEF CloneExact, Apply, branchVars, credentialVars, StageHolds, Own
<1>8. CASE RecordPushed(c)
  BY <1>2, <1>6, <1>8 DEF RecordPushed, branchVars, credentialVars, StageHolds, Own
<1>9. CASE Commit(c) /\ ~Fail(c)
  <2> DEFINE m == Moved(x.row, "COMMITTED")
             new == [m EXCEPT !.commit = commits']
  <2>1. /\ x.at = "work" /\ x.row.state = "PATCHED" /\ commits' = commits + 1
        /\ Save(c, new, "work")
        /\ UNCHANGED <<landed, announced, created, live>>
    BY <1>9 DEF Commit, credentialVars
  <2>2. m \in Rows /\ m.version = x.row.version + 1 /\ m.credential = x.row.credential
        /\ m.state = "COMMITTED"
    BY <1>2, MovedRow DEF WorkspaceStates
  <2> HIDE DEF m
  <2>3. commits' \in Nat /\ commits' # Base
    BY <2>1 DEF PushInv, WorkspaceTypeOK, Base
  <2>4. /\ new \in Rows /\ new.state = "COMMITTED" /\ new.version = x.row.version + 1
        /\ new.credential = x.row.credential /\ new.commit = commits'
    BY <2>2, <2>3 DEF Rows
  <2> HIDE DEF new
  <2>5. RowHolds(new, landed) BY <2>3, <2>4 DEF RowHolds
  <2>6. StageHolds([x EXCEPT !.row = new, !.at = "work"], landed)
    BY <1>4, <2>4 DEF StageHolds, Stages
  <2>7. "work" \in Stages /\ "work" \in Holding /\ x.at \in Own
    BY <2>1 DEF Stages, Holding, Own
  <2> QED BY <1>1, <1>3, <2>1, <2>4, <2>5, <2>6, <2>7, SaveEffect
<1>10. CASE Complete(c)
  <2> DEFINE m == Moved(x.row, "COMPLETED")
             new == [m EXCEPT !.credential = NoId]
  <2>1. /\ x.at = "complete" /\ UNCHANGED <<landed, announced, created, live>>
        /\ \/ x.row.state = "PUSHED" /\ Save(c, new, "announce")
           \/ ReturnError(c) /\ row' = row
    BY <1>10 DEF Complete, branchVars, credentialVars
  <2>2. /\ m \in Rows /\ m.version = x.row.version + 1 /\ m.commit = x.row.commit
        /\ m.state = "COMPLETED"
    BY <1>2, MovedRow DEF WorkspaceStates
  <2> HIDE DEF m
  <2>3. /\ new \in Rows /\ new.state = "COMPLETED" /\ new.version = x.row.version + 1
        /\ new.credential = NoId /\ new.commit = x.row.commit
    BY <2>2 DEF Rows, NoId
  <2> HIDE DEF new
  <2>4. CASE x.row.state = "PUSHED" /\ Save(c, new, "announce")
    <3>1. RowHolds(new, landed) BY <1>2, <2>3, <2>4 DEF RowHolds
    <3>2. StageHolds([x EXCEPT !.row = new, !.at = "announce"], landed)
      BY <1>4, <2>3 DEF StageHolds, Stages
    <3>3. "announce" \in Stages BY DEF Stages
    <3> QED BY <1>1, <1>3, <2>1, <2>3, <2>4, <3>1, <3>2, <3>3, SaveEffect
  <2>5. CASE ReturnError(c) /\ row' = row
    BY <1>1, <2>1, <2>5, ReturnKeeps
  <2> QED BY <2>1, <2>4, <2>5
<1> QED BY <1>5, <1>7, <1>8, <1>9, <1>10

(* The ends of a call.                                                      *)
LEMMA EndingEffect ==
  ASSUME PushInv, NEW c \in Executor,
         \/ ExpireLoaded(c) \/ Delete(c) \/ Announce(c) \/ Crash(c)
         \/ RevokeCredential(c) /\ ReturnError(c)
  PROVE  \E y : Effect(c, y)
<1> DEFINE x == call[c]
<1>1. x.at # "idle"
  BY DEF ExpireLoaded, Delete, Announce, Crash, RevokeCredential, PushInv,
         WorkspaceTypeOK, Executions, Stages
<1>2. /\ x \in Executions /\ x.row \in Rows /\ x.workspace \in Workspace
      /\ StageHolds(x, landed)
  BY <1>1, CallInProgress
<1>3. CASE ExpireLoaded(c)
  <2> DEFINE new == IF x.row.state = "DELETED" THEN x.row ELSE Moved(x.row, "EXPIRED")
  <2>1. /\ x.at = "loaded" /\ SaveAndReturn(c, new)
        /\ UNCHANGED <<landed, announced, created, live>>
    BY <1>3 DEF ExpireLoaded, branchVars, credentialVars
  <2>2. x.row.state # "COMPLETED" BY <1>2, <2>1 DEF StageHolds
  <2>3. /\ new \in Rows /\ new.credential = x.row.credential
        /\ new.version > x.row.version \/ new = x.row
        /\ new.state \in {"EXPIRED", "DELETED"}
        /\ x.row.state = "DELETED" => new = x.row
    <3>1. CASE x.row.state = "DELETED" BY <1>2, <3>1
    <3>2. CASE x.row.state # "DELETED"
      <4>1. /\ Moved(x.row, "EXPIRED") \in Rows
            /\ Moved(x.row, "EXPIRED").state = "EXPIRED"
            /\ Moved(x.row, "EXPIRED").version = x.row.version + 1
            /\ Moved(x.row, "EXPIRED").credential = x.row.credential
        BY <1>2, MovedRow DEF WorkspaceStates
      <4>2. x.row.version \in Nat BY <1>2 DEF Rows
      <4> QED BY <3>2, <4>1, <4>2
    <3> QED BY <3>1, <3>2
  <2> HIDE DEF new
  <2> QED BY <1>1, <2>1, <2>2, <2>3, SaveAndReturnEffect
<1>4. CASE Delete(c)
  <2> DEFINE expires == /\ x.workspace \in late
                        /\ x.row.state \notin {"COMPLETED", "FAILED", "DELETED"}
             e == IF expires THEN Moved(x.row, "EXPIRED") ELSE x.row
             m == Moved(e, "DELETED")
             new == [m EXCEPT !.credential = NoId]
  <2>1. /\ UNCHANGED <<landed, announced, created, live>>
        /\ \/ e.state \in {"COMPLETED", "EXPIRED", "FAILED", "CREATED"} /\ SaveAndReturn(c, new)
           \/ ReturnError(c) /\ row' = row
    BY <1>4 DEF Delete, branchVars, credentialVars
  <2>2. x.row.version \in Nat BY <1>2 DEF Rows
  <2>3. /\ e \in Rows /\ e.version >= x.row.version /\ e.commit = x.row.commit
        /\ x.row.state \in {"DELETED"} => e = x.row
    <3>1. CASE ~expires BY <1>2, <2>2, <3>1
    <3>2. CASE expires
      <4>1. /\ Moved(x.row, "EXPIRED") \in Rows
            /\ Moved(x.row, "EXPIRED").commit = x.row.commit
            /\ Moved(x.row, "EXPIRED").version = x.row.version + 1
        BY <1>2, MovedRow DEF WorkspaceStates
      <4> QED BY <2>2, <3>2, <4>1
    <3> QED BY <3>1, <3>2
  <2> HIDE DEF e, expires
  <2>4. /\ m \in Rows /\ m.version = e.version + 1 /\ m.commit = x.row.commit
        /\ m.state = "DELETED"
    BY <2>3, MovedRow DEF WorkspaceStates
  <2>5. m.version > x.row.version BY <2>2, <2>3, <2>4 DEF Rows
  <2> HIDE DEF m
  <2>6. /\ new \in Rows /\ new.state = "DELETED" /\ new.version > x.row.version
        /\ new.commit = x.row.commit /\ new.credential = NoId
    BY <2>4, <2>5 DEF Rows, NoId
  <2> HIDE DEF new
  <2>7. CASE SaveAndReturn(c, new)
    BY <1>1, <2>1, <2>6, <2>7, SaveAndReturnEffect
  <2>8. CASE ReturnError(c) /\ row' = row
    BY <1>1, <2>1, <2>8, ReturnKeeps
  <2> QED BY <2>1, <2>7, <2>8
<1>5. CASE Announce(c)
  <2>1. /\ x.at = "announce" /\ call' = [call EXCEPT ![c] = NoExecution]
        /\ \/ announced' = announced
           \/ announced' = [announced EXCEPT ![x.workspace] = @ + 1]
        /\ UNCHANGED <<row, landed, created, live, interrupted>>
    BY <1>5 DEF Announce, branchVars, credentialVars
  <2>2. Goes(c, NoExecution) BY <1>2, <2>1 DEF Goes
  <2>3. KeepsRow(c, NoExecution) BY <2>1 DEF KeepsRow, NoExecution
  <2>4. Announces(c, NoExecution) BY <2>1 DEF Announces
  <2>5. KeepsCredential(c, NoExecution)
    BY <2>1 DEF KeepsCredential, Holding, Own
  <2> QED BY <2>1, <2>2, <2>3, <2>4, <2>5 DEF Effect, PushInv, WorkspaceTypeOK
<1>6. CASE Crash(c)
  BY <1>1, <1>6, ReturnKeeps DEF Crash, branchVars, credentialVars
<1>7. CASE RevokeCredential(c) /\ ReturnError(c)
  <2>1. /\ x.at \in Holding
        /\ live' \in {live, live \ {x.credential}} \/ Continue(c, "complete")
        /\ UNCHANGED <<row, landed, announced, created>>
    BY <1>7 DEF RevokeCredential, branchVars, Holding, Own
  <2>2. ~Continue(c, "complete")
    <3>1. call \in [Executor -> Executions \cup {NoExecution}]
      BY DEF PushInv, WorkspaceTypeOK
    <3>2. SUFFICES ASSUME Continue(c, "complete") PROVE FALSE OBVIOUS
    <3>3. [x EXCEPT !.at = "complete"] = NoExecution
      BY <1>7, <3>1, <3>2 DEF Continue, ReturnError
    <3>4. [x EXCEPT !.at = "complete"].at = "complete"
      BY <1>2 DEF Executions
    <3> QED BY <3>3, <3>4 DEF NoExecution
  <2> QED BY <1>1, <1>7, <2>1, <2>2, ReturnKeeps
<1> QED BY <1>3, <1>4, <1>5, <1>6, <1>7

ExecutorStep(c) ==
  \/ StartExecute(c) \/ ResumeExecute(c) \/ ResumePushed(c) \/ ExpireLoaded(c)
  \/ CloneExact(c) \/ Apply(c) \/ Commit(c)
  \/ ReadBranch(c) \/ PushBranch(c) \/ Confirm(c) \/ RecordPushed(c)
  \/ RevokeCredential(c) \/ Complete(c) \/ Announce(c)
  \/ Delete(c) \/ Crash(c)

(* Every step of a call but Load is an Effect.                              *)
LEMMA ExecutorEffect ==
  ASSUME PushInv, NEW c \in Executor, ExecutorStep(c)
  PROVE  \E y : Effect(c, y)
<1>1. BranchHolds BY DEF PushInv
<1> QED
  BY <1>1, MakeEffect, GoOnEffect, SavingEffect, EndingEffect DEF ExecutorStep

-----------------------------------------------------------------------------
(* The rest of a step: the branch, and the types of what only grows.        *)
LEMMA BranchStep ==
  ASSUME PushInv, WorkspaceNext
  PROVE  /\ BranchHolds' /\ landed \subseteq landed'
         /\ tip' \in Nat \cup {NoHead} /\ reach' \subseteq Nat /\ landed' \subseteq Nat
         /\ commits' \in Nat
         /\ reach \subseteq reach' \/ tip' = NoHead
<1> USE DEF PushInv, WorkspaceTypeOK
<1>1. CASE branchVars' = branchVars
  BY <1>1 DEF branchVars, BranchHolds
<1>2. ASSUME NEW c \in Executor, PushBranch(c)
      PROVE  /\ BranchHolds' /\ landed \subseteq landed'
             /\ tip' \in Nat \cup {NoHead} /\ reach' \subseteq Nat /\ landed' \subseteq Nat
             /\ commits' \in Nat
             /\ reach \subseteq reach' \/ tip' = NoHead
  <2> DEFINE commit == call[c].row.commit
  <2>1. /\ commit \in Nat /\ commit # Base /\ commit # NoHead
    <3>1. call[c].at = "push" BY <1>2 DEF PushBranch
    <3>2. /\ call[c].row \in Rows /\ call[c].row.state = "COMMITTED"
          /\ RowHolds(call[c].row, landed)
      BY <3>1, CallInProgress DEF StageHolds
    <3> QED BY <3>2 DEF RowHolds, Rows, NoHead
  <2>2. CASE UNCHANGED <<tip, reach, landed>>
    BY <1>2, <2>2 DEF PushBranch, BranchHolds
  <2>3. CASE /\ tip \in {Lease(c), commit} /\ tip' = commit
             /\ reach' = IF tip = commit THEN reach ELSE {Base, commit}
             /\ landed' = landed \cup reach'
    <3>1. commits' = commits BY <1>2 DEF PushBranch
    <3>2. tip = commit \/ reach \subseteq {Base}
      BY <2>3 DEF BranchHolds, Lease
    <3> HIDE DEF commit
    <3>3. CASE tip = commit
      BY <2>1, <2>3, <3>1, <3>3 DEF BranchHolds
    <3>4. CASE tip # commit
      <4>1. /\ reach \subseteq {Base} /\ tip' = commit /\ reach' = {Base, commit}
            /\ landed' = landed \cup reach' /\ Base \in Nat
        BY <2>3, <3>2, <3>4 DEF Base
      <4> QED BY <2>1, <3>1, <4>1 DEF BranchHolds
    <3> QED BY <3>3, <3>4
  <2> QED BY <1>2, <2>2, <2>3 DEF PushBranch
<1>3. CASE OthersPush
  BY <1>3 DEF OthersPush, BranchHolds, Base, NoHead
<1>4. CASE OthersDelete
  BY <1>4 DEF OthersDelete, BranchHolds, Base, NoHead
<1>5. ASSUME NEW c \in Executor, Commit(c)
      PROVE  UNCHANGED <<tip, reach, landed>> /\ commits' \in Nat
  BY <1>5 DEF Commit
<1>6. UNCHANGED <<tip, reach, landed>> => BranchHolds' BY DEF BranchHolds
<1>7. ASSUME NEW c \in Executor, \/ \E w \in Workspace, at \in {"loaded", "delete"} : Load(c, w, at)
                                 \/ ExecutorStep(c) /\ ~PushBranch(c) /\ ~Commit(c)
      PROVE  branchVars' = branchVars
  BY <1>7
  DEF Load, ExecutorStep, StartExecute, ResumeExecute, ResumePushed, ExpireLoaded,
      CloneExact, Apply, ReadBranch, Confirm, RecordPushed, RevokeCredential, Complete,
      Announce, Delete, Crash
<1>8. CASE \E w \in Workspace : Create(w) \/ Expire(w)
  BY <1>1, <1>8 DEF Create, Expire
<1> QED
  BY <1>1, <1>2, <1>3, <1>4, <1>5, <1>6, <1>7, <1>8 DEF WorkspaceNext, ExecutorStep

-----------------------------------------------------------------------------
(* What the steps do to rows and copies.                                    *)
LEMMA EffectCopies ==
  ASSUME PushInv, NEW c \in Executor, NEW y, Effect(c, y)
  PROVE  /\ row' \in [Workspace -> Rows \cup {NoRow}]
         /\ call' \in [Executor -> Executions \cup {NoExecution}]
         /\ RowsHold' /\ ExecutionsHold'
<1> DEFINE x == call[c]
           w == x.workspace
<1>1. /\ x \in Executions /\ x.row \in Rows /\ w \in Workspace
      /\ row[w] \in Rows /\ CopyOf(x.row, row[w])
      /\ RowHolds(x.row, landed)
  <2>1. x.at # "idle" BY DEF Effect, Goes, Executions, Stages
  <2> QED BY <2>1, CallInProgress
<1>2. /\ call' = [call EXCEPT ![c] = y] /\ y \in Executions \cup {NoExecution}
      /\ y # NoExecution => y.workspace = w /\ StageHolds(y, landed')
      /\ landed \subseteq landed'
  BY DEF Effect, Goes
<1>3. call' \in [Executor -> Executions \cup {NoExecution}]
  BY <1>2 DEF PushInv, WorkspaceTypeOK
<1>4. /\ call'[c] = y
      /\ \A d \in Executor \ {c} : call'[d] = call[d]
  BY <1>2 DEF PushInv, WorkspaceTypeOK
<1>5. \A d \in Executor : call[d] # NoExecution =>
        /\ call[d].row \in Rows /\ call[d].workspace \in Workspace
        /\ StageHolds(call[d], landed') /\ RowHolds(call[d].row, landed')
        /\ row[call[d].workspace] \in Rows /\ CopyOf(call[d].row, row[call[d].workspace])
  <2>1. SUFFICES ASSUME NEW d \in Executor, call[d] # NoExecution
                 PROVE  /\ call[d].row \in Rows /\ call[d].workspace \in Workspace
                        /\ StageHolds(call[d], landed') /\ RowHolds(call[d].row, landed')
                        /\ row[call[d].workspace] \in Rows
                        /\ CopyOf(call[d].row, row[call[d].workspace])
    OBVIOUS
  <2>2. call[d].at # "idle"
    BY <2>1 DEF PushInv, WorkspaceTypeOK, Executions, Stages
  <2> QED BY <1>2, <2>2, CallInProgress DEF StageHolds, RowHolds
<1>6. \A v \in Workspace : row[v] # NoRow => RowHolds(row[v], landed')
  BY <1>2 DEF PushInv, RowsHold, RowHolds
<1>7. CASE KeepsRow(c, y)
  <2>1. row' = row /\ (y # NoExecution =>
                         y.row = [x.row EXCEPT !.credential = y.row.credential])
    BY <1>7 DEF KeepsRow
  <2>2. RowsHold' BY <1>6, <2>1 DEF RowsHold
  <2>3. ASSUME y # NoExecution
        PROVE  RowHolds(y.row, landed') /\ CopyOf(y.row, row[w])
    <3>1. /\ y.row.state = x.row.state /\ y.row.version = x.row.version
          /\ y.row.commit = x.row.commit
      BY <1>1, <2>1, <2>3 DEF Rows
    <3> QED BY <1>1, <1>2, <3>1 DEF RowHolds, CopyOf
  <2>4. ExecutionsHold'
    <3>1. SUFFICES ASSUME NEW d \in Executor, call'[d] # NoExecution
                   PROVE  /\ StageHolds(call'[d], landed') /\ RowHolds(call'[d].row, landed')
                          /\ row'[call'[d].workspace] # NoRow
                          /\ CopyOf(call'[d].row, row'[call'[d].workspace])
      BY DEF ExecutionsHold
    <3>2. CASE d = c
      BY <1>1, <1>2, <1>4, <2>1, <2>3, <3>1, <3>2 DEF NoRow, Rows
    <3>3. CASE d # c
      BY <1>4, <1>5, <2>1, <3>1, <3>3 DEF NoRow, Rows
    <3> QED BY <3>2, <3>3
  <2> QED BY <1>3, <2>1, <2>2, <2>4 DEF PushInv, WorkspaceTypeOK
<1>8. CASE SavesRow(c, y)
  <2>1. PICK new \in Rows :
          /\ row[w].version = x.row.version
          /\ row' = [row EXCEPT ![w] = new]
          /\ RowHolds(new, landed)
          /\ new.version > x.row.version \/ new = x.row
          /\ y # NoExecution => y.row = new
    BY <1>8 DEF SavesRow
  <2>2. row' \in [Workspace -> Rows \cup {NoRow}]
    BY <2>1 DEF PushInv, WorkspaceTypeOK
  <2>3. /\ row'[w] = new /\ \A v \in Workspace \ {w} : row'[v] = row[v]
        /\ RowHolds(new, landed')
    BY <1>1, <1>2, <2>1 DEF PushInv, WorkspaceTypeOK, RowHolds
  <2>4. RowsHold' BY <1>1, <1>6, <2>3 DEF RowsHold
  <2>5. ExecutionsHold'
    <3>1. SUFFICES ASSUME NEW d \in Executor, call'[d] # NoExecution
                   PROVE  /\ StageHolds(call'[d], landed') /\ RowHolds(call'[d].row, landed')
                          /\ row'[call'[d].workspace] # NoRow
                          /\ CopyOf(call'[d].row, row'[call'[d].workspace])
      BY DEF ExecutionsHold
    <3>2. CASE d = c
      <4>1. CopyOf(new, new) BY DEF CopyOf, Rows
      <4>2. new # NoRow BY DEF NoRow, Rows, WorkspaceStates
      <4> QED BY <1>2, <1>4, <2>1, <2>3, <3>1, <3>2, <4>1, <4>2
    <3>3. CASE d # c /\ call[d].workspace # w
      BY <1>4, <1>5, <2>3, <3>1, <3>3 DEF NoRow, Rows
    <3>4. CASE d # c /\ call[d].workspace = w
      <4>1. /\ call'[d] = call[d] /\ call[d].row \in Rows /\ CopyOf(call[d].row, row[w])
        BY <1>4, <1>5, <3>1, <3>4
      <4>2. new # NoRow BY DEF NoRow, Rows, WorkspaceStates
      <4>3. CopyOf(call[d].row, new)
        BY <1>1, <2>1, <4>1 DEF CopyOf, Rows
      <4> QED BY <1>4, <1>5, <2>3, <3>1, <3>4, <4>1, <4>2, <4>3
    <3> QED BY <3>2, <3>3, <3>4
  <2> QED BY <1>3, <2>2, <2>4, <2>5
<1> QED BY <1>7, <1>8 DEF Effect

(* ... and to announcements: a row that is complete is only deleted.        *)
LEMMA EffectAnnounced ==
  ASSUME PushInv, NEW c \in Executor, NEW y, Effect(c, y)
  PROVE  announced' \in [Workspace -> Nat] /\ AnnouncedOnce'
<1> DEFINE x == call[c]
           w == x.workspace
<1>1. /\ x \in Executions /\ x.row \in Rows /\ w \in Workspace /\ x # NoExecution
      /\ row[w] \in Rows /\ CopyOf(x.row, row[w]) /\ RowHolds(x.row, landed)
  <2>1. x.at # "idle" BY DEF Effect, Goes, Executions, Stages
  <2> QED BY <2>1, CallInProgress
<1>2. /\ call'[c] = y /\ (y # NoExecution => y.workspace = w)
      /\ \A d \in Executor \ {c} : call'[d] = call[d]
      /\ landed \subseteq landed'
  BY DEF Effect, Goes, PushInv, WorkspaceTypeOK
<1>3. /\ announced \in [Workspace -> Nat] /\ row \in [Workspace -> Rows \cup {NoRow}]
      /\ AnnouncedOnce
  BY DEF PushInv, WorkspaceTypeOK
<1>4. announced' \in [Workspace -> Nat]
  BY <1>1, <1>3 DEF Effect, Announces
(* What the saved row is to announced ones.                                 *)
<1>5. \A v \in Workspace : row[v].state \in {"COMPLETED", "DELETED"} =>
        /\ row'[v].state \in {"COMPLETED", "DELETED"} /\ row'[v].commit = row[v].commit
        /\ y.at = "announce" => v # w
  <2>1. CASE KeepsRow(c, y) BY <2>1 DEF KeepsRow
  <2>2. CASE SavesRow(c, y)
    <3>1. PICK new \in Rows :
            /\ row[w].version = x.row.version
            /\ row' = [row EXCEPT ![w] = new]
            /\ x.row.state \in {"COMPLETED", "DELETED"} =>
                 new.state = "DELETED" /\ new.commit = x.row.commit
            /\ y.at = "announce" => x.row.state = "PUSHED" /\ new.state = "COMPLETED"
      BY <2>2 DEF SavesRow
    <3>2. row[w].state = x.row.state /\ row[w].commit = x.row.commit
      BY <1>1, <3>1 DEF CopyOf
    <3> QED BY <1>1, <1>3, <3>1, <3>2
  <2> QED BY <2>1, <2>2 DEF Effect
<1>6. y.at = "announce" =>
        row'[w].state = "COMPLETED" /\ row'[w].commit \in landed /\ x.at # "announce"
  <2>1. SUFFICES ASSUME y.at = "announce"
                 PROVE  /\ row'[w].state = "COMPLETED" /\ row'[w].commit \in landed
                        /\ x.at # "announce"
    OBVIOUS
  <2>2. SavesRow(c, y) BY <2>1 DEF Effect, KeepsRow
  <2>3. PICK new \in Rows :
          /\ row' = [row EXCEPT ![w] = new]
          /\ RowHolds(new, landed) /\ new.state = "COMPLETED"
    BY <2>1, <2>2 DEF SavesRow
  <2>4. x.at # "announce" BY <2>1 DEF Effect, Announces, NoExecution
  <2> QED BY <1>1, <1>3, <2>3, <2>4 DEF RowHolds
<1>7. ASSUME NEW v \in Workspace
      PROVE  /\ \A d, e \in Announcing(v)' : d = e
             /\ announced'[v] \in {0, 1}
             /\ announced'[v] = 1 => Announcing(v)' = {}
             /\ announced'[v] = 1 \/ Announcing(v)' # {} =>
                  /\ row'[v].state \in {"COMPLETED", "DELETED"}
                  /\ row'[v].commit \in landed'
  <2>1. /\ \A d, e \in Announcing(v) : d = e
        /\ announced[v] \in {0, 1}
        /\ announced[v] = 1 => Announcing(v) = {}
        /\ announced[v] = 1 \/ Announcing(v) # {} =>
             /\ row[v].state \in {"COMPLETED", "DELETED"}
             /\ row[v].commit \in landed
    BY <1>3 DEF AnnouncedOnce
  <2>2. Announcing(v)' = {d \in Executor : call'[d].at = "announce" /\ call'[d].workspace = v}
    BY DEF Announcing
  <2>3. CASE v # w
    <3>1. announced'[v] = announced[v] /\ Announcing(v)' = Announcing(v)
      BY <1>1, <1>2, <1>3, <2>3, <2>2 DEF Effect, Announces, Announcing, NoExecution
    <3> QED BY <1>2, <1>5, <2>1, <3>1
  <2>4. CASE v = w /\ y.at = "announce"
    <3>1. announced[w] # 1 /\ Announcing(v) = {} /\ announced' = announced
      BY <1>1, <1>5, <1>6, <2>1, <2>4 DEF Effect, Announces, NoExecution
    <3>2. Announcing(v)' = {c}
      BY <1>1, <1>2, <2>2, <2>4, <3>1 DEF Announcing, NoExecution
    <3> QED BY <1>2, <1>6, <2>1, <2>4, <3>1, <3>2
  <2>5. CASE v = w /\ y.at # "announce" /\ x.at # "announce"
    <3>1. announced' = announced /\ Announcing(v)' = Announcing(v)
      BY <1>1, <1>2, <2>2, <2>5 DEF Effect, Announces, Announcing
    <3> QED BY <1>2, <1>5, <2>1, <2>5, <3>1
  <2>6. CASE v = w /\ y.at # "announce" /\ x.at = "announce"
    <3>1. c \in Announcing(v) BY <2>6 DEF Announcing
    <3>2. Announcing(v)' = {}
      BY <1>2, <2>1, <2>2, <2>6, <3>1 DEF Announcing
    <3>3. announced'[w] \in {announced[w], announced[w] + 1} /\ announced[w] = 0
      BY <1>1, <1>3, <2>1, <2>6, <3>1 DEF Effect, Announces
    <3> QED BY <1>2, <1>5, <2>1, <2>6, <3>1, <3>2, <3>3
  <2> QED BY <2>3, <2>4, <2>5, <2>6
<1> QED BY <1>4, <1>7 DEF AnnouncedOnce

(* Announcements outlast what leaves their rows alone.                      *)
LEMMA AnnouncedStays ==
  ASSUME AnnouncedOnce, landed \subseteq landed', announced' = announced,
         \A w \in Workspace : Announcing(w)' = Announcing(w),
         \A w \in Workspace : announced[w] = 1 \/ Announcing(w) # {} => row'[w] = row[w]
  PROVE  AnnouncedOnce'
<1> SUFFICES ASSUME NEW w \in Workspace
             PROVE  /\ \A c, d \in Announcing(w)' : c = d
                    /\ announced'[w] \in {0, 1}
                    /\ announced'[w] = 1 => Announcing(w)' = {}
                    /\ announced'[w] = 1 \/ Announcing(w)' # {} =>
                         /\ row'[w].state \in {"COMPLETED", "DELETED"}
                         /\ row'[w].commit \in landed'
  BY DEF AnnouncedOnce
<1> QED BY DEF AnnouncedOnce

(* What the other steps leave alone.                                        *)
LEMMA OtherStep ==
  ASSUME PushInv, WorkspaceNext, landed \subseteq landed',
         ~\E c \in Executor : ExecutorStep(c)
  PROVE  /\ row' \in [Workspace -> Rows \cup {NoRow}]
         /\ call' \in [Executor -> Executions \cup {NoExecution}]
         /\ RowsHold' /\ ExecutionsHold' /\ AnnouncedOnce'
         /\ UNCHANGED <<created, live, announced, interrupted>>
         /\ \A c \in Executor : call'[c] # call[c] =>
              /\ call'[c].at \in {"loaded", "delete"} /\ call[c] = NoExecution
              /\ call'[c].credential = NoId
              /\ call'[c].workspace \in Workspace
              /\ call'[c].row = row[call'[c].workspace]
              /\ row[call'[c].workspace] # NoRow
         /\ \A w \in Workspace : row'[w] # row[w] => row'[w] = NewRow
<1> USE DEF PushInv, WorkspaceTypeOK
<1>1. CASE UNCHANGED <<row, call>> /\ UNCHANGED <<created, live, announced, interrupted>>
  <2>1. AnnouncedOnce' BY <1>1, AnnouncedStays DEF Announcing
  <2>2. RowsHold' BY <1>1 DEF RowsHold, RowHolds
  <2>3. ExecutionsHold' BY <1>1 DEF ExecutionsHold, StageHolds, RowHolds
  <2> QED BY <1>1, <2>1, <2>2, <2>3
<1>2. CASE \E w \in Workspace : Create(w)
  <2>1. PICK w \in Workspace : Create(w) BY <1>2
  <2>2. /\ row[w] = NoRow /\ row' = [row EXCEPT ![w] = NewRow] /\ NewRow \in Rows
        /\ UNCHANGED <<call, created, live, announced, interrupted>>
    BY <2>1 DEF Create, NewRow, Rows, WorkspaceStates, NoId, credentialVars
  <2>3. RowsHold'
    BY <2>2 DEF RowsHold, RowHolds, NewRow
  <2>4. ExecutionsHold'
    BY <2>2 DEF ExecutionsHold, StageHolds, RowHolds, Executions
  <2>5. AnnouncedOnce'
    <3>1. announced[w] # 1 /\ Announcing(w) = {}
      BY <2>2 DEF AnnouncedOnce, NoRow
    <3>2. \A v \in Workspace : Announcing(v)' = Announcing(v)
      BY <2>2 DEF Announcing
    <3> QED BY <2>2, <3>1, <3>2, AnnouncedStays
  <2> QED BY <2>2, <2>3, <2>4, <2>5
<1>3. CASE \E c \in Executor, w \in Workspace, at \in {"loaded", "delete"} : Load(c, w, at)
  <2>1. PICK c \in Executor, w \in Workspace, at \in {"loaded", "delete"} : Load(c, w, at)
    BY <1>3
  <2> DEFINE y == [at |-> at, workspace |-> w, row |-> row[w], credential |-> NoId,
                   before |-> NoHead]
  <2>2. /\ row[w] \in Rows /\ y \in Executions /\ call[c] = NoExecution
        /\ at = "loaded" => row[w].state # "COMPLETED"
        /\ call' = [call EXCEPT ![c] = y]
        /\ UNCHANGED <<row, created, live, announced, interrupted>>
    BY <2>1 DEF Load, Executions, Stages, NoHead, NoId, credentialVars
  <2>3. /\ call'[c] = y /\ \A d \in Executor \ {c} : call'[d] = call[d]
    BY <2>2
  <2>4. RowsHold' BY <2>2 DEF RowsHold, RowHolds
  <2>5. StageHolds(y, landed') /\ RowHolds(y.row, landed')
    BY <2>2 DEF StageHolds, RowsHold, RowHolds, NoRow, Rows
  <2>6. CopyOf(row[w], row[w]) /\ row[w] # NoRow
    BY <2>2 DEF CopyOf, Rows, NoRow, WorkspaceStates
  <2>7. ExecutionsHold'
    BY <2>2, <2>3, <2>5, <2>6 DEF ExecutionsHold, StageHolds, RowHolds
  <2>8. AnnouncedOnce'
    <3>1. \A v \in Workspace : Announcing(v)' = Announcing(v)
      BY <2>2, <2>3 DEF Announcing, NoExecution
    <3> QED BY <2>2, <3>1, AnnouncedStays
  <2>9. call' \in [Executor -> Executions \cup {NoExecution}] BY <2>2
  <2>10. \A d \in Executor : call'[d] # call[d] =>
           /\ d = c /\ call'[d].at \in {"loaded", "delete"} /\ call[d] = NoExecution
           /\ call'[d].credential = NoId /\ call'[d].workspace = w
           /\ call'[d].row = row[w]
    BY <2>2, <2>3
  <2> QED BY <2>2, <2>4, <2>6, <2>7, <2>8, <2>9, <2>10
<1>4. CASE OthersPush \/ OthersDelete \/ \E w \in Workspace : Expire(w)
  BY <1>1, <1>4 DEF OthersPush, OthersDelete, Expire, credentialVars, branchVars
<1> QED BY <1>2, <1>3, <1>4 DEF WorkspaceNext, ExecutorStep

(* So every step keeps the invariant,                                       *)
LEMMA PushInvStep ==
  ASSUME PushInv, WorkspaceNext
  PROVE  PushInv'
<1>1. /\ BranchHolds' /\ landed \subseteq landed'
      /\ tip' \in Nat \cup {NoHead} /\ reach' \subseteq Nat /\ landed' \subseteq Nat
      /\ commits' \in Nat
  BY BranchStep
<1>2. CASE \E c \in Executor : ExecutorStep(c)
  <2>0. PICK c \in Executor : ExecutorStep(c) BY <1>2
  <2>1. PICK y : Effect(c, y) BY <2>0, ExecutorEffect
  <2>2. /\ created' \in Nat /\ live' \subseteq Nat /\ interrupted' \subseteq Workspace
    <3>1. created \in Nat /\ live \subseteq Nat BY DEF PushInv, WorkspaceTypeOK
    <3>2. CASE MakesCredential(c, y)
      <4>1. created' = created + 1 /\ live' = live \cup {created'}
        BY <3>2 DEF MakesCredential
      <4>2. interrupted' \subseteq Workspace BY <2>1 DEF Effect
      <4> QED BY <3>1, <4>1, <4>2
    <3>3. CASE KeepsCredential(c, y)
      BY <2>1, <3>1, <3>3 DEF Effect, KeepsCredential
    <3> QED BY <2>1, <3>2, <3>3 DEF Effect
  <2> QED
    BY <1>1, <2>1, <2>2, EffectCopies, EffectAnnounced DEF PushInv, WorkspaceTypeOK
<1>3. CASE ~\E c \in Executor : ExecutorStep(c)
  BY <1>1, <1>3, OtherStep DEF PushInv, WorkspaceTypeOK
<1> QED BY <1>2, <1>3

(* the first state has it,                                                  *)
LEMMA PushInvInit == WorkspaceInit => PushInv
<1> SUFFICES ASSUME WorkspaceInit PROVE PushInv OBVIOUS
<1> USE DEF WorkspaceInit
<1>1. WorkspaceTypeOK
  BY DEF WorkspaceTypeOK, NoHead, Base
<1>2. BranchHolds BY DEF BranchHolds, NoHead, Base
<1>3. AnnouncedOnce
  BY DEF AnnouncedOnce, Announcing, NoExecution
<1> QED
  BY <1>1, <1>2, <1>3 DEF PushInv, ExecutionsHold, RowsHold

(* and doing nothing keeps it.                                              *)
LEMMA PushInvStays == PushInv /\ UNCHANGED workspaceVars => PushInv'
<1> SUFFICES ASSUME PushInv, UNCHANGED workspaceVars PROVE PushInv' OBVIOUS
<1>1. /\ UNCHANGED <<row, call, tip, reach, landed, commits, created, live, late>>
      /\ UNCHANGED <<announced, interrupted>>
  BY DEF workspaceVars, branchVars, credentialVars
<1> QED
  BY <1>1 DEF PushInv, WorkspaceTypeOK, BranchHolds, ExecutionsHold, RowsHold, AnnouncedOnce,
     Announcing, StageHolds, RowHolds, CopyOf

(* Copies, branch and announcements agree, in every reachable state.        *)
THEOREM WorkspaceInvariance == WorkspaceSpec => []PushInv
BY PushInvInit, PushInvStep, PushInvStays, PTL DEF WorkspaceSpec

(* What is on record as pushed, or announced, has been on the branch, and   *)
(* it is announced once, whatever calls fail and resume each other.         *)
THEOREM RecordsHold == WorkspaceSpec => []RecordedIsPushed
<1>1. PushInv => RecordedIsPushed
  <2>1. SUFFICES ASSUME PushInv, NEW w \in Workspace
                 PROVE  /\ row[w].state \in {"PUSHED", "COMPLETED"} => row[w].commit \in landed
                        /\ announced[w] + Cardinality(Announcing(w)) <= 1
                        /\ announced[w] = 1 => /\ row[w].commit \in landed
                                               /\ row[w].state \in {"COMPLETED", "DELETED"}
    BY DEF RecordedIsPushed, Announcing
  <2>2. row[w].state \in {"PUSHED", "COMPLETED"} => row[w].commit \in landed
    BY <2>1 DEF PushInv, RowsHold, RowHolds, NoRow
  <2>3. /\ \A c, d \in Announcing(w) : c = d
        /\ announced[w] \in {0, 1}
        /\ announced[w] = 1 => Announcing(w) = {}
    BY <2>1 DEF PushInv, AnnouncedOnce
  <2>4. announced[w] + Cardinality(Announcing(w)) <= 1
    <3>1. CASE Announcing(w) = {}
      BY <2>3, <3>1, FS_EmptySet
    <3>2. CASE Announcing(w) # {}
      <4>1. PICK c : Announcing(w) = {c} BY <2>3, <3>2
      <4>2. Cardinality(Announcing(w)) = 1 BY <4>1, FS_Singleton
      <4> QED BY <2>3, <3>2, <4>2
    <3> QED BY <3>1, <3>2
  <2> QED BY <2>1, <2>2, <2>4 DEF PushInv, AnnouncedOnce
<1> QED BY <1>1, WorkspaceInvariance, PTL

(* No push drops a commit from the branch.                                  *)
THEOREM PushesKeepCommits == WorkspaceSpec => BranchKeepsCommits
<1>1. PushInv /\ [WorkspaceNext]_workspaceVars => [reach \subseteq reach' \/ tip' = NoHead]_branchVars
  BY BranchStep DEF workspaceVars, branchVars
<1> QED BY <1>1, WorkspaceInvariance, PTL DEF WorkspaceSpec, BranchKeepsCommits

-----------------------------------------------------------------------------
(* Credentials                                                              *)
LEMMA CredentialStep ==
  ASSUME PushInv, CredentialInv, WorkspaceNext
  PROVE  CredentialInv'
<1> USE DEF PushInv, WorkspaceTypeOK
<1>1. PushInv' BY PushInvStep
<1>2. CASE \E c \in Executor : ExecutorStep(c)
  <2>0. PICK c \in Executor : ExecutorStep(c) BY <1>2
  <2>1. PICK y : Effect(c, y) BY <2>0, ExecutorEffect
  <2> DEFINE x == call[c]
             w == x.workspace
  <2>2. /\ x \in Executions /\ x # NoExecution /\ w \in Workspace
        /\ call'[c] = y /\ y \in Executions \cup {NoExecution}
        /\ \A d \in Executor \ {c} : call'[d] = call[d]
        /\ x.credential \in 0..created /\ x.row.credential \in 0..created
        /\ created \in Nat
    BY <2>1 DEF Effect, Goes, CredentialInv, Executions, Stages, NoExecution
  <2>3. CASE MakesCredential(c, y)
    <3>1. /\ created' = created + 1 /\ live' = live \cup {created'} /\ row' = row
          /\ y.at \in {"clone", "work"} /\ y.credential = created'
          /\ y.row.credential = created' /\ y # NoExecution
      BY <2>3 DEF MakesCredential, NoExecution
    <3>2. 0..created \subseteq 0..created' /\ 1..created \subseteq 1..created'
          /\ created' \notin 0..created /\ created' \in 1..created' /\ created' \in 0..created'
      BY <2>2, <3>1
    <3>3. /\ live' \subseteq 1..created'
          /\ \A v \in Workspace : row'[v] # NoRow => row'[v].credential \in 0..created'
          /\ \A d \in Executor : call'[d] # NoExecution =>
               call'[d].credential \in 0..created' /\ call'[d].row.credential \in 0..created'
      BY <2>2, <3>1, <3>2 DEF CredentialInv
    <3>4. \A d \in Executor : d # c => (d \in Owners' <=> d \in Owners)
      BY <2>2 DEF Owners
    <3>5. c \in Owners' BY <2>2, <3>1 DEF Owners, Own
    <3>6. ASSUME NEW a \in Owners'
          PROVE  /\ call'[a].credential \in live'
                 /\ call'[a].row.credential = call'[a].credential
                 /\ \A d \in Owners' : call'[d].credential = call'[a].credential => a = d
                 /\ \A d \in Executor :
                      /\ call'[d].at \in {"finish", "complete"} =>
                           call'[d].credential # call'[a].credential
                      /\ call'[d].at = "loaded" /\ call'[d].row.state = "PUSHED" =>
                           call'[d].row.credential # call'[a].credential
                 /\ \A v \in Workspace :
                      row'[v].state = "PUSHED" => row'[v].credential # call'[a].credential
      <4>0. /\ a \in Executor
            /\ \A d \in Executor \ {c} : call[d].at \in {"finish", "complete", "loaded"} \cup Own =>
                 call[d].credential # created' /\ call[d].row.credential # created'
        BY <3>2 DEF Owners, CredentialInv, NoExecution, Own
      <4>1. CASE a = c
        BY <2>2, <3>1, <3>2, <3>4, <4>0, <4>1 DEF CredentialInv, Owners, NoRow
      <4>2. CASE a # c
        <5>1. a \in Owners /\ call'[a] = call[a] BY <2>2, <3>4, <4>0, <4>2
        <5>2. /\ call[a].credential # created' BY <4>0, <4>2, <5>1 DEF Owners
        <5> QED BY <2>2, <3>1, <3>4, <4>0, <4>2, <5>1, <5>2 DEF CredentialInv, Owners
      <4> QED BY <4>1, <4>2
    <3> QED BY <3>3, <3>6 DEF CredentialInv
  <2>4. CASE KeepsCredential(c, y)
    <3>1. /\ created' = created
          /\ \/ live' = live
             \/ x.at \in Holding /\ y.at \notin Own /\ live' = live \ {x.credential}
          /\ y # NoExecution =>
               /\ y.at # "loaded"
               /\ \/ x.at \in Holding /\ y.credential = x.credential
                  \/ /\ x.at = "loaded" /\ x.row.state = "PUSHED"
                     /\ y.at = "finish" /\ y.credential = x.row.credential
                  \/ x.at = "complete" /\ y.at = "announce" /\ y.credential = x.credential
               /\ y.row.credential \in {x.row.credential, NoId}
               /\ y.at \in Own => x.at \in Own /\ y.row.credential = x.row.credential
      BY <2>4 DEF KeepsCredential
    <3>2. \A v \in Workspace :
            \/ row'[v] = row[v]
            \/ /\ row'[v].credential \in {x.row.credential, NoId}
               /\ row'[v].state = "PUSHED" => x.at \in Own /\ y.at \notin Own
      <4>1. CASE KeepsRow(c, y) BY <4>1 DEF KeepsRow
      <4>2. CASE SavesRow(c, y)
        <5>1. PICK new \in Rows :
                /\ row' = [row EXCEPT ![w] = new]
                /\ new.credential \in {x.row.credential, NoId}
                /\ new.state = "PUSHED" => x.at = "pushed" /\ y.at = "finish"
          BY <4>2 DEF SavesRow
        <5> QED BY <2>2, <5>1 DEF Own
      <4> QED BY <2>1, <4>1, <4>2 DEF Effect
    <3>3. /\ live' \subseteq 1..created'
          /\ \A v \in Workspace : row'[v] # NoRow => row'[v].credential \in 0..created'
          /\ \A d \in Executor : call'[d] # NoExecution =>
               call'[d].credential \in 0..created' /\ call'[d].row.credential \in 0..created'
      <4>1. NoId \in 0..created BY <2>2 DEF NoId
      <4>2. live' \subseteq 1..created' BY <3>1 DEF CredentialInv
      <4>3. \A v \in Workspace : row'[v] # NoRow => row'[v].credential \in 0..created'
        BY <2>2, <3>1, <3>2, <4>1 DEF CredentialInv
      <4>4. \A d \in Executor : call'[d] # NoExecution =>
              call'[d].credential \in 0..created' /\ call'[d].row.credential \in 0..created'
        BY <2>2, <3>1, <4>1 DEF CredentialInv
      <4> QED BY <4>2, <4>3, <4>4
    <3>4. /\ Owners' \subseteq Owners
          /\ c \in Owners' => y.at \in Own
      BY <2>2, <3>1 DEF Owners, NoExecution, Own
    <3>5. \A d \in Owners : call[d].credential # NoId
      BY DEF CredentialInv, NoId
    <3>6. ASSUME NEW a \in Owners'
          PROVE  /\ call'[a].credential \in live'
                 /\ call'[a].row.credential = call'[a].credential
                 /\ \A d \in Owners' : call'[d].credential = call'[a].credential => a = d
                 /\ \A d \in Executor :
                      /\ call'[d].at \in {"finish", "complete"} =>
                           call'[d].credential # call'[a].credential
                      /\ call'[d].at = "loaded" /\ call'[d].row.state = "PUSHED" =>
                           call'[d].row.credential # call'[a].credential
                 /\ \A v \in Workspace :
                      row'[v].state = "PUSHED" => row'[v].credential # call'[a].credential
      <4>1. /\ a \in Owners /\ a \in Executor BY <3>4 DEF Owners
      <4>2. \A d \in Owners' : /\ d \in Executor
                               /\ call'[d].credential = call[d].credential
                               /\ call'[d].row.credential = call[d].row.credential
        <5>1. SUFFICES ASSUME NEW d \in Owners'
                       PROVE  /\ d \in Executor
                              /\ call'[d].credential = call[d].credential
                              /\ call'[d].row.credential = call[d].row.credential
          OBVIOUS
        <5>2. d \in Executor BY DEF Owners
        <5>3. CASE d # c BY <2>2, <5>2, <5>3
        <5>4. CASE d = c
          <6>1. y.at \in Own BY <2>2, <5>4 DEF Owners
          <6> QED BY <2>2, <3>1, <5>4, <6>1 DEF Own, NoExecution
        <5> QED BY <5>2, <5>3, <5>4
      <4>3. a # c => call[a].credential # x.credential \/ x.at \notin Holding
        BY <2>2, <4>1 DEF CredentialInv, Owners, Holding
      <4>4. call'[a].credential \in live'
        BY <2>2, <3>1, <4>1, <4>2, <4>3 DEF CredentialInv, Owners
      <4>5. call'[a].row.credential = call'[a].credential
        BY <4>1, <4>2 DEF CredentialInv
      <4>6. \A d \in Owners' : call'[d].credential = call'[a].credential => a = d
        BY <3>4, <4>1, <4>2 DEF CredentialInv
      <4>7. ASSUME NEW d \in Executor
            PROVE  /\ call'[d].at \in {"finish", "complete"} =>
                        call'[d].credential # call'[a].credential
                   /\ call'[d].at = "loaded" /\ call'[d].row.state = "PUSHED" =>
                        call'[d].row.credential # call'[a].credential
        <5>1. CASE d # c
          BY <2>2, <4>1, <4>2, <5>1 DEF CredentialInv
        <5>2. CASE d = c /\ a # c
          <6>1. x.at = "loaded" /\ x.row.state = "PUSHED" =>
                  x.row.credential # call[a].credential
            BY <4>1 DEF CredentialInv
          <6> QED BY <2>2, <3>1, <4>2, <4>3, <5>2, <6>1 DEF NoExecution
        <5>3. CASE d = c /\ a = c
          BY <2>2, <5>3 DEF Owners, Own
        <5> QED BY <5>1, <5>2, <5>3
      <4>8. ASSUME NEW v \in Workspace, row'[v].state = "PUSHED"
            PROVE  row'[v].credential # call'[a].credential
        <5>1. CASE row'[v] = row[v]
          BY <4>1, <4>2, <4>8, <5>1 DEF CredentialInv
        <5>2. CASE row'[v] # row[v]
          <6>1. /\ row'[v].credential \in {x.row.credential, NoId}
                /\ x.at \in Own /\ y.at \notin Own
            BY <3>2, <4>8, <5>2
          <6>2. c \in Owners /\ a # c BY <2>2, <6>1 DEF Owners
          <6>3. x.row.credential = x.credential BY <6>2 DEF CredentialInv
          <6> QED BY <3>5, <4>1, <4>2, <4>3, <6>1, <6>2, <6>3 DEF Holding
        <5> QED BY <5>1, <5>2
      <4> QED BY <4>4, <4>5, <4>6, <4>7, <4>8
    <3> QED BY <3>3, <3>6 DEF CredentialInv
  <2> QED BY <2>1, <2>3, <2>4 DEF Effect
<1>3. CASE ~\E c \in Executor : ExecutorStep(c)
  <2>1. landed \subseteq landed' BY BranchStep
  <2>2. /\ UNCHANGED <<created, live>> /\ created \in Nat
        /\ \A c \in Executor : call'[c] # call[c] =>
             /\ call'[c].at \in {"loaded", "delete"}
             /\ call'[c].credential = NoId
             /\ call'[c].workspace \in Workspace
             /\ call'[c].row = row[call'[c].workspace]
             /\ row[call'[c].workspace] # NoRow
        /\ \A v \in Workspace : row'[v] # row[v] => row'[v] = NewRow
    BY <1>3, <2>1, OtherStep
  <2>3. Owners' = Owners /\ \A a \in Owners : call'[a] = call[a]
    BY <1>3, <2>1, OtherStep DEF Owners, Own, NoExecution
  <2>4. /\ live' \subseteq 1..created'
        /\ \A v \in Workspace : row'[v] # NoRow => row'[v].credential \in 0..created'
        /\ \A d \in Executor : call'[d] # NoExecution =>
             call'[d].credential \in 0..created' /\ call'[d].row.credential \in 0..created'
    BY <2>2 DEF CredentialInv, NewRow, NoId
  <2>5. \A a \in Owners :
          /\ \A d \in Executor :
               /\ call'[d].at \in {"finish", "complete"} =>
                    call'[d].credential # call[a].credential
               /\ call'[d].at = "loaded" /\ call'[d].row.state = "PUSHED" =>
                    call'[d].row.credential # call[a].credential
          /\ \A v \in Workspace :
               row'[v].state = "PUSHED" => row'[v].credential # call[a].credential
    BY <2>2 DEF CredentialInv, NewRow
  <2> QED BY <2>2, <2>3, <2>4, <2>5 DEF CredentialInv
<1> QED BY <1>2, <1>3

(* Every step keeps the account of live credentials.                        *)
LEMMA AccountedStep ==
  ASSUME PushInv, Accounted, WorkspaceNext
  PROVE  Accounted'
<1>1. CASE \E c \in Executor : ExecutorStep(c)
  <2>0. PICK c \in Executor : ExecutorStep(c) BY <1>1
  <2>1. PICK y : Effect(c, y) BY <2>0, ExecutorEffect
  <2>2. /\ call'[c] = y /\ y \in Executions \cup {NoExecution}
        /\ \A d \in Executor \ {c} : call'[d] = call[d]
        /\ interrupted \subseteq interrupted'
    BY <2>1 DEF Effect, Goes, PushInv, WorkspaceTypeOK
  <2>3. SUFFICES ASSUME interrupted' = {}, NEW k \in live'
                 PROVE  \E d \in Executor : call'[d].at \in Holding /\ call'[d].credential = k
    BY DEF Accounted, Holding
  <2>4. \A j \in live : \E d \in Executor : call[d].at \in Holding /\ call[d].credential = j
    BY <2>2, <2>3 DEF Accounted, Holding
  <2>5. CASE MakesCredential(c, y)
    <3>1. /\ call[c].at = "loaded" /\ live' = live \cup {created'}
          /\ y.at \in Holding /\ y.credential = created'
      BY <2>5 DEF MakesCredential, Holding, Own
    <3>2. CASE k = created' BY <2>2, <3>1, <3>2
    <3>3. CASE k \in live
      <4>1. PICK d \in Executor : call[d].at \in Holding /\ call[d].credential = k
        BY <2>4, <3>3
      <4>2. d # c BY <3>1, <4>1 DEF Holding, Own
      <4> QED BY <2>2, <4>1, <4>2
    <3> QED BY <3>1, <3>2, <3>3
  <2>6. CASE KeepsCredential(c, y)
    <3>1. k \in live BY <2>6 DEF KeepsCredential
    <3>2. PICK d \in Executor : call[d].at \in Holding /\ call[d].credential = k
      BY <2>4, <3>1
    <3>3. CASE d # c BY <2>2, <3>2, <3>3
    <3>4. CASE d = c
      <4>1. y.at \in Holding
        BY <2>3, <2>6, <3>2, <3>4 DEF KeepsCredential
      <4>2. y # NoExecution BY <4>1 DEF Holding, Own, NoExecution
      <4>3. y.credential = k
        BY <2>6, <3>2, <3>4, <4>2 DEF KeepsCredential, Holding, Own
      <4> QED BY <2>2, <3>4, <4>1, <4>3
    <3> QED BY <3>3, <3>4
  <2> QED BY <2>1, <2>5, <2>6 DEF Effect
<1>2. CASE ~\E c \in Executor : ExecutorStep(c)
  <2>1. landed \subseteq landed' BY BranchStep
  <2>2. /\ UNCHANGED <<live, interrupted>>
        /\ \A c \in Executor : call'[c] # call[c] => call[c] = NoExecution
    BY <1>2, <2>1, OtherStep
  <2>3. \A c \in Executor : call[c].at \in Own \cup {"finish"} => call'[c] = call[c]
    BY <2>2 DEF NoExecution, Own
  <2> QED BY <2>2, <2>3 DEF Accounted
<1> QED BY <1>1, <1>2

(* While it clones and pushes a call has a credential of its own that no    *)
(* other call revokes.                                                      *)
THEOREM CredentialsAreOwn == WorkspaceSpec => []CredentialIsOwn
<1>1. WorkspaceInit => CredentialInv
  BY DEF WorkspaceInit, CredentialInv, Owners, Own, NoExecution
<1>2. PushInv /\ CredentialInv /\ [WorkspaceNext]_workspaceVars => CredentialInv'
  <2>1. CredentialInv /\ UNCHANGED workspaceVars => CredentialInv'
    <3>1. SUFFICES ASSUME CredentialInv, UNCHANGED workspaceVars PROVE CredentialInv'
      OBVIOUS
    <3>2. UNCHANGED <<row, call, created, live>>
      BY <3>1 DEF workspaceVars, credentialVars
    <3>3. Owners' = Owners BY <3>2 DEF Owners
    <3> QED BY <3>1, <3>2, <3>3 DEF CredentialInv
  <2> QED BY <2>1, CredentialStep
<1>3. CredentialInv => CredentialIsOwn
  BY DEF CredentialInv, CredentialIsOwn, Owners, Own
<1> QED BY <1>1, <1>2, <1>3, WorkspaceInvariance, PTL DEF WorkspaceSpec

(* Every live credential is that of a call that goes on to revoke it, until *)
(* a call is interrupted; so completed workspaces leave none behind.        *)
THEOREM CompletedLeaveNothing == WorkspaceSpec => []NothingLeaks
<1>1. WorkspaceInit => Accounted
  BY DEF WorkspaceInit, Accounted
<1>2. PushInv /\ Accounted /\ [WorkspaceNext]_workspaceVars => Accounted'
  <2>1. Accounted /\ UNCHANGED workspaceVars => Accounted'
    BY DEF Accounted, workspaceVars, credentialVars
  <2> QED BY <2>1, AccountedStep
<1>3. PushInv /\ Accounted => NothingLeaks
  BY DEF PushInv, WorkspaceTypeOK, Accounted, NothingLeaks, NoExecution, Own
<1> QED BY <1>1, <1>2, <1>3, WorkspaceInvariance, PTL DEF WorkspaceSpec
=============================================================================
