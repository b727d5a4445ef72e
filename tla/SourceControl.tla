----------------------------- MODULE SourceControl -----------------------------
(***************************************************************************)
(* Projects, their repositories at the Git provider and what the platform  *)
(* believes of them (internal/source/application).  ProvisionRepository    *)
(* calls the provider between two transactions, and with it several times; *)
(* a push webhook and the reconciler read a branch head from the provider  *)
(* before the transaction that stores it.                                  *)
(*                                                                         *)
(* A transaction is one step (a mutex in memory, SERIALIZABLE with retries *)
(* in PostgreSQL), so the version checks inside one never fail and the     *)
(* versions are left out.  A project and its repository are made together  *)
(* and share an id here.  A call may stop at any place: an error of the    *)
(* provider, a cancelled request or a crash, after which the local state   *)
(* of the call is gone.                                                    *)
(***************************************************************************)
EXTENDS Naturals, FiniteSets

CONSTANTS
  Repository,   \* projects with their repositories, by idempotency key
  Slug,         \* names of projects and paths of provider projects
  Caller,       \* concurrent ProvisionRepository calls
  Handler,      \* concurrent deliveries of push webhooks
  Reconciler,   \* concurrent reconciliation passes
  Branch,       \* branch names
  Main,         \* the provider's default branch
  MergeRequest, \* merge request numbers within a repository
  Event,        \* webhook ids
  Reused,       \* webhook ids that the provider may use for a second body
  Remote,       \* ids the provider may give to its projects
  MaxCommits,   \* bound on the commits of one branch
  None

ASSUME MainAssumption == Main \in Branch
ASSUME BoundAssumption == MaxCommits \in Nat \ {0}
ASSUME NoneAssumption == None \notin Repository \cup Slug \cup Remote

VARIABLES
  project,      \* [Repository -> the slug of the project, None before it exists]
  repository,   \* [Repository -> the repository row]
  branch,       \* [Repository -> [Branch -> the commit of the BranchHead row]]
  mergeRequest, \* [Repository -> [MergeRequest -> the state of its row]]
  receipt,      \* [Event -> the body stored with the webhook id]
  emitted,      \* [Event -> how many outbox rows carry the webhook id]
  provision,    \* [Caller -> its ProvisionRepository call in progress]
  handle,       \* [Handler -> its push webhook in progress]
  reconcile,    \* [Reconciler -> its pass in progress]
  remote,       \* external: [Remote -> the provider's project]
  head,         \* external: [Remote -> [Branch -> how many commits it has]]
  sent          \* external: the webhooks the provider has sent

records  == <<project, repository, branch, mergeRequest, receipt, emitted>>
calls    == <<provision, handle, reconcile>>
provider == <<remote, head, sent>>
vars     == <<records, calls, provider>>

RepositoryStates == {"NONE", "REQUESTED", "PROVISIONING", "READY", "FAILED"}
MergeRequestStates == {"OPEN", "MERGED", "CLOSED"}

(* A commit is known by its place in the sequence of heads that a branch of *)
(* a provider's project has had; a forced push is a push like another.      *)
Commits == [remote : Remote, number : 1..MaxCommits]
NoCommit == [remote |-> None, number |-> 0]

Pushes == [kind : {"push"}, id : Event, remote : Remote, branch : Branch,
           after : 1..MaxCommits]
MergeRequestEvents ==
  [kind : {"merge_request"}, id : Event, remote : Remote, iid : MergeRequest,
   state : MergeRequestStates]
Webhooks == Pushes \cup MergeRequestEvents
NoWebhook == [kind |-> "none"]

NoRepository == [state |-> "NONE", remote |-> None]
NoRemote == [repository |-> None, path |-> None, protected |-> FALSE]
NoCall   == [pc |-> "idle", repository |-> None, slug |-> None, remote |-> None]
NoHandle == [webhook |-> NoWebhook, repository |-> None, commit |-> NoCommit]
NoPass   == [todo |-> {}, repository |-> None, commit |-> NoCommit]

TypeOK ==
  /\ project \in [Repository -> Slug \cup {None}]
  /\ repository \in [Repository -> [state : RepositoryStates,
                                    remote : Remote \cup {None}]]
  /\ branch \in [Repository -> [Branch -> Commits \cup {NoCommit}]]
  /\ mergeRequest \in
       [Repository -> [MergeRequest -> MergeRequestStates \cup {"NONE"}]]
  /\ receipt \in [Event -> Webhooks \cup {NoWebhook}]
  /\ emitted \in [Event -> Nat]
  /\ provision \in
       [Caller -> [pc : {"idle", "creating", "finding", "failing",
                         "protecting", "attaching"},
                   repository : Repository \cup {None},
                   slug : Slug \cup {None}, remote : Remote \cup {None}]]
  /\ handle \in [Handler -> [webhook : Pushes \cup {NoWebhook},
                             repository : Repository \cup {None},
                             commit : Commits \cup {NoCommit}]]
  /\ reconcile \in [Reconciler -> [todo : SUBSET Repository,
                                   repository : Repository \cup {None},
                                   commit : Commits \cup {NoCommit}]]
  /\ remote \in [Remote -> [repository : Repository \cup {None},
                            path : Slug \cup {None}, protected : BOOLEAN]]
  /\ head \in [Remote -> [Branch -> 0..MaxCommits]]
  /\ sent \subseteq Webhooks

Init ==
  /\ project = [r \in Repository |-> None]
  /\ repository = [r \in Repository |-> NoRepository]
  /\ branch = [r \in Repository |-> [b \in Branch |-> NoCommit]]
  /\ mergeRequest = [r \in Repository |-> [m \in MergeRequest |-> "NONE"]]
  /\ receipt = [e \in Event |-> NoWebhook]
  /\ emitted = [e \in Event |-> 0]
  /\ provision = [c \in Caller |-> NoCall]
  /\ handle = [h \in Handler |-> NoHandle]
  /\ reconcile = [c \in Reconciler |-> NoPass]
  /\ remote = [i \in Remote |-> NoRemote]
  /\ head = [i \in Remote |-> [b \in Branch |-> 0]]
  /\ sent = {}

-----------------------------------------------------------------------------
(* Projects.  A key that is used again returns the stored result, or a      *)
(* conflict where the request differs, and changes nothing.                 *)

SlugIsFree(s) == \A p \in Repository : project[p] # s

SetState(r, state) ==
  repository' = [repository EXCEPT ![r] =
    [state |-> state, remote |-> repository[r].remote]]

CreateProject(r, s) ==
  /\ project[r] = None
  /\ SlugIsFree(s)
  /\ project' = [project EXCEPT ![r] = s]
  /\ SetState(r, "REQUESTED")
  /\ UNCHANGED <<branch, mergeRequest, receipt, emitted, calls, provider>>

(* The provider's project keeps the path it was created with.               *)
RenameProject(r, s) ==
  /\ project[r] # None
  /\ SlugIsFree(s)
  /\ project' = [project EXCEPT ![r] = s]
  /\ UNCHANGED <<repository, branch, mergeRequest, receipt, emitted, calls,
                 provider>>

-----------------------------------------------------------------------------
(* ProvisionRepository: a transaction, up to three calls of the provider,   *)
(* a transaction.  A repository that is READY is returned as it is.         *)

BeginProvisioning(c, r) ==
  /\ provision[c].pc = "idle"
  /\ repository[r].state \in {"REQUESTED", "PROVISIONING", "FAILED"}
  /\ SetState(r, "PROVISIONING")
  /\ provision' = [provision EXCEPT ![c] =
       [pc |-> "creating", repository |-> r, slug |-> project[r],
        remote |-> None]]
  /\ UNCHANGED <<project, branch, mergeRequest, receipt, emitted, handle,
                 reconcile, provider>>

GoOn(c, pc, i) ==
  provision' = [provision EXCEPT ![c] =
    [pc |-> pc, repository |-> provision[c].repository,
     slug |-> provision[c].slug, remote |-> i]]

Exists(i) == remote[i].repository # None

(* The provider refuses a path that is taken.  A new project is initialised *)
(* with a first commit on its default branch.  Its answer may be lost.      *)
CreateRemote(c, i) ==
  /\ provision[c].pc = "creating"
  /\ ~Exists(i)
  /\ \A j \in Remote : remote[j].path # provision[c].slug
  /\ remote' = [remote EXCEPT ![i] =
       [repository |-> provision[c].repository, path |-> provision[c].slug,
        protected |-> FALSE]]
  /\ head' = [head EXCEPT ![i][Main] = 1]
  /\ \/ GoOn(c, "protecting", i)
     \/ GoOn(c, "finding", None)
  /\ UNCHANGED <<records, handle, reconcile, sent>>

CreateFails(c) ==
  /\ provision[c].pc = "creating"
  /\ GoOn(c, "finding", None)
  /\ UNCHANGED <<records, handle, reconcile, provider>>

(* By the correlation id in the project's description.                      *)
FindRemote(c, i) ==
  /\ provision[c].pc = "finding"
  /\ remote[i].repository = provision[c].repository
  /\ GoOn(c, "protecting", i)
  /\ UNCHANGED <<records, handle, reconcile, provider>>

(* Nothing was found, or the provider could not say.                        *)
FindFails(c) ==
  /\ provision[c].pc = "finding"
  /\ GoOn(c, "failing", None)
  /\ UNCHANGED <<records, handle, reconcile, provider>>

(* Whatever another call has made of the repository meanwhile.              *)
FailProvisioning(c) ==
  /\ provision[c].pc = "failing"
  /\ SetState(provision[c].repository, "FAILED")
  /\ provision' = [provision EXCEPT ![c] = NoCall]
  /\ UNCHANGED <<project, branch, mergeRequest, receipt, emitted, handle,
                 reconcile, provider>>

ProtectBranch(c) ==
  /\ provision[c].pc = "protecting"
  /\ remote' = [remote EXCEPT ![provision[c].remote].protected = TRUE]
  /\ GoOn(c, "attaching", provision[c].remote)
  /\ UNCHANGED <<records, handle, reconcile, head, sent>>

(* Mutant: whatever project the repository was attached to meanwhile.       *)
MayAttachAny(r, i) == TRUE

MayAttach(r, i) == repository[r].remote \in {None, i}

AttachProvider(c) ==
  LET r == provision[c].repository
      i == provision[c].remote
  IN /\ provision[c].pc = "attaching"
     /\ MayAttach(r, i)
     /\ repository' = [repository EXCEPT ![r] = [state |-> "READY", remote |-> i]]
     /\ provision' = [provision EXCEPT ![c] = NoCall]
     /\ UNCHANGED <<project, branch, mergeRequest, receipt, emitted, handle,
                    reconcile, provider>>

StopProvision(c) ==
  /\ provision[c].pc # "idle"
  /\ provision' = [provision EXCEPT ![c] = NoCall]
  /\ UNCHANGED <<records, handle, reconcile, provider>>

-----------------------------------------------------------------------------
(* Webhooks.  A delivery under another tenant's path, or of a project that  *)
(* is attached to no repository, is refused and changes nothing.            *)

(* Mutant: the provider is asked only where no head is stored yet.          *)
ReadStoredHead(h, w, r) ==
  /\ handle[h] = NoHandle
  /\ w \in sent /\ w.kind = "push"
  /\ repository[r].remote = w.remote
  /\ head[w.remote][w.branch] > 0
  /\ handle' = [handle EXCEPT ![h] =
       [webhook |-> w, repository |-> r,
        commit |-> IF branch[r][w.branch] # NoCommit THEN branch[r][w.branch]
                   ELSE [remote |-> w.remote,
                         number |-> head[w.remote][w.branch]]]]
  /\ UNCHANGED <<records, provision, reconcile, provider>>

(* The repository is looked up before the head is read; what is found does  *)
(* not change any more (IdentityIsKept), so that both are one step.         *)
ReadHead(h, w, r) ==
  /\ handle[h] = NoHandle
  /\ w \in sent /\ w.kind = "push"
  /\ repository[r].remote = w.remote
  /\ head[w.remote][w.branch] > 0
  /\ handle' = [handle EXCEPT ![h] =
       [webhook |-> w, repository |-> r,
        commit |-> [remote |-> w.remote, number |-> head[w.remote][w.branch]]]]
  /\ UNCHANGED <<records, provision, reconcile, provider>>

(* ReceiveWebhook: an id seen before is a duplicate, or a conflict where    *)
(* its body differs; both leave everything as it is.                        *)
Fresh(w) == receipt[w.id] = NoWebhook

Receive(w) ==
  /\ receipt' = [receipt EXCEPT ![w.id] = w]
  /\ emitted' = [emitted EXCEPT ![w.id] = @ + 1]

HandlePush(h) ==
  LET w == handle[h].webhook
  IN /\ handle[h] # NoHandle
     /\ IF Fresh(w)
        THEN /\ Receive(w)
             /\ branch' = [branch EXCEPT ![handle[h].repository][w.branch] =
                             handle[h].commit]
        ELSE UNCHANGED <<receipt, emitted, branch>>
     /\ handle' = [handle EXCEPT ![h] = NoHandle]
     /\ UNCHANGED <<project, repository, mergeRequest, provision, reconcile,
                    provider>>

StopHandler(h) ==
  /\ handle[h] # NoHandle
  /\ handle' = [handle EXCEPT ![h] = NoHandle]
  /\ UNCHANGED <<records, provision, reconcile, provider>>

(* One transaction; the state is the one of the delivered body.             *)
HandleMergeRequest(w, r) ==
  /\ w \in sent /\ w.kind = "merge_request"
  /\ repository[r].remote = w.remote
  /\ Fresh(w)
  /\ Receive(w)
  /\ mergeRequest' = [mergeRequest EXCEPT ![r][w.iid] = w.state]
  /\ UNCHANGED <<project, repository, branch, calls, provider>>

-----------------------------------------------------------------------------
(* The reconciler lists the repositories and takes those that are READY one *)
(* after the other, in any order; one that fails is skipped.                *)

Ready(r) == repository[r].state = "READY"

ListRepositories(c) ==
  /\ reconcile[c] = NoPass
  /\ reconcile' = [reconcile EXCEPT ![c] =
       [todo |-> {r \in Repository : Ready(r)}, repository |-> None,
        commit |-> NoCommit]]
  /\ UNCHANGED <<records, provision, handle, provider>>

ReadRemote(c, r) ==
  LET i == repository[r].remote
  IN /\ reconcile[c].repository = None
     /\ r \in reconcile[c].todo
     /\ reconcile' = [reconcile EXCEPT ![c] =
          [todo |-> reconcile[c].todo \ {r}, repository |-> r,
           commit |-> [remote |-> i, number |-> head[i][Main]]]]
     /\ UNCHANGED <<records, provision, handle, provider>>

(* Mutant: a head is stored only where there is none.                       *)
SyncMissing(c) ==
  LET r == reconcile[c].repository
  IN /\ r # None
     /\ branch' = IF branch[r][Main] # NoCommit THEN branch
                  ELSE [branch EXCEPT ![r][Main] = reconcile[c].commit]
     /\ reconcile' = [reconcile EXCEPT ![c] =
          [todo |-> reconcile[c].todo, repository |-> None,
           commit |-> NoCommit]]
     /\ UNCHANGED <<project, repository, mergeRequest, receipt, emitted,
                    provision, handle, provider>>

(* Path, URL and default branch are data of the repository row and left     *)
(* out.  A head that has not changed is not written.                        *)
SyncRepository(c) ==
  LET r == reconcile[c].repository
  IN /\ r # None
     /\ branch' = [branch EXCEPT ![r][Main] = reconcile[c].commit]
     /\ reconcile' = [reconcile EXCEPT ![c] =
          [todo |-> reconcile[c].todo, repository |-> None,
           commit |-> NoCommit]]
     /\ UNCHANGED <<project, repository, mergeRequest, receipt, emitted,
                    provision, handle, provider>>

(* An error with one repository.                                            *)
SkipRepository(c, r) ==
  /\ reconcile[c].repository = r \/ r \in reconcile[c].todo
  /\ reconcile' = [reconcile EXCEPT ![c] =
       [todo |-> reconcile[c].todo \ {r}, repository |-> None,
        commit |-> NoCommit]]
  /\ UNCHANGED <<records, provision, handle, provider>>

StopPass(c) ==
  /\ reconcile[c] # NoPass
  /\ reconcile' = [reconcile EXCEPT ![c] = NoPass]
  /\ UNCHANGED <<records, provision, handle, provider>>

-----------------------------------------------------------------------------
(* The provider: users push to it and change merge requests, and it sends a *)
(* webhook for each, which may be delivered never, late or several times.   *)

MaySend(e) == e \in Reused \/ \A w \in sent : w.id # e

Push(i, b, e) ==
  /\ Exists(i)
  /\ head[i][b] < MaxCommits
  /\ MaySend(e)
  /\ head' = [head EXCEPT ![i][b] = @ + 1]
  /\ sent' = sent \cup {[kind |-> "push", id |-> e, remote |-> i, branch |-> b,
                         after |-> head[i][b] + 1]}
  /\ UNCHANGED <<records, calls, remote>>

ChangeMergeRequest(i, m, s, e) ==
  /\ Exists(i)
  /\ MaySend(e)
  /\ sent' = sent \cup {[kind |-> "merge_request", id |-> e, remote |-> i,
                         iid |-> m, state |-> s]}
  /\ UNCHANGED <<records, calls, remote, head>>

-----------------------------------------------------------------------------
Next ==
  \/ \E r \in Repository, s \in Slug : CreateProject(r, s) \/ RenameProject(r, s)
  \/ \E c \in Caller :
       \/ \E r \in Repository : BeginProvisioning(c, r)
       \/ \E i \in Remote : CreateRemote(c, i) \/ FindRemote(c, i)
       \/ CreateFails(c) \/ FindFails(c) \/ FailProvisioning(c)
       \/ ProtectBranch(c) \/ AttachProvider(c) \/ StopProvision(c)
  \/ \E h \in Handler :
       \/ \E w \in sent, r \in Repository : ReadHead(h, w, r)
       \/ HandlePush(h) \/ StopHandler(h)
  \/ \E w \in sent, r \in Repository : HandleMergeRequest(w, r)
  \/ \E c \in Reconciler :
       \/ ListRepositories(c) \/ SyncRepository(c) \/ StopPass(c)
       \/ \E r \in Repository : ReadRemote(c, r) \/ SkipRepository(c, r)
  \/ \E i \in Remote, e \in Event :
       \/ \E b \in Branch : Push(i, b, e)
       \/ \E m \in MergeRequest, s \in MergeRequestStates :
            ChangeMergeRequest(i, m, s, e)

Spec == Init /\ [][Next]_vars

(* Restoring missed webhooks needs that passes are begun again and again,   *)
(* and that the provider and the store do not fail every time a repository  *)
(* is read and stored.  No command of the repository starts a pass yet: the *)
(* first part is an assumption on the caller of ReconcileAll.               *)
Fairness ==
  /\ WF_vars(\E c \in Reconciler : ListRepositories(c))
  /\ \A r \in Repository :
       /\ SF_vars(\E c \in Reconciler : ReadRemote(c, r))
       /\ SF_vars(\E c \in Reconciler :
                     reconcile[c].repository = r /\ SyncRepository(c))

FairSpec == Spec /\ Fairness

-----------------------------------------------------------------------------
(* A repository is attached to a provider project that was created for it   *)
(* and whose default branch was protected first, and every branch head it   *)
(* records is a commit of that project, although projects are renamed,      *)
(* paths change hands, answers are lost and calls fail at each place.       *)
HeadsOfOwnProject ==
  \A r \in Repository :
    /\ repository[r].remote # None =>
         /\ remote[repository[r].remote].repository = r
         /\ remote[repository[r].remote].protected
    /\ Ready(r) => repository[r].remote # None
    /\ \A b \in Branch : branch[r][b].remote \in {None, repository[r].remote}

(* The provider identity of a repository never changes, not even when a     *)
(* late failure marks it FAILED and it is provisioned again.                *)
IdentityIsKept ==
  [][\A r \in Repository : repository[r].remote # None =>
       repository'[r].remote = repository[r].remote]_vars

(* A webhook id gives rise to one source event at most, although deliveries *)
(* of it are handled concurrently; a receipt is stored exactly with it.     *)
DeliveredOnce ==
  \A e \in Event : emitted[e] = IF receipt[e] = NoWebhook THEN 0 ELSE 1

(* When a push is taken in, the head that is stored with it includes the    *)
(* pushed commit: no webhook is used up for a head older than its own.      *)
HandledPushIsIncluded ==
  [][\A e \in Event :
       (receipt[e] = NoWebhook /\ receipt'[e] \in Pushes) =>
         \E r \in Repository :
           LET w == receipt'[e]
           IN /\ branch'[r][w.branch].remote = w.remote
              /\ branch'[r][w.branch].number >= w.after]_vars

(* Of a repository that stays READY, the default branch's head is restored  *)
(* in the end, although webhooks are lost and older heads stored late.      *)
HeadsConverge ==
  \A r \in Repository :
    <>[]Ready(r) =>
      <>[](\E i \in Remote :
             /\ repository[r].remote = i
             /\ branch[r][Main] = [remote |-> i, number |-> head[i][Main]])
=============================================================================
