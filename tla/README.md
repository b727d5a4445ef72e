# Verification of the AI-native PaaS control plane

TLA+ models of the control plane in this repository, TLC runs that check them on small instances, and TLAPS proofs of
their main properties for every value of the constants. Paths are relative to the root of the repository.

- [How to run it](#how-to-run-it)
- [Inventory of the system](#inventory-of-the-system)
- [Modules](#modules)
- [The models, one by one](#the-models-one-by-one)
- [Runs, bounds and fairness](#runs-bounds-and-fairness)
- [What is proved](#what-is-proved)
- [What is only model-checked](#what-is-only-model-checked)
- [Where the code and what is said of it disagree](#where-the-code-and-what-is-said-of-it-disagree)
- [What is not modelled](#what-is-not-modelled)
- [Plan](#plan)

## How to run it

    tlc -workers 2 -config RuntimeDelivery_saga.cfg MC_RuntimeDelivery     # one run
    tlapm RuntimeDelivery_proofs.tla                                       # one proof module

`PROJECT.json` lists every run with its module, configuration and properties; the lines of source that each definition
stands for (`map`); for every property a plausible bug of the code that violates it (`mutants`: an operator marked
`\* mutant` takes the place of another definition); the hazards of the code at their lines; and the
theorems. The model checker needs up to three and a half minutes for a run, the prover a few minutes for any module (`Commerce_proofs` and `RuntimeDelivery_proofs` the longest).

## Inventory of the system

The product is a set of Go services. Each one keeps rows in PostgreSQL (or in memory, behind a mutex) and acts on the
world through ports: a Git provider, builders, a GitOps repository, the Kubernetes API. Each service is called over
HTTP by concurrent clients that repeat requests under an idempotency key. They do not share tables; they meet through
ports, through outbox events, and, for the runtime, through a Git repository and the status of a Kubernetes object:

    clients, agents ──HTTP──▶ agent ──ports──▶ source, build, runtime, kernel
                              kernel  ──outbox──▶ broker ──inbox──▶ consumers
                              source ◀──webhooks, API──▶ GitLab
                              build  ──▶ back end, scanner, signer, registry
                              runtime ──▶ GitOps repository ──Argo CD──▶ PaaSApp ◀──poll, status── operator
                              runtime ◀──observes PaaSApp.status──

| Component | State | Operations | What is hard | What makes it correct |
|---|---|---|---|---|
| Runtime delivery (`internal/runtime/application`, `domain`) | placements, cells, releases, deployments, active release, GitOps records, idempotency keys | CreateRelease, Deploy, RollbackWithRequest, ReconcileGitOps, ReconcileDeploymentStatus | a saga of three transactions and a Git push that can stop anywhere; observations applied late | one active release, which was ready; row, record, index and manifest agree; capacity adds up; a key keeps its release |
| GitOps repository (`internal/runtime/gitops`) | manifests, release index, commits | Commit, FindByRelease | calls that stop between files, index, git add and git commit; files of one release committed by another | no commit holds a torn bundle; one commit per release; a release is answered in the end |
| Runtime operator (`internal/runtime/operator`) | PaaSApp status, workloads, route, policy | Reconcile: rollout, migration, routing, cleanup, suspension, deletion | one API call at a time against an old copy; asynchronous deletion; replicas | traffic only to what was ready; migration first; traffic goes before compute; the manifest is reached |
| Kubernetes clients (`internal/runtime/kube`, `kubeapi`) | none | apply, get, list, delete, merge patch | empty fields of a merge patch | what is written is what is read |
| Kernel organizations (`internal/kernel/service.go`, ...) | organization, memberships, operations of keys | CreateOrganization, InviteMember, AcceptInvitation, ChangeMemberRole, SuspendMember, RemoveMember | READ COMMITTED statements of several transactions | an owner remains; a command is as if instantaneous and happens once per key |
| Kernel operations (`internal/kernel/operation.go`) | operation rows | Start, Transition, CancelOperation | cancel against completion, under idempotency keys, with events in the outbox | events tell the history; an answered cancellation stays true |
| Kernel messaging (`internal/kernel/messaging.go`) | outbox, inbox, leases | AppendOutbox, Dispatch, Process | expired leases, uncertain publishes, lost marks, redelivery | effects at most once; nothing is lost; everything is handled in the end |
| Kernel persistence (`internal/kernel/memory`, `adapters/postgres/kernel`) | the rows | statements, locks, version checks | what two statements see | snapshots are consistent |
| Agent governance (`internal/agent/application`, `domain`) | task, budget, invocations, approvals, grants | Invoke, GrantApproval, DenyApproval, ResumeTask, RecordFailure | admission and finalization are two transactions with a side effect between | budget, one approval per protected call, the repair loop stops |
| Agent arguments, agent persistence | none; rows | validation; load and save | nothing beyond the above | |
| Build pipeline (`internal/build/application`, `domain`) | builds, artifacts, idempotency records | RequestBuild, RetryBuild, RunBuild, CancelBuild | a long pipeline of transactions against cancellation and a second runner | an artifact is releasable only for a build that succeeded; one attempt at a time |
| Artifact trust policy, build identity, back ends and tools, build persistence | none; files; rows | decide; hash; build, scan, sign, fetch; save | | |
| Source projects and repositories (`internal/source/application/service.go`) | projects, repositories | CreateProject, RenameProject, ProvisionRepository | a lost answer of the provider, renames and concurrent calls between two transactions | a repository keeps a provider project of its own |
| Source webhooks and reconciler (`webhook_service.go`, `reconciler.go`) | branch heads, merge requests, receipts | HandlePush, HandleMergeRequest, ReconcileAll | lost, late, repeated and concurrent deliveries with heads read before a transaction | one event per webhook; heads include their push; heads converge |
| Source workspaces (`workspace_service.go`) | workspaces, credentials | Create, Execute (clone, patch, commit, push, revoke), Delete | concurrent calls that stop and are resumed at each stage, beside other writers of the branch | no commit of others is lost; what is recorded as pushed was pushed; no credential is left or shared |
| Source adapters | none | GitLab client, verifier, normalizer, stores | | |
| Commerce quotas (`internal/commerce/application`) | plan versions, subscriptions, accounts, reservations | plan and subscription commands, SetGrace, Suspend, Resume, Check, Reserve, Commit, Release | expiry against commit, dates given by the caller, racing Commit and Release | promises stay within the limit; a release is final |
| Commerce usage and invoices | usage ledger, alerts | Append, RecordBuildUsage, ReconcileUsage, PreviewInvoice, RateQuantity, CalculateRuntimeUnitSeconds | repeated reports with other values, corrections against a growing ledger, rounding, allowances, overflow | builds are charged whole; corrections settle; invoices are exact |
| Commerce persistence, HTTP APIs and commands, identity mapping, public contracts | rows; none | decoding, wiring, pure mappings | | |

`PROJECT.json` gives each of these components its sources, modules and status, and lists the hazards: 40 places of this
code that a test would hardly reach, with the properties that cover them or the reason why none does yet.

## Modules

| Module | What it is | Theorems in |
|---|---|---|
| `RuntimeDelivery` | the delivery saga, its status reconciler, the GitOps repository and the cluster as it sees them | `RuntimeDelivery_proofs` |
| `ReleaseLedger` | abstract: what callers are promised of releases; `RuntimeDelivery` implements it | |
| `GitOpsRepository` | Commit and FindByRelease of the GitOps repository, step by step | `RuntimeDelivery_proofs` |
| `ManifestLedger` | abstract: what the main branch of that repository does; `GitOpsRepository` implements it | |
| `RuntimeOperator` | the operator's passes, call by call | `RuntimeOperator_proofs` |
| `Organization` | commands on memberships as pure operators: who may do what, and its effect | |
| `MembershipLedger` | abstract: the commands as instants (EXTENDS `Organization`) | |
| `KernelCommands` | the commands as statements of concurrent transactions (EXTENDS `Organization`); implements `MembershipLedger` | `KernelCommands_proofs` |
| `KernelMessaging` | outbox, broker, inbox, with any producer | `KernelOperations_proofs` |
| `KernelOperations` | transitions and cancellations of an operation, the producer of its events (EXTENDS `KernelMessaging`) | `KernelOperations_proofs` |
| `AgentInvocation` | invocations of one task with budget, approvals and repair loop | `AgentInvocation_proofs` |
| `BuildPipeline` | attempts, pipeline, cancellation | `BuildPipeline_proofs` |
| `BuildLedger` | abstract: what callers are promised of attempts; `BuildPipeline` implements it | |
| `SourceControl` | projects, provisioning, webhooks, reconciler | `Source_proofs` |
| `SourceWorkspace` | workspaces of one branch: clone, commit, push, credentials | `Source_proofs` |
| `Commerce` | plan versions, subscriptions, commercial accounts, the clock | |
| `CommerceQuota` | quota reservations (EXTENDS `Commerce`) | `Commerce_proofs` |
| `CommerceUsage` | usage ledger, corrections, invoices (EXTENDS `CommerceQuota`) | `Commerce_proofs` |
| `CommerceMetering` | the calculation of runtime unit seconds, and its reference | |
| `MC_*` | instances for TLC: model values, commands, symmetry | |

A component module has constants, with named assumptions where a proof needs them, one action per transaction, call or
step of the code, `Next`, `Spec`, and the properties at its end. Type invariants are part of the inductive invariants
and proved with them, for every value of the constants; the runs spend their time on the other properties. No module uses a RECURSIVE operator.

## The models, one by one

### RuntimeDelivery

`Deploy` (`service.go:287`) is a saga. `call[w]` is a call in progress; its program counter stands between the
transaction that creates or finds the release and reserves capacity, the one that creates or finds the deployment, the
push to the GitOps repository, which is outside any transaction, and the transaction that records the commit. A call
may stop between any two, and another one, or `ReconcileGitOps`, continues where it left the rows. A rollback is a
deployment of the content of an earlier release. A placement keeps its cell and its class, which is the region and the
isolation; a deployment may grow or shrink its units, and one that asks for another class is refused (`Compatible`,
`service.go:336`) even where the cell supports that class. `obs[o]` is an observation of a PaaSApp (`status.go:216`) that has been
read and not yet applied, so observations are applied late and in any order. The operator is seen as the status it
reports for a manifest.

Properties: `SagaAgreement` (release row, commit record, index of the repository and deployment agree at every place
where the saga can stop), `OnlyOneActiveRelease`, `ActiveReleaseWasReady`, `NothingIsTakenBack` (a key keeps its
release, a commit its manifest, a placement its cell and class), `CapacityAccounted` (a cell's allocation is the sum of what is placed on it and within
its capacity), `ReleasesAreOwnedAndUnique`, and `ImplementsLedger`: the saga implements
`ReleaseLedger`.

### GitOpsRepository, ManifestLedger

`RuntimeDelivery` takes a `Commit` of the GitOps repository as one step; here are its steps (`gitops/repository.go:79-131`).
`worktree` and `staged` (git's index) are trees of two manifests for each path and an index file for each release, `log`
the commits of main after the initial one, `commit` the call that holds the mutex: it writes the manifests in any order,
then the index file, stages them, commits and reads HEAD. `Stop` ends it anywhere: a failing write, a failing or killed
git command, a cancelled context, the end of the process. What was written and staged stays, and the next `Commit` makes
a commit of everything that is staged, by whomever. `FindByRelease`, and `Commit` of a release whose index file exists,
answer with the last commit that changed that file, and fail without one. A bundle is its release, its path (which
contains the cell) and its hash; the deployment id in an index file, which nothing compares, is left out. Each git command
is atomic, a file is renamed into place, and one process uses a repository, as its mutex supposes. Left out: symlink and
path checks, temporary files that a killed write leaves behind, and a repository whose first commit was interrupted.

Properties: `BundlesAreWhole` (in every commit the manifests at a path are those of one release whose index the commit
holds too, and those of the release that its message names), `AnswersAgree` (a release has one answer: the commit it
first appeared in, with what that says), `ImplementsManifestLedger`: the main branch behaves as `ManifestLedger`, where a
commit publishes bundles of releases that had none and changes nothing else. That every release is answered in the end is
not true (see below). An answer of `FindByRelease` may name a commit made for another release, if that one committed what
an interrupted call had staged; where both have one path, the manifests there are then those of the other release, and
`AnswersAgree` speaks of the index only. `RuntimeDelivery!CommitGitOps` is `Publish` of a single bundle: an interrupted
`Commit` is there one that did not happen, so that its retry commits.

### RuntimeOperator

One PaaSApp. A pass (`pass[o]`) takes a copy of manifest and status with `ListPaaSApps` and makes one call of the
Kubernetes API per step; `at` names the next call, and each action is a call with everything the code does up to the
next one. Between calls the manifest changes (a later release, other contents, a lifecycle transition), workloads become
ready, fail and lose readiness, other replicas act, and `StopPass` ends the pass: an error, the deadline, a crash.
Server-side apply creates or leaves alone; a deletion removes at once or leaves the object terminating until the cluster
removes it. The status is written with a merge patch whose empty fields are omitted (`kubeapi/resources.go:346`), so
`Patched` overwrites and never clears. Two history variables only record: `proven` what has been ready, and `crossed[o]`
what other replicas have rerouted or created since the pass of `o` began; no guard reads either. An HPA shares name, labels
and fate with its deployment; conditions, ports and hostnames are left out; whether a rollout has timed out is any answer.

Properties: `TrafficWasReady`, `MigrationGate`, `ReadyIsOfTheManifest` (a Ready status of the current generation speaks
of the current manifest), `ServedIsNotDeleted`, `NothingIsLeft` (Suspended, Retaining and Deleted are reported when
nothing is left; both speak of any number of replicas and except only what `crossed` names), and the liveness property `ManifestIsReached`.

### Organization, MembershipLedger, KernelCommands

`Organization` holds the policy and the effects of the commands as operators, translated from `authorization.go`,
`membership.go` and `organization.go`. `KernelCommands` runs them as `service.go` and the PostgreSQL store do: `Claim`
takes the idempotency key, the row and the memberships are read by two statements under READ COMMITTED (`ReadRow`,
`ReadMembers`), `Save` checks the version, `Commit` or `Rollback` end the transaction. `tx[w]` is an open transaction
with what it has read.

Properties: `OwnerRemains`, `SnapshotsAreCurrent` (the two reads of a transaction that saves belong to one version), and
`ImplementsLedger`: every command appears as one instant of `MembershipLedger`, in which it was authorised.

### KernelMessaging, KernelOperations

`outbox[e]` is an event with its lease, `batch[d]` what a `Dispatch` call has claimed, `sent[d]` the mark it owes,
`topic` what the broker has accepted, `inbox` the fingerprints of what was processed, `handling[c]` an open transaction
of a consumer. Leases expire at any time, a publish may succeed and report an error, marks fail, dispatchers stop,
the broker delivers anything it has accepted any number of times, and some ids are used for a second payload.

`KernelOperations` puts the operation of `operation.go` in front of that. A transaction of `Transition` or
`CancelOperation` is READ COMMITTED: `tx[c]` is what it has read and decided, `SaveOperation` updates the row if its
version is still the one read and, in the same transaction, appends the event and stores the reply of a cancellation
under its key. `Rollback` is an error or a crash before the commit. The model starts after `Start`; `report[e]` is what
the event `e` says of the operation. The composition is what is checked: the same `outbox` takes the events of the
operation and hands them to dispatchers and consumers.

Properties: `EventsAreHistory` (one event per version, the last one telling the state, each an allowed transition from
the one before), `CancelRepliesStayTrue` (an operation that was answered to be canceled stays so, one that could not be
canceled has ended otherwise), and of the delivery `HandledAtMostOnce` and, under fairness,
`EventuallyHandled`; proved beside them, `PublishedWasSent` (a mark loses no event).

### AgentInvocation

One task and its agent. `call[c]` is an `Invoke` between its admission (which charges the budget and consumes the
grant), the tool's side effect and its finalization; it may end at any of these places and its key may be repeated at
any time. `approval` and `grant` are decided by concurrent approvers and expire.

Properties: `AdmissionsWithinBudget`, `ProtectedWasApproved` (each protected invocation holds an
approval of its own, granted for its payload), `RepairLoopStops`; proved beside them, `DeniedHasNoGrant`.

### BuildPipeline, BuildLedger

`RunBuild` is a step per transaction: load and start, build, register the artifact, scan, sign, release; between them
stands the work of the tools with any outcome. `CancelBuild` loads, cancels the back end and stores. Every store checks
the version of the row it holds a copy of. Both stop anywhere, and nothing resumes a pipeline. FAILED stands for the
three states of failure.

Properties: `TrustedIffSucceeded` (an artifact is RELEASABLE exactly when its build SUCCEEDED), `BackendOnceAndStopped`
(a build starts its back end once, and a cancelled build's back end has stopped), and `ImplementsLedger`: attempts at
one identity are as `BuildLedger` says; proved beside them, `EndedIsFinal`.

### SourceControl

`provision[c]` is a `ProvisionRepository` call between its first transaction, the calls to the Git provider (create,
find by correlation, protect) and its last one; answers get lost, calls fail and stop, and the failure is recorded
whatever a concurrent call has done meanwhile. `handle[h]` is a push webhook whose head was read from the provider
before its transaction, `reconcile[c]` a pass of `ReconcileAll`. `sent` keeps all webhooks: they may be handled late,
repeatedly, concurrently or never. The provider behaves as `gitlab/client.go` relies on.

Properties: `HeadsOfOwnProject`, `HandledPushIsIncluded`, and `HeadsConverge`; proved beside them, `IdentityIsKept` (a
repository keeps its provider project) and `DeliveredOnce` (one event per webhook id).

### SourceWorkspace

`row[w]` is a workspace in the store, `call[c]` an `Execute` or `Delete` with its copy of the row, the next thing it will
do, the credential it holds and the head of the branch it read before pushing. Every save is refused when the row has
another version than the copy. `Execute` continues from the stage its copy has, with a credential of its own
(`workspace_service.go:89`), so a call that is lost, or that ends with an error, is resumed by another one, which may as
well run beside it. A push reads the head, pushes with a lease on the base commit or on the branch being absent, may lose
the answer, and then reads the head again (`git.go:127-151`). Others push on top of the branch and delete it. The files
of a clone are left out: applying a patch and committing succeed or fail. `landed`, the commits that have been on the
branch, and `interrupted`, the workspaces that lost a call, are history variables.

Properties: `BranchKeepsCommits` (only a deletion drops commits from the branch: no push, however often it is tried,
overwrites another's), `RecordedIsPushed` (a workspace on record as pushed, or announced, has had its commit on the
branch, and it is announced once at most), `CredentialIsOwn` (no call loses its credential to another one before it has
pushed), `NothingLeaks` (complete workspaces none of whose calls was interrupted leave no credential behind).

### Commerce, CommerceQuota, CommerceUsage, CommerceMetering

One store, four modules. `Commerce` has the plan versions (draft, active, disabled), subscriptions, commercial accounts
and the clock; `CommerceQuota` the reservations: `Reserve` in one transaction, at any date, because the client may name
one and because the service otherwise reads the clock before its transaction; `Commit` and `Release` in two steps,
`call[w]` being a SERIALIZABLE transaction that has read its row and the clock. PostgreSQL aborts it when the row has
changed, and lets it pass when only time has. `overlooked`, a history variable, has the reservations that some `Reserve`
took for expired. `CommerceUsage` adds the ledger, a sequence of events for each tenant, appended by clients, by build
reports (one event for each meter, all or none) and by reconciliations, and the invoice as an operator on it. `ListUsage`
is the set of the orders by date in which the store may return the rows; sums are recursive functions along such an
order, every addition checked, and the lines of an invoice are rated one after the other, sorted by resource, meter and
kind, each consuming what is left of its meter's allowance. Sums and products overflow at `MaxInt` as int64 does, and
rating rounds half away from zero. Named assumptions say what validation lets through: plans (`PlanSpecAssumption`),
events (`EventAssumption`), reports (`ReportAssumption`), commands (`CommandAssumption`). `CommerceMetering` is the calculation
of runtime usage from observations, compared with a definition that looks at every second, for all short lists of
observations (an ASSUME of `MC_Commerce`, which TLC evaluates). All usage keys of a tenant share one scope; that clients
do not use a key that a build or a reconciliation makes is a convention of the callers, which `EventAssumption` states
and no code enforces.

Properties: `QuotaHolds` (what Reserve promised stays within the limit, but for what it took for expired) and, proved
beside it, `ReleasedIsFinal`; `BuildsAreCharged` (the ledger holds whole, chargeable reports), `CorrectionsSettle` (a correction
makes the usage of its window what was observed, and a large one has raised its alert), `InvoiceIsExact` (the lines hold
the whole ledger, each amount is the nearest to its exact price, allowances are used up exactly, the total is the sum).

## Runs, bounds and fairness

| Run | Instance | Distinct states | Checks |
|---|---|---|---|
| `delivery_saga` | 1 environment, deploy, deploy, rollback, 1 caller that may stop and repeat, 2 observers, 2 releases | 549,000 | the saga, one active release, the ledger |
| `delivery_capacity` | 2 environments, 2 cells, 5 commands (one class in two sizes, another class of the same cell), 2 callers, 3 releases | 1,800,000 | capacity, ownership |
| `delivery_stale_activation` | 1 environment, 2 observers | until violated | see below |
| `git_bundles` | 4 bundles: 2 of one release, 3 at one path; up to 3 calls stop half way | 13,900 | whole commits, answers, the ledger |
| `operator_rollout` | 1 replica, 2 releases, one with a migration, 2 contents, 2 changes of the manifest | 637,000 | all properties of the operator |
| `kernel_commands` | 2 principals, 9 commands, 3 transactions | 640,000 | owners, snapshots, the ledger |
| `kernel_operations` | 1 operation, 1 transition and 1 cancellation at a time, 2 events, one id used twice, 1 dispatcher, 1 consumer, batches of 1 | 29,000 | history, cancellations, effects at most once, delivery |
| `agent_tools` | 3 keys, 7 payloads, 1 approval, 2 calls, budgets of 2 | 954,000 | budget, approvals, repair loop |
| `build_attempts` | 1 identity, 2 builds, 4 commands, 2 runners, 1 canceller | 255,000 | trust, back end, the ledger |
| `source_control` | 1 repository, 2 slugs, 2 provider projects, 2 callers, 2 handlers, 1 reconciler, 1 webhook, 2 commits | 741,000 | identity of repositories, heads |
| `source_workspace` | 1 workspace, 2 calls, 3 commits, 3 credentials, others who write and delete | 2,100,000 | pushes, credentials |
| `commerce` | 1 tenant, 1 plan version with 2 specifications, 2 reservations, 2 Commits or Releases, 4 client events, 5 build reports, 2 reconciliations, 3 rows, 4-bit integers | 496,000 | quota, ledger, invoices |

Why the bounds are enough. Each hazard needs two actors and one resource they compete for: two owners, two callers of
one key, two builds of one identity, two releases of one environment, a cell with room for one growth but not two, two
provider projects for one repository. Each instance has them, and a third where the third could be what makes the
difference (the third transaction that lets a reader mix versions; the rollback to a retired release; the commit after
two reads). A bound that could hide something is matched by a mutant: for every property, a plausible bug in the code
violates it under the same configuration. The invariants proved by TLAPS need no bound at all. Bounds are `MaxStops`
(calls of the GitOps repository that stop: with three, two releases can be staged or half written when a third one
commits), `MaxCommits`, `MaxBranchCommits`, `MaxGeneration`, `MaxRelease`, `MaxVariant`, `MaxCredentials`, `MaxVersion`
(how often an expired workspace is saved again), `MaxTime`, `MaxRows` (reservations and usage events of a tenant),
`MaxInt` (7 in place of 2^63-1: quantities of 1 to 5 already meet it), and the sizes of the constant sets. With three
rows a build is reported with two meters and repeated, usage is spread over two resources, or a correction stands
between usage and a second one. An operation changes as often as there are `Event`s; release and build ids are finite
sets in place of random ids.

`CHECK_DEADLOCK FALSE` is set where every command of a finite set may have ended, and in `git_bundles`, where every release
may have become one that can no longer be answered. Symmetry is used for safety runs only.

Fairness:

- `kernel_operations`: weak fairness of claiming and of ending a batch, of the expiry of each lease; strong fairness of
  publishing, marking, processing and of inserting into the inbox. Leases are time; the rest says that dispatchers and
  consumers are called again and that no call fails for ever. Nothing in the repository but tests calls `Dispatch` and
  `Process`, so this is an assumption on their future callers. Without fairness of the marks an event at the head of
  the batch would block later ones.
- `source_control`: weak fairness of starting a pass, strong fairness of reading and of storing per repository. Again an
  assumption on the caller of `ReconcileAll`, which no command calls.
- `operator_rollout`: weak fairness of each replica, which polls with a ticker (`cmd/runtime-operator/main.go:87-100`)
  and whose passes have a deadline, and of the cluster bringing workloads up and carrying deletions out.
  `ManifestIsReached` supposes that the manifest stops changing, workloads stop failing and passes stop being
  interrupted; it promises nothing for a failed migration or for a manifest rejected under a known release id.

## What is proved

Each `*_proofs` module proves an inductive invariant and draws the properties from it, for every value of the constants
that satisfies the named assumptions. Those assumptions are about constants only: numbers are numbers, commands are
well formed, sentinels such as `None` are not values.

| Module | Theorem | Property | Argument |
|---|---|---|---|
| `RuntimeDelivery_proofs` | `TypeCorrect`, `OneActiveRelease`, `SagaAgrees`, `ActiveWasReady` | `TypeOK`, `OnlyOneActiveRelease`, `SagaAgreement`, `ActiveReleaseWasReady` | what a call or an observer holds was committed and is only ever extended: ids, commits and manifests are never replaced |
| | `Refinement` | `ImplementsLedger` | each step maps to a step of `ReleaseLedger` or to none; the active release is the live one |
| | `NothingTakenBack` | `NothingIsTakenBack` | each step keeps every row or moves it on in the order of the states; a row that a call is about to write is the one it may write |
| | `ReleasesOwnedAndUnique` | `ReleasesAreOwnedAndUnique` | a row and its key are written together, by a transaction that looks for both the key and the identity |
| | `CapacityIsAccounted` | `CapacityAccounted` | units as a set, so that the sum is a cardinality: a Deploy exchanges what one environment holds and leaves the other cells alone |
| | `PlacedAsAsked` | | a release is of the region and isolation its environment is placed for (`RowsArePlaced`), also after a rollback, which does not compare them |
| | `GitInvariance`, `BundlesStayWhole`, `AnswersHold` | `BundlesAreWhole`, `AnswersAgree` | of `GitOpsRepository`, for any bundles and interruptions: an index file flows from the worktree to git's index and to the main branch and nowhere changes once it is there |
| | `ManifestRefinement` | `ImplementsManifestLedger` | a git commit publishes exactly the bundles that are staged and new to the main branch |
| `RuntimeOperator_proofs` | `OperatorInvariance`, `OperatorTypes`, `TrafficHolds`, `GateHolds`, `ReadyHolds` | `TypeOK`, `TrafficWasReady`, `MigrationGate`, `ReadyIsOfTheManifest` | for any number of replicas: what a pass remembers may be old, but "was ready" does not age, and a generation that has passed is not the current one |
| | `SightInvariance`, `ServedIsKept`, `EndsAreTrue` | `ServedIsNotDeleted`, `NothingIsLeft` | for any number of replicas: what a pass has seen of route, policy or objects since it began is still so, or another replica has crossed it; deletions and the cluster's own steps only take away |
| | `OneIsNotCrossed` | | the pass of a single replica is never crossed, so that for it the two properties have no exception |
| `KernelCommands_proofs` | `CommandsInvariance`, `AnOwnerRemains`, `SnapshotsHold` | `OwnerRemains`, `SnapshotsAreCurrent` | a transaction whose version is still current has read the current memberships; the row lock and the version check do the rest |
| | `CommandsRefinement` | `ImplementsLedger` | a commit is the instant of its command |
| `KernelOperations_proofs` | `MessagingInvariance`, `EffectsAtMostOnce`, `NothingIsLost` | `HandledAtMostOnce`, `PublishedWasSent` | effects are committed only with the inbox row of their event; a mark is owed only after a publish; for any producer |
| | `OperationEventsHandledAtMostOnce`, `OperationEventsAreSent` | the same, of `OperationSpec` | the operation is a producer: each of its steps is a step of the delivery or leaves it alone |
| | `EventsTellTheHistory`, `CancellationsAreFinal` | `EventsAreHistory`, `CancelRepliesStayTrue` | a transaction decided rightly on the row it read, and what it saves is at the version it read |
| `AgentInvocation_proofs` | `InvocationInvariance`, `InvocationTypes`, `BudgetHolds`, `ApprovalsHold`, `DenialsHold`, `RepairLoopHolds` | `TypeOK`, `AdmissionsWithinBudget`, `ProtectedWasApproved`, `DeniedHasNoGrant`, `RepairLoopStops` | usage is the number of admitted invocations (cardinality); a consumed grant names the invocation that holds it |
| `BuildPipeline_proofs` | `PipelineInvariance`, `TrustHolds`, `BackendHolds`, `EndedStays`, `PipelineRefinement` | all of the run, and `EndedIsFinal` | a copy is the current row or an older version of it; one active call per build; a build that was not started has no artifact and no back end |
| `Source_proofs` | `SourceInvariance`, `OwnProjectHolds`, `IdentityStays`, `OneEventPerWebhook`, `PushesAreIncluded` | `HeadsOfOwnProject`, `IdentityIsKept`, `DeliveredOnce`, `HandledPushIsIncluded` | what a call, a delivery or a pass has read from the provider bounds what only grows there |
| | `WorkspaceInvariance`, `RecordsHold`, `PushesKeepCommits` | `RecordedIsPushed`, `BranchKeepsCommits` | a copy is the row or an older version of it, so of the calls that hold one only one can save and announce; a commit in a copy that says pushed has been on the branch |
| | `CredentialsAreOwn`, `CompletedLeaveNothing` | `CredentialIsOwn`, `NothingLeaks` | the calls before their record own different credentials, that no row on record as pushed and no call about to revoke names |
| `Commerce_proofs` | `QuotaInvariant`, `PromisesAreWithinLimits`, `ReleasesAreFinal` | `QuotaHolds`, `ReleasedIsFinal` | units as a set, so that sums are cardinalities; the plan of a subscription no longer changes; what counts at any date includes every promise that was not overlooked |
| | `UsageKeepsQuotas`, `CommercePromises`, `CommerceReleases` | the same, of the whole `Spec` | commerce with its usage implements the specification of the quotas |
| | `BuildsCharged` | `BuildsAreCharged` | a ledger consists of client events, events of reports and corrections; a report is added whole, and the plan that allowed the charge stays |
| | `CorrectionsHold` | `CorrectionsSettle` | a checked sum that succeeds is the exact one, and is the same along any order of the rows; what a correction settled is in the part of the ledger that no longer changes |
| | `InvoicesAreExact`, `RateIsNearest` | `InvoiceIsExact` | line after line, what is left of an allowance is the part that the standard usage so far has not consumed; half away from zero is the nearest amount |

None of the properties is inductive as it stands. `TrafficWasReady`, for one, is kept by a step that writes the route
from what a pass remembers; so the invariant must say that every release a pass, or the status it copies, can name has
been ready (`PassProven`), which in turn holds because readiness is observed, not assumed, and because history only
grows (`Ages`). `CapacityAccounted` needs that a rollback's target stays in the environment that is rolled back, that
releases belong to placed environments and that an unplaced environment holds nothing (`CapacityInv`): without the first,
a rollback could create a row in an environment without a cell. `ServedIsNotDeleted` needs to know of each stage of a
pass what it has already made true in the cluster (`PassSees`, and `SightInv` for what was not crossed), so that a
cleanup spares what was routed.
`BranchKeepsCommits` and `RecordedIsPushed` need the agreement of every copy with its row (`PushInv`), and the two
properties of credentials need on top of it who owns which (`CredentialInv`). `BuildsAreCharged` holds for a tenant's plan
as it is now, so it needs that nothing is recorded before the subscription (`Opened`) and, from the quotas' invariant,
that the plan of a subscription is not a draft. `CorrectionsSettle` and `InvoiceIsExact` need of the ledger that its keys
differ and that its windows and dates are numbers (`LedgerInv`), and `InvoiceIsExact` an invariant of the loop over its
lines (`Exact`). `BundlesAreWhole` must also be true of what is staged and not yet committed, and `AnswersAgree` of the
running call (`CommitKnows`); that a commit of somebody else's files refines `Publish` needs to know that what is staged
differs from the main branch only where a new bundle is (`StagedIsNew`).

The sums of `CommerceUsage` are recursive functions, and what they compute for any length is proved by numbers: the
least counterexample of a set of naturals (`WFMin` of the library) replaces the induction rule, which takes an operator
as its parameter. That the order of the rows does not matter is a lemma of its own (`TotalPermuted`).

All theorems about the operator hold for any number of replicas whose passes overlap in any way, and none supposes a
leader. `ServedIsNotDeleted` and `NothingIsLeft` name in their own statement the one way in which replicas can spoil each
other's work: since the deleting pass began, another replica has moved the route; since the reporting pass began, another
one has created the route, the policy or an object again. The exception cannot be dropped: with two replicas, as the
repository deploys them, TLC refutes both properties without it (next section but one).

The proofs share a layout: a predicate of what one actor holds, a lemma that it survives the steps of
others (`PassAges`, `Kept`, ...), one lemma per action, and a last step by PTL.

## What is only model-checked

- Liveness: `EventuallyHandled`, `HeadsConverge`, `ManifestIsReached`. The prover reasons neither about fairness in
  these forms nor about ENABLED.
- The metering: `CommerceMetering` sorts and folds over sequences, is compared with its reference on short lists of
  observations, and is an ASSUME that TLC evaluates, not a property of a state.
- `ActiveReleaseIsActive`, which is refuted (next section).

Every other property of a run is stated by a theorem. Two cases are left to the proofs alone: several repositories whose
projects are renamed into each other's paths, and a webhook id that is used for a second body.

## Where the code and what is said of it disagree

One run ends with a counterexample.

- `delivery_stale_activation` (`status.go:235`): a Ready observation of a release that was replaced meanwhile is
  applied, and the environment points at a SUPERSEDED release.

Observed while modelling, without a run of their own:

- Runtime: a `Commit` that stops between writing the index file and `git commit` leaves an index without a commit
  (`gitops/repository.go:116`). From then on `Commit` and `FindByRelease` of the release fail with "GitOps release index has
  no commit" (`:178`), also in another process, unless a `Commit` of another release happens to commit the file
  (`docs/iteration-4/IMPLEMENTATION.md:83`: the adapter "recovers by release ID"). In the model
  neither `FindByRelease` nor `CommitAgain` of the release is enabled then.
- Runtime: a `Commit` that failed after `git add` is completed by the next `Commit`, of any release, under the message of
  that one (`gitops/repository.go:119-123`).
- Runtime: a retry may render another manifest for the same release, since it takes the previous release from the
  environment of now (against `docs/iteration-4/IMPLEMENTATION.md:81`). Deploying an earlier content under a new key
  finds its SUPERSEDED release and READY deployment and answers READY without a rollout (`service.go:466`).
- Operator: `deploy/rbac/runtime-operator-deployment.yaml:7` runs two replicas without leader election
  (`docs/iteration-4/TODO.md:35` leaves it open). With two replicas a release can be deleted while it is served, and
  Suspended, Retaining or Deleted reported while something is left: a replica with an older copy routes to workloads that
  the other one is deleting, or creates again what the other has seen gone. Nothing in the code prevents it.
  `ServedIsNotDeleted` and `NothingIsLeft` except exactly this (`crossed`), and `ServedIsKept` and `EndsAreTrue` say
  that it is the only way.
- Operator: a migration that succeeded but was not recorded before a suspension runs again after it, since suspension
  deletes the job (`reconciler.go:447`; `TestRollout_MigrationRunsOncePerRelease`).
- Operator: the merge patch cannot clear fields that suspension and deletion empty (`reconciler.go:459-463`; the
  memory client does clear them). After a suspension the candidate and its hash remain, so a manifest that was changed
  meanwhile is rejected as a conflict, and Suspended, Resuming, Active before readiness routes to workloads that are
  not ready now, though they once were.
- Operator: the readiness of a deployment is read without comparing its observed generation.
- Kernel: an invitation may carry the owner role although an admin sends it, since `canManageTarget` is consulted for
  `membership.manage` only (`service.go:380`; `docs/iteration-1/IMPLEMENTATION.md:123`).
- Kernel: an operation of the platform (no tenant) cannot be canceled: its organization is not found, and the failure is
  stored under the key (`service.go:705`). A failed cancellation is replayed for ever under its key, and a `Transition`
  that is retried after its answer was lost is an error, as it has no key.
- Agent: a key that is repeated while its first call runs executes the tool again, and the call that ends last decides
  what the key replays, so a caller who was told COMPLETED may later be told FAILED
  (`internal/agent/application/service.go:321`).
- Agent: a repeated request for approval inserts a second PENDING request (`tools.go:216`).
- Source: an older head may be stored after a newer one, because the head is read before the transaction that stores it
  and is not compared (`webhook_service.go:63`; against `docs/tdd/02-source-control.md:48`); the reconciler repairs it.
- Source: a failing provisioning that ends late turns a READY repository into FAILED, which the reconciler skips
  (`service.go:129`); a retry after a rename creates a second provider project with the same correlation; a deleted
  branch keeps its old head; a changed default branch is recorded without being protected; a late 'opened' webhook
  reopens a merged request (`webhook_service.go:125`).
- Workspaces: the credential of a call that was interrupted, and of a workspace that failed, was deleted or expired, is
  revoked by nobody and lives until it expires (`workspace_service.go:91`, `:201`, `:164`). A pushed workspace becomes FAILED when others have pushed on top of
  it before the push is confirmed or retried, or when the confirming read fails; after others have deleted the branch, a
  resumed push makes it again. Concurrent Executes share one directory, so files of a refused call may enter the commit
  of another, and the patch of a resumed call is ignored. The event of a push may be lost (`:159`). Execute of a workspace
  that has failed or is deleted makes a credential, revokes it and returns an error.
- Commerce: a quota can be exceeded by a reservation that a Reserve took for expired and that is committed after all: the
  date may lie in the future, and a Commit may have read the clock before the expiry (`service.go:296`, `:345`; against
  `docs/iteration-6/THREAT_MODEL.md:29`). `QuotaHolds` is what remains true.
- Commerce: usage, a correction or a build that ends exactly with the period is rejected, since its date lies outside
  (`domain/model.go:196-232`). An `Append` without a date is dated anew by each retry, which is then a CONFLICT. A
  reconciliation command that is repeated after other usage has arrived is a CONFLICT for ever; when its drift is the
  same again it succeeds without a correction (`service.go:777`; against `docs/iteration-6/IMPLEMENTATION.md:168`).
- Commerce: the keys of build events (`service.go:495`) and of corrections are in one scope with those that clients choose,
  so an event that a client appended under such a key makes the whole build report a CONFLICT for ever; `EventAssumption`
  leaves this out.
- Commerce: a credit is rated in full even where it gives back usage that the plan included, so a bill may be negative.
  Usage shorter than a second is lost at each piece of a window. A subscription that starts SUSPENDED cannot be resumed
  (its account is ACTIVE); a trial that is suspended and resumed is ACTIVE without an end.
- Build: a pipeline that stopped half way is resumed by nobody and blocks its identity until it is cancelled.

## What is not modelled

Planned, below: the operator behind the control plane.

Left out for good: HTTP decoding and wiring, row mapping, migrations, the audit trail and outbox rows that nothing
reads, cryptography, archives and file systems behind the build ports (their outcomes are nondeterministic), validation
of JSON arguments, hashes of identities (a content is a value), and the OIDC mapping: pure functions or I/O without
state of their own. Within modelled components: `RequestPlacementMigration` (inserts a row that nothing executes),
`ObserveRuntimeObject` (inserts quarantine rows), `EnsureApplication` and `EnsureEnvironment`; `Supersede` of builds and
`ApplyPush` of sources (called by no code); path and URL synchronisation of repositories; one task and one agent, since
tasks share nothing but approvers; `Check` of quotas and the other reads, which change nothing; who owns a resource,
which commerce asks of the outside; the events of audit records; the contents of a workspace's clone. Stores are used as atomic transactions where they are a mutex or SERIALIZABLE, and
statement by statement where they are READ COMMITTED.

## Plan

Done, in order of importance: RuntimeDelivery with ReleaseLedger; KernelCommands with Organization and
MembershipLedger; KernelMessaging; AgentInvocation; BuildPipeline with BuildLedger; SourceControl; RuntimeOperator; then
KernelOperations, composed with KernelMessaging; Commerce with quotas, usage, invoices and metering; SourceWorkspace; last GitOpsRepository with ManifestLedger.

What a further step would add:

1. The composition of RuntimeDelivery with GitOpsRepository: with an interrupted `Commit` the saga stops for good at one
   release, and what its other properties say then.
2. The composition of RuntimeDelivery and RuntimeOperator: that the operator reports only what `OperatorReport` allows,
   as a refinement.
3. An abstract workspace, which `SourceWorkspace` implements from `PushInv`: a commit that is pushed at most once.
4. Of the usage ledger, that it only grows, and of the metering, that it is the reference for every list.
