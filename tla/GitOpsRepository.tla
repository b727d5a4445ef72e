--------------------------- MODULE GitOpsRepository ---------------------------
(***************************************************************************)
(* The local GitOps repository (Commit and FindByRelease of                 *)
(* internal/runtime/gitops/repository.go): one process, whose mutex lets    *)
(* one call in, writes the manifests of a release and its index file to     *)
(* the worktree, stages them and commits what is staged.  A call may stop   *)
(* between any two of these steps: a write or a git command fails, its      *)
(* context is cancelled, or the process ends.  What it has written and      *)
(* staged stays, and opening the repository again clears nothing.           *)
(***************************************************************************)
EXTENDS Naturals, Sequences

CONSTANTS
  Bundle,     \* what Commit is called with: [release, path, and what differs]
  NoBundle,
  MaxStops    \* bound on the calls that stop half way

(* Bundles are valid requests; a release may come with other manifests.     *)
ASSUME BundleAssumption == NoBundle \notin Bundle /\ MaxStops \in Nat

Releases == {b.release : b \in Bundle}
Paths == {b.path : b \in Bundle}
ManifestFile == {"namespace.yaml", "paasapp.yaml"}

(* Files are known by the bundle that they were written for.                *)
Slot == Bundle \cup {NoBundle}
Trees == [files : [Paths -> [ManifestFile -> Slot]], indexes : [Releases -> Slot]]

VARIABLES
  worktree,   \* the files of the worktree
  staged,     \* git's index
  log,        \* the commits of main after the initial one, with what each was for
  commit,     \* the Commit that holds the mutex: its bundle, step and files written
  answers,    \* what Commit and FindByRelease have returned
  stops

gitVars == <<worktree, staged, log, commit, answers, stops>>

NoTree == [files |-> [p \in Paths |-> [f \in ManifestFile |-> NoBundle]],
           indexes |-> [r \in Releases |-> NoBundle]]
NoCommit == [bundle |-> NoBundle, step |-> "none", written |-> {}]

(* NewLocalRepository.                                                      *)
GitInit ==
  /\ worktree = NoTree /\ staged = NoTree /\ log = <<>>
  /\ commit = NoCommit /\ answers = {} /\ stops = 0

TreeAt(i) == IF i = 0 THEN NoTree ELSE log[i].tree

-----------------------------------------------------------------------------
(* The files of one release: what git add is given, and what it stages.     *)
Added(tree, from, b) ==
  [files |-> [tree.files EXCEPT ![b.path] = from.files[b.path]],
   indexes |-> [tree.indexes EXCEPT ![b.release] = from.indexes[b.release]]]

(* Without an index file of its release a Commit begins to write.           *)
BeginAlways(b) ==    \* mutant
  /\ commit = NoCommit
  /\ commit' = [bundle |-> b, step |-> "write", written |-> {}]
  /\ UNCHANGED <<worktree, staged, log, answers, stops>>

BeginCommit(b) ==
  /\ commit = NoCommit
  /\ worktree.indexes[b.release] = NoBundle
  /\ commit' = [bundle |-> b, step |-> "write", written |-> {}]
  /\ UNCHANGED <<worktree, staged, log, answers, stops>>

(* The files of a bundle, in the order of a Go map.                         *)
WriteManifest(f) ==
  LET b == commit.bundle IN
  /\ commit.step = "write" /\ f \notin commit.written
  /\ worktree' = [worktree EXCEPT !.files[b.path][f] = b]
  /\ commit' = [commit EXCEPT !.written = @ \cup {f}]
  /\ UNCHANGED <<staged, log, answers, stops>>

WriteIndexEarly ==    \* mutant
  /\ commit.step = "write" /\ commit.written # {}
  /\ worktree' = [worktree EXCEPT !.indexes[commit.bundle.release] = commit.bundle]
  /\ commit' = [commit EXCEPT !.step = "add"]
  /\ UNCHANGED <<staged, log, answers, stops>>

WriteIndex ==
  /\ commit.step = "write" /\ commit.written = ManifestFile
  /\ worktree' = [worktree EXCEPT !.indexes[commit.bundle.release] = commit.bundle]
  /\ commit' = [commit EXCEPT !.step = "add"]
  /\ UNCHANGED <<staged, log, answers, stops>>

GitAdd ==
  /\ commit.step = "add"
  /\ staged' = Added(staged, worktree, commit.bundle)
  /\ commit' = [commit EXCEPT !.step = "commit"]
  /\ UNCHANGED <<worktree, log, answers, stops>>

(* Everything that is staged is committed, by whichever call it was staged. *)
GitCommit ==
  /\ commit.step = "commit"
  /\ log' = Append(log, [tree |-> staged, for |-> commit.bundle])
  /\ commit' = [commit EXCEPT !.step = "answer"]
  /\ UNCHANGED <<worktree, staged, answers, stops>>

Answer(b, i) == [release |-> b.release, bundle |-> b, commit |-> i]

(* The hash of HEAD.                                                        *)
AnswerHead ==
  /\ commit.step = "answer"
  /\ answers' = answers \cup {Answer(commit.bundle, Len(log))}
  /\ commit' = NoCommit
  /\ UNCHANGED <<worktree, staged, log, stops>>

(* A step fails, or the process ends and another one opens the repository.  *)
Stop ==
  /\ commit # NoCommit /\ stops < MaxStops
  /\ commit' = NoCommit /\ stops' = stops + 1
  /\ UNCHANGED <<worktree, staged, log, answers>>

-----------------------------------------------------------------------------
CommitForPathHead(r, i) == i = Len(log) /\ i # 0    \* mutant

(* commitForPath: the last commit that changed the index file of a release. *)
CommitForPath(r, i) ==
  LET Changes(j) == TreeAt(j).indexes[r] # TreeAt(j - 1).indexes[r]
  IN /\ i \in DOMAIN log /\ Changes(i)
     /\ \A j \in DOMAIN log : j > i => ~Changes(j)

(* FindByRelease, and Commit for a release whose index file is there: it    *)
(* must be of the same bundle.  Without a commit of that file they fail.    *)
FindByRelease(r, i) ==
  /\ commit = NoCommit
  /\ worktree.indexes[r] # NoBundle
  /\ CommitForPath(r, i)
  /\ answers' = answers \cup {Answer(worktree.indexes[r], i)}
  /\ UNCHANGED <<worktree, staged, log, commit, stops>>

CommitAgain(b, i) == worktree.indexes[b.release] = b /\ FindByRelease(b.release, i)

Proceed ==
  \/ \E f \in ManifestFile : WriteManifest(f)
  \/ WriteIndex
  \/ GitAdd
  \/ GitCommit
  \/ AnswerHead

GitNext ==
  \/ Proceed
  \/ Stop
  \/ \E b \in Bundle : BeginCommit(b)
  \/ \E r \in Releases, i \in DOMAIN log : FindByRelease(r, i)
  \/ \E b \in Bundle, i \in DOMAIN log : CommitAgain(b, i)

GitSpec == GitInit /\ [][GitNext]_gitVars

-----------------------------------------------------------------------------
GitTypeOK ==
  /\ worktree \in Trees /\ staged \in Trees
  /\ log \in Seq([tree : Trees, for : Bundle])
  /\ \/ commit = NoCommit
     \/ commit \in [bundle : Bundle, step : {"write", "add", "commit", "answer"},
                    written : SUBSET ManifestFile]
  /\ answers \subseteq [release : Releases, bundle : Bundle, commit : Nat]
  /\ stops \in 0..MaxStops

(* Whatever calls were cut short, no commit has a torn bundle: the two       *)
(* manifests at a path are those of one release whose index the commit      *)
(* holds too, and the release that the commit's message names is whole.     *)
BundlesAreWhole ==
  \A i \in DOMAIN log :
    /\ \A p \in Paths : \E b \in Slot :
         /\ \A f \in ManifestFile : log[i].tree.files[p][f] = b
         /\ b # NoBundle => b.path = p /\ log[i].tree.indexes[b.release] = b
    /\ \A f \in ManifestFile : log[i].tree.files[log[i].for.path][f] = log[i].for

(* A release has one answer, however often and through whichever call it is *)
(* asked for: the commit that first held its index, with what that says.    *)
AnswersAgree ==
  /\ \A a, c \in answers : a.release = c.release => a = c
  /\ \A a \in answers :
       /\ a.commit \in DOMAIN log
       /\ log[a.commit].tree.indexes[a.release] = a.bundle
       /\ TreeAt(a.commit - 1).indexes[a.release] = NoBundle

(* The main branch keeps the promise of ManifestLedger.                     *)
Manifests == INSTANCE ManifestLedger
  WITH published <- TreeAt(Len(log)).indexes,
       current <- [p \in Paths |-> TreeAt(Len(log)).files[p]["paasapp.yaml"]]

ImplementsManifestLedger == Manifests!ManifestSpec
=============================================================================
