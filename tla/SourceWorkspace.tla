---------------------------- MODULE SourceWorkspace ----------------------------
(***************************************************************************)
(* Workspaces: a clone of a repository that is patched, committed and       *)
(* pushed to a branch (internal/source/application/workspace_service.go,    *)
(* internal/source/domain/workspace.go and internal/source/workspace).      *)
(*                                                                         *)
(* Execute works on a copy of the row and saves it after each stage under   *)
(* the version it was loaded with, so any number of Executes and Deletes    *)
(* run side by side, and a call that is lost is resumed by another one from *)
(* the last stage saved.  The workspaces here share a branch and a base.    *)
(*                                                                         *)
(* The files of a clone are left out: every operation of git may fail, and  *)
(* a commit is known by its number.  Audit records and the checks of Create *)
(* are left out too.                                                        *)
(***************************************************************************)
EXTENDS Integers, FiniteSets

CONSTANTS
  Workspace,         \* workspaces of one branch
  Executor,          \* concurrent calls of Execute and Delete
  MaxBranchCommits,  \* bound on commits
  MaxCredentials,    \* bound on credentials
  MaxVersion         \* bound on a row's version

VARIABLES
  row,         \* [Workspace -> its row in the store]
  call,        \* [Executor -> where its call is, its copy of the row, what it holds]
  tip,         \* the head of the remote branch
  reach,       \* the commits on the remote branch
  landed,      \* ghost: the commits that have been on it
  commits,     \* the number of commits made
  created,     \* the number of credentials made
  live,        \* the credentials that are not revoked
  late,        \* the workspaces past their expiry
  announced,   \* [Workspace -> the number of its workspace_pushed events]
  interrupted  \* ghost: the workspaces a call of which has not run to its end

branchVars == <<tip, reach, landed, commits>>
credentialVars == <<created, live>>
workspaceVars == <<row, call, branchVars, credentialVars, late, announced, interrupted>>

NoHead == -1
Base == 0
NoId == 0     \* no commit, no credential

NoRow == [state |-> "none"]
NewRow == [state |-> "CREATED", version |-> 1, commit |-> NoId, credential |-> NoId]
NoExecution == [at |-> "idle"]

WorkspaceInit ==
  /\ row = [w \in Workspace |-> NoRow]
  /\ call = [c \in Executor |-> NoExecution]
  /\ \/ tip = NoHead /\ reach = {}
     \/ tip = Base /\ reach = {Base}
  /\ landed = reach
  /\ commits = 0 /\ created = 0 /\ live = {}
  /\ late = {} /\ interrupted = {}
  /\ announced = [w \in Workspace |-> 0]

-----------------------------------------------------------------------------
(* Create.                                                                  *)
Create(w) ==
  /\ row[w] = NoRow
  /\ row' = [row EXCEPT ![w] = NewRow]
  /\ UNCHANGED <<call, branchVars, credentialVars, late, announced, interrupted>>

(* load, in Execute and in Delete; Execute of a COMPLETED one is over then. *)
Load(c, w, at) ==
  /\ call[c] = NoExecution
  /\ row[w] # NoRow
  /\ at = "loaded" => row[w].state # "COMPLETED"
  /\ call' = [call EXCEPT ![c] = [at |-> at, workspace |-> w, row |-> row[w],
                                  credential |-> NoId, before |-> NoHead]]
  /\ UNCHANGED <<row, branchVars, credentialVars, late, announced, interrupted>>

-----------------------------------------------------------------------------
(* What a call does to itself: it goes on, or it returns an error.          *)
Continue(c, at) == call' = [call EXCEPT ![c].at = at] /\ UNCHANGED interrupted

ReturnError(c) ==
  /\ call' = [call EXCEPT ![c] = NoExecution]
  /\ interrupted' = interrupted \cup {call[c].workspace}

Moved(r, state) == [r EXCEPT !.state = state, !.version = @ + 1]

BlindUpdate(w, new, expected) ==    \* mutant
  row' = [row EXCEPT ![w] = new]

(* UpdateWorkspace, which a row of another version refuses.                 *)
UpdateWorkspace(w, new, expected) ==
  /\ row[w].version = expected
  /\ row' = [row EXCEPT ![w] = new]

(* save, and on to the next stage; when it is refused the call returns.     *)
Save(c, new, at) ==
  LET w == call[c].workspace IN
  \/ /\ UpdateWorkspace(w, new, call[c].row.version)
     /\ call' = [call EXCEPT ![c].row = new, ![c].at = at]
     /\ UNCHANGED interrupted
  \/ /\ row[w].version # call[c].row.version
     /\ ReturnError(c)
     /\ UNCHANGED row

(* save as the last act of a call that returns an error whether the row was *)
(* taken or not.                                                            *)
SaveAndReturn(c, new) ==
  /\ \/ UpdateWorkspace(call[c].workspace, new, call[c].row.version)
     \/ UNCHANGED row
  /\ ReturnError(c)

(* fail, without revoking the credential.                                   *)
Fail(c) == SaveAndReturn(c, Moved(call[c].row, "FAILED"))

-----------------------------------------------------------------------------
(* CreateCredential; the id goes to the copy of the row.                    *)
CreateCredential(c, at) ==
  /\ created < MaxCredentials
  /\ created' = created + 1
  /\ live' = live \cup {created'}
  /\ call' = [call EXCEPT ![c].at = at, ![c].credential = created',
                          ![c].row.credential = created']
  /\ UNCHANGED interrupted

ReuseCredential(c) ==    \* mutant
  /\ call[c].at = "loaded" /\ call[c].row.state \notin {"CREATED", "PUSHED"}
  /\ call[c].workspace \notin late
  /\ call' = [call EXCEPT ![c].at = "work", ![c].credential = call[c].row.credential]
  /\ UNCHANGED <<row, branchVars, credentialVars, late, announced, interrupted>>

(* An Execute before the expiry that is not the first one gets a credential *)
(* of its own, since none is persisted.                                     *)
ResumeExecute(c) ==
  /\ call[c].at = "loaded" /\ call[c].row.state \notin {"CREATED", "PUSHED"}
  /\ call[c].workspace \notin late
  /\ CreateCredential(c, "work")
  /\ UNCHANGED <<row, branchVars, late, announced>>

StartExecute(c) ==
  /\ call[c].at = "loaded" /\ call[c].row.state = "CREATED"
  /\ call[c].workspace \notin late
  /\ CreateCredential(c, "clone")
  /\ UNCHANGED <<row, branchVars, late, announced>>

(* What has been pushed is only finished, with the credential on record.    *)
ResumePushed(c) ==
  /\ call[c].at = "loaded" /\ call[c].row.state = "PUSHED"
  /\ call' = [call EXCEPT ![c].at = "finish", ![c].credential = call[c].row.credential]
  /\ UNCHANGED <<row, branchVars, credentialVars, late, announced, interrupted>>

(* expire; a deleted one is saved as it is.                                 *)
ExpireLoaded(c) ==
  LET r == call[c].row IN
  /\ call[c].at = "loaded" /\ r.state # "PUSHED"
  /\ call[c].workspace \in late
  /\ r.version < MaxVersion
  /\ SaveAndReturn(c, IF r.state = "DELETED" THEN r ELSE Moved(r, "EXPIRED"))
  /\ UNCHANGED <<branchVars, credentialVars, late, announced>>

(* CloneExact and the first stage; after a failure the credential is        *)
(* revoked, if that works.                                                  *)
CloneExact(c) ==
  /\ call[c].at = "clone"
  /\ \/ Save(c, Moved(call[c].row, "CLONED"), "work") /\ UNCHANGED live
     \/ Fail(c) /\ live' \in {live, live \ {call[c].credential}}
  /\ UNCHANGED <<branchVars, created, late, announced>>

(* Apply.                                                                   *)
Apply(c) ==
  /\ call[c].at = "work" /\ call[c].row.state = "CLONED"
  /\ Save(c, Moved(call[c].row, "PATCHED"), "work") \/ Fail(c)
  /\ UNCHANGED <<branchVars, credentialVars, late, announced>>

(* Commit; the commit stays in the clone when it is not saved.              *)
Commit(c) ==
  /\ call[c].at = "work" /\ call[c].row.state = "PATCHED"
  /\ \/ /\ commits < MaxBranchCommits
        /\ commits' = commits + 1
        /\ Save(c, [Moved(call[c].row, "COMMITTED") EXCEPT !.commit = commits'], "work")
     \/ Fail(c) /\ UNCHANGED commits
  /\ UNCHANGED <<tip, reach, landed, credentialVars, late, announced>>

-----------------------------------------------------------------------------
(* Push begins by reading the head of the branch.                           *)
ReadBranch(c) ==
  /\ call[c].at = "work" /\ call[c].row.state = "COMMITTED"
  /\ \/ /\ call' = [call EXCEPT ![c].at = "push", ![c].before = tip]
        /\ UNCHANGED <<row, interrupted>>
     \/ Fail(c)
  /\ UNCHANGED <<branchVars, credentialVars, late, announced>>

LeaseOnHead(c) == call[c].before    \* mutant

(* What the branch has to be for the push to be taken.                      *)
Lease(c) == IF call[c].before = NoHead THEN NoHead ELSE Base

(* git push --force-with-lease.  It may be refused, or fail, and the answer *)
(* of one that was taken may be lost.                                       *)
PushBranch(c) ==
  LET commit == call[c].row.commit IN
  /\ call[c].at = "push"
  /\ \/ /\ tip \in {Lease(c), commit}
        /\ tip' = commit
        /\ reach' = IF tip = commit THEN reach ELSE {Base, commit}
        /\ landed' = landed \cup reach'
        /\ \E at \in {"pushed", "confirm"} : Continue(c, at)
     \/ Continue(c, "confirm") /\ UNCHANGED <<tip, reach, landed>>
  /\ UNCHANGED <<row, commits, credentialVars, late, announced>>

(* After a failed push the head is read again; that may fail too.           *)
Confirm(c) ==
  /\ call[c].at = "confirm"
  /\ \/ tip = call[c].row.commit /\ Continue(c, "pushed") /\ UNCHANGED row
     \/ Fail(c)
  /\ UNCHANGED <<branchVars, credentialVars, late, announced>>

RecordPushed(c) ==
  /\ call[c].at = "pushed"
  /\ Save(c, Moved(call[c].row, "PUSHED"), "finish")
  /\ UNCHANGED <<branchVars, credentialVars, late, announced>>

-----------------------------------------------------------------------------
FinishUnrevoked(c) ==    \* mutant
  /\ \/ call[c].at = "finish"
     \/ call[c].at = "work" /\ call[c].row.state \in {"FAILED", "DELETED"}
  /\ Continue(c, "complete")
  /\ UNCHANGED <<row, branchVars, credentialVars, late, announced>>

(* finishCredential up to the revocation; an Execute of a workspace that    *)
(* has failed or is deleted comes here with nothing done.                   *)
RevokeCredential(c) ==
  /\ \/ call[c].at = "finish"
     \/ call[c].at = "work" /\ call[c].row.state \in {"FAILED", "DELETED"}
  /\ \/ Continue(c, "complete") /\ live' = live \ {call[c].credential}
     \/ ReturnError(c) /\ live' \in {live, live \ {call[c].credential}}
  /\ UNCHANGED <<row, branchVars, created, late, announced>>

Complete(c) ==
  LET r == call[c].row IN
  /\ call[c].at = "complete"
  /\ IF r.state = "PUSHED"
       THEN Save(c, [Moved(r, "COMPLETED") EXCEPT !.credential = NoId], "announce")
       ELSE ReturnError(c) /\ UNCHANGED row
  /\ UNCHANGED <<branchVars, credentialVars, late, announced>>

(* The event has a transaction of its own, whose error is ignored.          *)
Announce(c) ==
  /\ call[c].at = "announce"
  /\ announced' \in {announced, [announced EXCEPT ![call[c].workspace] = @ + 1]}
  /\ call' = [call EXCEPT ![c] = NoExecution]
  /\ UNCHANGED <<row, branchVars, credentialVars, late, interrupted>>

(* Delete: any workspace that has expired, without revoking anything.       *)
Delete(c) ==
  LET r == call[c].row
      expires == call[c].workspace \in late /\ r.state \notin {"COMPLETED", "FAILED", "DELETED"}
      e == IF expires THEN Moved(r, "EXPIRED") ELSE r
  IN /\ call[c].at = "delete"
     /\ IF e.state \in {"COMPLETED", "EXPIRED", "FAILED", "CREATED"}
          THEN SaveAndReturn(c, [Moved(e, "DELETED") EXCEPT !.credential = NoId])
          ELSE ReturnError(c) /\ UNCHANGED row
     /\ UNCHANGED <<branchVars, credentialVars, late, announced>>

(* A crash, or an error of the store.                                       *)
Crash(c) ==
  /\ call[c] # NoExecution
  /\ ReturnError(c)
  /\ UNCHANGED <<row, branchVars, credentialVars, late, announced>>

-----------------------------------------------------------------------------
Expire(w) ==
  /\ row[w] # NoRow
  /\ late' = late \cup {w}
  /\ UNCHANGED <<row, call, branchVars, credentialVars, announced, interrupted>>

(* Others commit to the branch, on top of what it has, or delete it.        *)
OthersPush ==
  /\ commits < MaxBranchCommits
  /\ commits' = commits + 1
  /\ tip' = commits'
  /\ reach' = reach \cup {commits'}
  /\ landed' = landed \cup {commits'}
  /\ UNCHANGED <<row, call, credentialVars, late, announced, interrupted>>

OthersDelete ==
  /\ tip # NoHead
  /\ tip' = NoHead /\ reach' = {}
  /\ UNCHANGED <<row, landed, call, commits, credentialVars, late, announced, interrupted>>

WorkspaceNext ==
  \/ \E w \in Workspace : Create(w) \/ Expire(w)
  \/ \E c \in Executor :
       \/ \E w \in Workspace, at \in {"loaded", "delete"} : Load(c, w, at)
       \/ StartExecute(c) \/ ResumeExecute(c) \/ ResumePushed(c) \/ ExpireLoaded(c)
       \/ CloneExact(c) \/ Apply(c) \/ Commit(c)
       \/ ReadBranch(c) \/ PushBranch(c) \/ Confirm(c) \/ RecordPushed(c)
       \/ RevokeCredential(c) \/ Complete(c) \/ Announce(c)
       \/ Delete(c) \/ Crash(c)
  \/ OthersPush \/ OthersDelete

WorkspaceSpec == WorkspaceInit /\ [][WorkspaceNext]_workspaceVars

-----------------------------------------------------------------------------
(* A push drops nothing from the branch, whoever else writes to it and      *)
(* however often the push is tried: only deleting the branch does.          *)
BranchKeepsCommits == [][reach \subseteq reach' \/ tip' = NoHead]_branchVars

(* A workspace that is on record as pushed, or announced, has had its       *)
(* commit on the branch, and it is announced once at most, when complete.   *)
RecordedIsPushed ==
  \A w \in Workspace :
    LET announcing == {c \in Executor : /\ call[c].at = "announce"
                                     /\ call[c].workspace = w} IN
    /\ row[w].state \in {"PUSHED", "COMPLETED"} => row[w].commit \in landed
    /\ announced[w] + Cardinality(announcing) <= 1
    /\ announced[w] = 1 => /\ row[w].commit \in landed
                           /\ row[w].state \in {"COMPLETED", "DELETED"}

(* No call loses its credential to another one before it has pushed.        *)
CredentialIsOwn ==
  \A c \in Executor :
    call[c].at \in {"clone", "push", "confirm"} => call[c].credential \in live

(* Once complete, a workspace whose calls have all run to their end has     *)
(* left no credential behind.                                               *)
NothingLeaks ==
  (\A w \in Workspace : row[w].state = "COMPLETED" /\ w \notin interrupted)
    /\ (\A c \in Executor : call[c] = NoExecution)
      => live = {}
=============================================================================
