----------------------------- MODULE BuildPipeline -----------------------------
(***************************************************************************)
(* Builds and their artifacts (internal/build/application).  RequestBuild   *)
(* and RetryBuild create attempts at one build identity; RunBuild carries   *)
(* an attempt through its stages and its artifact through the trust chain,  *)
(* with one transaction per step and the work of tools outside of them;     *)
(* CancelBuild asks the back end to stop and then cancels the row.          *)
(*                                                                         *)
(* A transaction is one step (a mutex in memory, SERIALIZABLE with retries  *)
(* in PostgreSQL).  Any number of RunBuild and CancelBuild calls work on    *)
(* the same build, each with the copy it read; rows are written where their *)
(* version is still the one of the copy.  A write that finds another        *)
(* version, and a call whose request is cancelled or whose process dies,    *)
(* ends (StopRun, StopCancel): nothing resumes a partial build.             *)
(***************************************************************************)
EXTENDS Integers, FiniteSets

CONSTANTS
  Identity,   \* build identities: hashes of exact source and configuration
  Build,      \* the build ids that IDs.NewID may return
  Key,        \* idempotency keys, each used for one command
  Command,    \* [Key -> the command that callers send with the key]
  Runner,     \* concurrent RunBuild calls
  Canceller,  \* concurrent CancelBuild calls
  None        \* no build

Requests == [kind : {"request"}, identity : Identity]
Retries  == [kind : {"retry"}, of : Key]

ASSUME CommandAssumption == Command \in [Key -> Requests \cup Retries]
ASSUME NoneAssumption == None \notin Build \cup Identity

VARIABLES
  build,      \* [Build -> the build row]
  artifact,   \* [Build -> the artifact row of the build (build_id is unique)]
  answer,     \* [Key -> the build its idempotency record names]
  run,        \* [Runner -> its RunBuild call in progress]
  cancel,     \* [Canceller -> its CancelBuild call in progress]
  started,    \* external: [Build -> how often a back end was told to build it]
  stopped     \* external: builds whose back end has confirmed a cancellation

vars == <<build, artifact, answer, run, cancel, started, stopped>>

(* FAILED stands for FAILED_USER_CODE, FAILED_PLATFORM and TIMED_OUT, which  *)
(* classifyFailure tells apart and nothing in the service treats apart.     *)
Unsuccessful == {"FAILED", "CANCELED"}
Terminal == Unsuccessful \cup {"SUCCEEDED"}
BuildStates == Terminal \cup
  {"NONE", "QUEUED", "FETCHING_SOURCE", "DETECTING", "BUILDING", "EXPORTING",
   "SCANNING", "SIGNING"}
ArtifactStates == {"NONE", "QUARANTINED", "SCANNED", "REJECTED", "RELEASABLE"}

(* The place of a RunBuild call between two of its steps, and the state of  *)
(* the copy of the build it holds there.                                    *)
Held ==
  [loaded |-> "QUEUED", fetching |-> "FETCHING_SOURCE",
   detecting |-> "DETECTING", building |-> "BUILDING", built |-> "BUILDING",
   exporting |-> "EXPORTING", quarantined |-> "EXPORTING",
   described |-> "EXPORTING", scanning |-> "SCANNING", scanned |-> "SCANNING",
   rejected |-> "SCANNING", signing |-> "SIGNING"]

NoBuild    == [state |-> "NONE", identity |-> None, attempt |-> 0,
               selected |-> FALSE, version |-> 0]
NoArtifact == [state |-> "NONE", version |-> 0]
IdleRun    == [pc |-> "idle", build |-> None, version |-> 0, artifact |-> 0]
IdleCancel == [pc |-> "idle", build |-> None, version |-> 0]

TypeOK ==
  /\ build \in [Build -> [state : BuildStates, identity : Identity \cup {None},
                          attempt : Nat, selected : BOOLEAN, version : Nat]]
  /\ artifact \in [Build -> [state : ArtifactStates, version : Nat]]
  /\ answer \in [Key -> Build \cup {None}]
  /\ run \in [Runner -> [pc : DOMAIN Held \cup {"idle"},
                         build : Build \cup {None}, version : Nat,
                         artifact : Nat]]
  /\ cancel \in [Canceller -> [pc : {"idle", "loaded", "confirmed"},
                               build : Build \cup {None}, version : Nat]]
  /\ started \in [Build -> Nat]
  /\ stopped \subseteq Build

Init ==
  /\ build = [b \in Build |-> NoBuild]
  /\ artifact = [b \in Build |-> NoArtifact]
  /\ answer = [k \in Key |-> None]
  /\ run = [w \in Runner |-> IdleRun]
  /\ cancel = [c \in Canceller |-> IdleCancel]
  /\ started = [b \in Build |-> 0]
  /\ stopped = {}

-----------------------------------------------------------------------------
(* RequestBuild and RetryBuild                                              *)

Attempts(i) == {b \in Build : build[b].identity = i}

(* FindBuildByIdentity: the attempt with the highest number.                *)
IsLatest(b) ==
  /\ build[b].state # "NONE"
  /\ \A a \in Attempts(build[b].identity) : build[a].attempt <= build[b].attempt

(* InsertBuild: the first attempt, or the next one after an unsuccessful    *)
(* latest one.                                                              *)
InsertBuild(b, i, attempt) ==
  /\ build[b].state = "NONE"
  /\ IF Attempts(i) = {}
       THEN attempt = 1
       ELSE \A a \in Attempts(i) : IsLatest(a) =>
              /\ attempt = build[a].attempt + 1
              /\ build[a].state \in Unsuccessful
  /\ build' = [build EXCEPT ![b] = [state |-> "QUEUED", identity |-> i,
                                    attempt |-> attempt, selected |-> FALSE,
                                    version |-> 1]]

RequestAnyAttempt(k) ==    \* mutant
  /\ answer[k] = None
  /\ Command[k].kind = "request"
  /\ \E b \in Attempts(Command[k].identity) : answer' = [answer EXCEPT ![k] = b]
  /\ UNCHANGED <<build, artifact, run, cancel, started, stopped>>

(* RequestBuild with a new key, of an identity that was built before: the   *)
(* key is answered with the latest attempt, whatever has become of it.      *)
RequestExisting(k) ==
  /\ answer[k] = None
  /\ Command[k].kind = "request"
  /\ \E b \in Attempts(Command[k].identity) :
       /\ IsLatest(b)
       /\ answer' = [answer EXCEPT ![k] = b]
  /\ UNCHANGED <<build, artifact, run, cancel, started, stopped>>

RequestBuild(k) ==
  /\ answer[k] = None
  /\ Command[k].kind = "request"
  /\ Attempts(Command[k].identity) = {}
  /\ \E b \in Build :
       /\ InsertBuild(b, Command[k].identity, 1)
       /\ answer' = [answer EXCEPT ![k] = b]
  /\ UNCHANGED <<artifact, run, cancel, started, stopped>>

(* RetryBuild of a build that a caller knows: only the latest attempt, and  *)
(* only when it has ended without success.                                  *)
RetryBuild(k) ==
  LET original == answer[Command[k].of] IN
  /\ answer[k] = None
  /\ Command[k].kind = "retry"
  /\ original # None
  /\ IsLatest(original)
  /\ build[original].state \in Unsuccessful
  /\ \E b \in Build :
       /\ InsertBuild(b, build[original].identity, build[original].attempt + 1)
       /\ answer' = [answer EXCEPT ![k] = b]
  /\ UNCHANGED <<artifact, run, cancel, started, stopped>>

-----------------------------------------------------------------------------
(* RunBuild                                                                 *)

(* load; a build that is not QUEUED is returned or refused.                 *)
LoadBuild(w, b) ==
  /\ run[w].pc = "idle"
  /\ build[b].state = "QUEUED"
  /\ run' = [run EXCEPT ![w] = [pc |-> "loaded", build |-> b,
                                version |-> build[b].version, artifact |-> 0]]
  /\ UNCHANGED <<build, artifact, answer, cancel, started, stopped>>

BuildMatches(b, version) == build[b].version = version

(* UpdateBuild with the copy that the call holds.                           *)
UpdateBuild(b, version, state) ==
  /\ BuildMatches(b, version)
  /\ build' = [build EXCEPT ![b] =
       [state |-> state, identity |-> build[b].identity,
        attempt |-> build[b].attempt, version |-> version + 1,
        selected |-> build[b].selected \/ state = "BUILDING"]]

(* The call goes on with its copies of the two rows at these versions.      *)
GoOn(w, pc, version, artifactVersion) ==
  run' = [run EXCEPT ![w] = [pc |-> pc, build |-> run[w].build,
                             version |-> version, artifact |-> artifactVersion]]

(* startBuild, advance and selectExecution, after the work of the stage.    *)
Advance(w, from, to) ==
  LET b == run[w].build IN
  /\ run[w].pc = from
  /\ UpdateBuild(b, run[w].version, Held[to])
  /\ GoOn(w, to, run[w].version + 1, run[w].artifact)
  /\ UNCHANGED <<artifact, answer, cancel, started, stopped>>

(* builder.Build returns an image.                                          *)
ExecuteBackend(w) ==
  LET b == run[w].build IN
  /\ run[w].pc = "building"
  /\ started' = [started EXCEPT ![b] = @ + 1]
  /\ GoOn(w, "built", run[w].version, run[w].artifact)
  /\ UNCHANGED <<build, artifact, answer, cancel, stopped>>

(* ... or an error: the back end has begun, the call goes on with fail.     *)
BackendFails(w) ==
  LET b == run[w].build IN
  /\ run[w].pc = "building"
  /\ started' = [started EXCEPT ![b] = @ + 1]
  /\ UpdateBuild(b, run[w].version, "FAILED")
  /\ run' = [run EXCEPT ![w] = IdleRun]
  /\ UNCHANGED <<artifact, answer, cancel, stopped>>

(* Publish and insertArtifact.  The build's row is not consulted.           *)
InsertArtifact(w) ==
  LET b == run[w].build IN
  /\ run[w].pc = "exporting"
  /\ artifact[b].state = "NONE"
  /\ artifact' = [artifact EXCEPT ![b] = [state |-> "QUARANTINED",
                                          version |-> 2]]
  /\ GoOn(w, "quarantined", run[w].version, 2)
  /\ UNCHANGED <<build, answer, cancel, started, stopped>>

(* UpdateArtifact with the copy that the call holds.                        *)
UpdateArtifact(w, row) ==
  LET b == run[w].build IN
  /\ artifact[b].version = run[w].artifact
  /\ artifact' = [artifact EXCEPT ![b] = row]

AttachSBOM(w) ==
  LET v == run[w].artifact + 1 IN
  /\ run[w].pc = "quarantined"
  /\ UpdateArtifact(w, [state |-> "QUARANTINED", version |-> v])
  /\ GoOn(w, "described", run[w].version, v)
  /\ UNCHANGED <<build, answer, cancel, started, stopped>>

ApplyScan(w, passed) ==
  LET v == run[w].artifact + 1
      state == IF passed THEN "SCANNED" ELSE "REJECTED" IN
  /\ run[w].pc = "scanning"
  /\ UpdateArtifact(w, [state |-> state, version |-> v])
  /\ GoOn(w, IF passed THEN "scanned" ELSE "rejected", run[w].version, v)
  /\ UNCHANGED <<build, answer, cancel, started, stopped>>

CompleteInTwoSteps(w) ==    \* mutant
  LET b == run[w].build IN
  /\ run[w].pc = "signing"
  /\ UpdateArtifact(w, [state |-> "RELEASABLE", version |-> run[w].artifact + 2])
  /\ IF BuildMatches(b, run[w].version)
       THEN UpdateBuild(b, run[w].version, "SUCCEEDED") ELSE UNCHANGED build
  /\ run' = [run EXCEPT ![w] = IdleRun]
  /\ UNCHANGED <<answer, cancel, started, stopped>>

(* The last transaction, after Sign, Verify and StoreAttachment: the        *)
(* artifact goes through SIGNED to RELEASABLE and the build succeeds.       *)
CompleteBuild(w) ==
  LET b == run[w].build IN
  /\ run[w].pc = "signing"
  /\ UpdateArtifact(w, [state |-> "RELEASABLE", version |-> run[w].artifact + 2])
  /\ UpdateBuild(b, run[w].version, "SUCCEEDED")
  /\ run' = [run EXCEPT ![w] = IdleRun]
  /\ UNCHANGED <<answer, cancel, started, stopped>>

(* The places where the work of a stage may fail (BackendFails aside).      *)
MayFail == {"fetching", "detecting", "building", "exporting", "quarantined",
            "scanning", "rejected", "signing"}

(* fail, with whatever cause.                                               *)
FailBuild(w) ==
  LET b == run[w].build IN
  /\ run[w].pc \in MayFail
  /\ UpdateBuild(b, run[w].version, "FAILED")
  /\ run' = [run EXCEPT ![w] = IdleRun]
  /\ UNCHANGED <<artifact, answer, cancel, started, stopped>>

StopRun(w) ==
  /\ run[w].pc # "idle"
  /\ run' = [run EXCEPT ![w] = IdleRun]
  /\ UNCHANGED <<build, artifact, answer, cancel, started, stopped>>

-----------------------------------------------------------------------------
(* CancelBuild                                                              *)

LoadCancelIgnoringBackend(c, b) ==    \* mutant
  /\ cancel[c].pc = "idle"
  /\ build[b].state \notin Terminal \cup {"NONE"}
  /\ cancel' = [cancel EXCEPT ![c] = [pc |-> "confirmed", build |-> b,
                                      version |-> build[b].version]]
  /\ UNCHANGED <<build, artifact, answer, run, started, stopped>>

(* load.  A build with a selected back end is stopped there first.          *)
LoadCancel(c, b) ==
  /\ cancel[c].pc = "idle"
  /\ build[b].state \notin Terminal \cup {"NONE"}
  /\ cancel' = [cancel EXCEPT ![c] =
       [pc |-> IF build[b].selected THEN "loaded" ELSE "confirmed",
        build |-> b, version |-> build[b].version]]
  /\ UNCHANGED <<build, artifact, answer, run, started, stopped>>

(* builder.Cancel; an error ends the call.                                  *)
CancelBackend(c) ==
  /\ cancel[c].pc = "loaded"
  /\ stopped' = stopped \cup {cancel[c].build}
  /\ cancel' = [cancel EXCEPT ![c] =
       [pc |-> "confirmed", build |-> cancel[c].build,
        version |-> cancel[c].version]]
  /\ UNCHANGED <<build, artifact, answer, run, started>>

CancelBuild(c) ==
  /\ cancel[c].pc = "confirmed"
  /\ UpdateBuild(cancel[c].build, cancel[c].version, "CANCELED")
  /\ cancel' = [cancel EXCEPT ![c] = IdleCancel]
  /\ UNCHANGED <<artifact, answer, run, started, stopped>>

StopCancel(c) ==
  /\ cancel[c].pc # "idle"
  /\ cancel' = [cancel EXCEPT ![c] = IdleCancel]
  /\ UNCHANGED <<build, artifact, answer, run, started, stopped>>

-----------------------------------------------------------------------------
Stages == {<<"loaded", "fetching">>, <<"fetching", "detecting">>,
           <<"detecting", "building">>, <<"built", "exporting">>,
           <<"described", "scanning">>, <<"scanned", "signing">>}

RunStep(w) ==
  \/ \E b \in Build : LoadBuild(w, b)
  \/ \E s \in Stages : Advance(w, s[1], s[2])
  \/ ExecuteBackend(w)
  \/ InsertArtifact(w)
  \/ AttachSBOM(w)
  \/ \E passed \in BOOLEAN : ApplyScan(w, passed)
  \/ CompleteBuild(w)
  \/ BackendFails(w)
  \/ FailBuild(w)
  \/ StopRun(w)

CancelStep(c) ==
  \/ \E b \in Build : LoadCancel(c, b)
  \/ CancelBackend(c)
  \/ CancelBuild(c)
  \/ StopCancel(c)

Next ==
  \/ \E k \in Key : RequestExisting(k) \/ RequestBuild(k) \/ RetryBuild(k)
  \/ \E w \in Runner : RunStep(w)
  \/ \E c \in Canceller : CancelStep(c)

Spec == Init /\ [][Next]_vars

-----------------------------------------------------------------------------
(* Whatever is cancelled, retried, fails or stops half way: an artifact is  *)
(* RELEASABLE exactly when its build SUCCEEDED, so a build that ended       *)
(* otherwise leaves no trusted artifact (docs/tdd/03: cancel and supersede  *)
(* create no partly trusted artifact).                                      *)
TrustedIffSucceeded ==
  \A b \in Build :
    artifact[b].state = "RELEASABLE" <=> build[b].state = "SUCCEEDED"

(* Two RunBuild calls that have loaded the same queued build, or a call     *)
(* that races with a cancellation, start its back end once, and a build     *)
(* that was cancelled while it had a selected back end was stopped there    *)
(* (a failed cancellation of the back end does not cancel the build).       *)
BackendOnceAndStopped ==
  \A b \in Build :
    /\ started[b] <= 1
    /\ build[b].state = "CANCELED" /\ build[b].selected => b \in stopped

(* An ended build and a decided artifact stay as they are, also for the     *)
(* calls that still hold an older copy.                                     *)
EndedIsFinal ==
  [][\A b \in Build :
       /\ build[b].state \in Terminal => build'[b] = build[b]
       /\ artifact[b].state \in {"RELEASABLE", "REJECTED"} =>
            artifact'[b] = artifact[b]]_vars

(* Requests, retries, runs and cancellations in any order implement the     *)
(* abstract ledger of attempts: an identity has at most one attempt that is *)
(* not over, attempts are numbered without gaps, a successful one is the    *)
(* last, and a key keeps the attempt it was answered with.                  *)
Stage(b) ==
  CASE build[b].state = "QUEUED" -> "queued"
    [] build[b].state = "SUCCEEDED" -> "released"
    [] build[b].state \in Unsuccessful -> "over"
    [] OTHER -> "running"

Latest(i) == CHOOSE b \in Attempts(i) : IsLatest(b)

AttemptsMade == [i \in Identity |-> IF Attempts(i) = {} THEN 0
                                    ELSE build[Latest(i)].attempt]
LatestStage  == [i \in Identity |-> IF Attempts(i) = {} THEN "none"
                                    ELSE Stage(Latest(i))]
Named        == [k \in Key |-> IF answer[k] = None THEN <<>>
                               ELSE <<build[answer[k]].identity,
                                      build[answer[k]].attempt>>]

Ledger == INSTANCE BuildLedger WITH
  attempts <- AttemptsMade, stage <- LatestStage, named <- Named

ImplementsLedger == Ledger!Spec
=============================================================================
