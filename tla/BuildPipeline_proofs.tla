------------------------- MODULE BuildPipeline_proofs -------------------------
(***************************************************************************)
(* The build service starts a back end at most once for a build, trusts an  *)
(* artifact exactly when its build succeeded and implements the ledger of   *)
(* attempts, for every set of builds, identities, keys and concurrent calls.*)
(*                                                                         *)
(* The argument: a call holds an old version of its build or the row as it  *)
(* is (RunsHold, CancelsHold), so a call that may write knows the state it  *)
(* writes over.  Only the call that moved a build out of QUEUED goes on     *)
(* with it (ActiveRuns), so nobody else starts the back end or writes the   *)
(* artifact.                                                               *)
(***************************************************************************)
EXTENDS BuildPipeline, TLAPS

-----------------------------------------------------------------------------
(* The inductive invariant.                                                 *)

Active(w) == run[w].pc \notin {"idle", "loaded"}

(* A RunBuild call has read its build; if the version is still the one it   *)
(* read, so is the state.                                                   *)
RunHolds(w) ==
  run[w].pc # "idle" =>
    /\ run[w].build \in Build
    /\ build[run[w].build].state # "NONE"
    /\ run[w].version <= build[run[w].build].version
    /\ run[w].version = build[run[w].build].version =>
         build[run[w].build].state = Held[run[w].pc]

RunsHold == \A w \in Runner : RunHolds(w)

(* A call that is past startBuild is alone with its build, and the back end *)
(* and the artifact are where it has brought them.                          *)
ArtifactAt(b, pc, version) ==
  CASE pc \in {"fetching", "detecting", "building", "built", "exporting"} ->
         artifact[b].state = "NONE"
    [] pc \in {"quarantined", "described", "scanning"} ->
         artifact[b] = [state |-> "QUARANTINED", version |-> version]
    [] pc \in {"scanned", "signing"} ->
         artifact[b] = [state |-> "SCANNED", version |-> version]
    [] OTHER -> artifact[b].state = "REJECTED"

ActiveRun(w) ==
  Active(w) =>
    /\ build[run[w].build].state # "QUEUED"
    /\ run[w].pc \in {"fetching", "detecting", "building"} =>
         started[run[w].build] = 0
    /\ ArtifactAt(run[w].build, run[w].pc, run[w].artifact)

ActiveRuns == \A w \in Runner : ActiveRun(w)

OneActiveRun ==
  \A v, w \in Runner :
    (Active(v) /\ Active(w) /\ run[v].build = run[w].build) => v = w

(* A CancelBuild call, likewise.                                            *)
CancelHolds(c) ==
  cancel[c].pc # "idle" =>
    /\ cancel[c].build \in Build
    /\ build[cancel[c].build].state # "NONE"
    /\ cancel[c].version <= build[cancel[c].build].version
    /\ cancel[c].version = build[cancel[c].build].version =>
         /\ build[cancel[c].build].state \notin Terminal
         /\ cancel[c].pc = "confirmed" /\ build[cancel[c].build].selected =>
              cancel[c].build \in stopped

CancelsHold == \A c \in Canceller : CancelHolds(c)

(* Before startBuild there is neither work nor an artifact.                 *)
QueuedIsUntouched ==
  \A b \in Build : build[b].state \in {"NONE", "QUEUED"} =>
    started[b] = 0 /\ artifact[b].state = "NONE"

RowsHaveIdentities ==
  /\ \A b \in Build : build[b].state = "NONE" <=> build[b].identity = None
  /\ \A k \in Key : answer[k] # None => build[answer[k]].state # "NONE"

(* The attempts at an identity are numbered apart, one of them is the       *)
(* latest, and the others are over without success.                         *)
AttemptsFollow ==
  /\ \A a, b \in Build :
       ( /\ build[a].state # "NONE"
         /\ build[a].identity = build[b].identity
         /\ build[a].attempt = build[b].attempt ) => a = b
  /\ \A i \in Identity : Attempts(i) # {} => \E b \in Attempts(i) : IsLatest(b)
  /\ \A b \in Build : build[b].state \notin Unsuccessful \cup {"NONE"} => IsLatest(b)

IInv == /\ TypeOK
        /\ RunsHold
        /\ ActiveRuns
        /\ OneActiveRun
        /\ CancelsHold
        /\ QueuedIsUntouched
        /\ RowsHaveIdentities
        /\ AttemptsFollow
        /\ TrustedIffSucceeded
        /\ BackendOnceAndStopped

-----------------------------------------------------------------------------
(* What a step does to the rows of the builds.                              *)

Row == [state : BuildStates, identity : Identity \cup {None}, attempt : Nat,
        selected : BOOLEAN, version : Nat]

(* One build that is not over moves on.                                     *)
Moves(b) ==
  /\ build[b].state \notin Terminal \cup {"NONE"}
  /\ build'[b].state \in BuildStates \ {"NONE", "QUEUED"}
  /\ build'[b].state = "SUCCEEDED" => build[b].state # "QUEUED"
  /\ build'[b].version = build[b].version + 1
  /\ build'[b].identity = build[b].identity
  /\ build'[b].attempt = build[b].attempt
  /\ \A a \in Build : a # b => build'[a] = build[a]

RowsStep ==
  \/ build' = build
  \/ \E b \in Build : Moves(b)
  \/ \E b \in Build, i \in Identity, n \in Nat : InsertBuild(b, i, n)

LEMMA UpdatedRows ==
  ASSUME TypeOK, NEW b \in Build, NEW v \in Nat, NEW s \in BuildStates,
         UpdateBuild(b, v, s)
  PROVE  /\ build' \in [Build -> Row]
         /\ build'[b] = [state |-> s, identity |-> build[b].identity,
                         attempt |-> build[b].attempt,
                         version |-> build[b].version + 1,
                         selected |-> build[b].selected \/ s = "BUILDING"]
         /\ \A a \in Build : a # b => build'[a] = build[a]
BY DEF UpdateBuild, BuildMatches, TypeOK, Row

LEMMA InsertedRows ==
  ASSUME TypeOK, NEW b \in Build, NEW i \in Identity, NEW n \in Nat,
         InsertBuild(b, i, n)
  PROVE  /\ build' \in [Build -> Row]
         /\ build'[b] = [state |-> "QUEUED", identity |-> i, attempt |-> n,
                         selected |-> FALSE, version |-> 1]
         /\ \A a \in Build : a # b => build'[a] = build[a]
BY DEF InsertBuild, TypeOK, Row, BuildStates

(* A RunBuild call that finds its version writes over the state it held.    *)
LEMMA RunMoves ==
  ASSUME IInv, NEW w \in Runner, NEW s \in BuildStates \ {"NONE", "QUEUED"},
         run[w].pc # "idle", s = "SUCCEEDED" => run[w].pc # "loaded",
         UpdateBuild(run[w].build, run[w].version, s)
  PROVE  /\ run[w].build \in Build
         /\ build[run[w].build].state = Held[run[w].pc]
         /\ build[run[w].build].version = run[w].version
         /\ Moves(run[w].build)
         /\ build' \in [Build -> Row]
         /\ build'[run[w].build] =
              [state |-> s, identity |-> build[run[w].build].identity,
               attempt |-> build[run[w].build].attempt,
               version |-> run[w].version + 1,
               selected |-> build[run[w].build].selected \/ s = "BUILDING"]
<1>1. /\ run[w].build \in Build
      /\ run[w].version \in Nat
      /\ run[w].pc \in DOMAIN Held
  BY DEF IInv, TypeOK, RunsHold, RunHolds
<1>2. /\ build[run[w].build].version = run[w].version
      /\ build[run[w].build].state = Held[run[w].pc]
  BY DEF UpdateBuild, BuildMatches, IInv, RunsHold, RunHolds
<1>3. /\ Held[run[w].pc] \notin Terminal \cup {"NONE"}
      /\ s = "SUCCEEDED" => Held[run[w].pc] # "QUEUED"
  BY <1>1 DEF Held, Terminal, Unsuccessful
<1> DEFINE b == run[w].build
<1>4. /\ build' \in [Build -> Row]
      /\ build'[b] = [state |-> s, identity |-> build[b].identity,
                      attempt |-> build[b].attempt,
                      version |-> build[b].version + 1,
                      selected |-> build[b].selected \/ s = "BUILDING"]
      /\ \A a \in Build : a # b => build'[a] = build[a]
  BY <1>1, UpdatedRows DEF IInv
<1>5. build'[b].version = run[w].version + 1
  BY <1>2, <1>4
<1>6. Moves(b)
  <2>1. build'[b].state = s /\ build'[b].identity = build[b].identity
        /\ build'[b].attempt = build[b].attempt
    BY <1>4
  <2> QED
    BY <1>2, <1>3, <1>4, <1>5, <2>1 DEF Moves
<1> QED
  BY <1>1, <1>2, <1>4, <1>6

LEMMA CancelMoves ==
  ASSUME IInv, NEW c \in Canceller, cancel[c].pc = "confirmed", CancelBuild(c)
  PROVE  /\ cancel[c].build \in Build
         /\ Moves(cancel[c].build)
         /\ build' \in [Build -> Row]
         /\ build'[cancel[c].build].state = "CANCELED"
         /\ build'[cancel[c].build].selected => cancel[c].build \in stopped
<1>1. /\ cancel[c].build \in Build
      /\ cancel[c].version \in Nat
      /\ UpdateBuild(cancel[c].build, cancel[c].version, "CANCELED")
  BY DEF IInv, TypeOK, CancelsHold, CancelHolds, CancelBuild
<1>2. /\ build[cancel[c].build].state \notin Terminal \cup {"NONE"}
      /\ build[cancel[c].build].selected => cancel[c].build \in stopped
  BY <1>1 DEF UpdateBuild, BuildMatches, IInv, CancelsHold, CancelHolds
<1> DEFINE b == cancel[c].build
<1>3. /\ build' \in [Build -> Row]
      /\ build'[b] = [state |-> "CANCELED", identity |-> build[b].identity,
                      attempt |-> build[b].attempt,
                      version |-> build[b].version + 1,
                      selected |-> build[b].selected \/ "CANCELED" = "BUILDING"]
      /\ \A a \in Build : a # b => build'[a] = build[a]
  BY <1>1, UpdatedRows DEF IInv, BuildStates, Terminal, Unsuccessful
<1>4. "CANCELED" \in BuildStates \ {"NONE", "QUEUED"}
  BY DEF BuildStates, Terminal, Unsuccessful
<1>5. Moves(b)
  <2>1. /\ build'[b].state = "CANCELED"
        /\ build'[b].identity = build[b].identity
        /\ build'[b].attempt = build[b].attempt
        /\ build'[b].version = build[b].version + 1
    BY <1>3
  <2> QED
    BY <1>2, <1>3, <1>4, <2>1 DEF Moves
<1>6. build'[b].selected => b \in stopped
  <2>1. build'[b].selected = (build[b].selected \/ "CANCELED" = "BUILDING")
    BY <1>3
  <2> QED
    BY <1>2, <2>1
<1> QED
  BY <1>1, <1>3, <1>5, <1>6

-----------------------------------------------------------------------------
(* What the invariant says of the rows outlives what others do to them.     *)

LEMMA CallsMoveRows ==
  ASSUME IInv, (\E w \in Runner : RunStep(w)) \/ (\E c \in Canceller : CancelStep(c))
  PROVE  build' = build \/ \E b \in Build : Moves(b)
<1>1. CASE \E w \in Runner : RunStep(w)
  <2>1. PICK w \in Runner : RunStep(w)
    BY <1>1
  <2>2. ASSUME NEW s \in BuildStates \ {"NONE", "QUEUED"},
               run[w].pc # "idle", s = "SUCCEEDED" => run[w].pc # "loaded",
               UpdateBuild(run[w].build, run[w].version, s)
        PROVE  \E b \in Build : Moves(b)
    BY <2>2, RunMoves
  <2>3. {"FAILED", "SUCCEEDED"} \subseteq BuildStates \ {"NONE", "QUEUED"}
    BY DEF BuildStates, Terminal, Unsuccessful
  <2>4. \A s \in Stages : /\ s[1] # "idle"
                          /\ Held[s[2]] \in BuildStates \ {"NONE", "QUEUED", "SUCCEEDED"}
    BY DEF Stages, Held, BuildStates
  <2>5. CASE \E s \in Stages : Advance(w, s[1], s[2])
    BY <2>2, <2>4, <2>5 DEF Advance
  <2>6. CASE CompleteBuild(w)
    BY <2>2, <2>3, <2>6 DEF CompleteBuild
  <2>7. CASE BackendFails(w)
    BY <2>2, <2>3, <2>7 DEF BackendFails
  <2>8. CASE FailBuild(w)
    BY <2>2, <2>3, <2>8 DEF FailBuild, MayFail
  <2> QED
    BY <2>1, <2>5, <2>6, <2>7, <2>8
    DEF RunStep, LoadBuild, ExecuteBackend, InsertArtifact,
        AttachSBOM, ApplyScan, StopRun
<1>2. CASE \E c \in Canceller : CancelStep(c)
  <2>1. PICK c \in Canceller : CancelStep(c)
    BY <1>2
  <2>2. CASE CancelBuild(c)
    BY <2>2, CancelMoves DEF CancelBuild
  <2> QED
    BY <2>1, <2>2
    DEF CancelStep, LoadCancel, CancelBackend, StopCancel
<1> QED
  BY <1>1, <1>2

LEMMA NextMovesRows ==
  ASSUME IInv, Next
  PROVE  RowsStep
<1>1. CASE \E k \in Key : RequestExisting(k) \/ RequestBuild(k) \/ RetryBuild(k)
  <2>1. PICK k \in Key : RequestExisting(k) \/ RequestBuild(k) \/ RetryBuild(k)
    BY <1>1
  <2>2. CASE RequestExisting(k)
    BY <2>2 DEF RequestExisting, RowsStep
  <2>3. CASE RequestBuild(k)
    <3>1. Command[k].identity \in Identity
      BY <2>3, CommandAssumption DEF RequestBuild, Requests, Retries
    <3> QED
      BY <2>3, <3>1 DEF RequestBuild, RowsStep
  <2>4. CASE RetryBuild(k)
    <3> DEFINE original == answer[Command[k].of]
    <3>1. original \in Build /\ build[original].state # "NONE"
      <4>1. Command[k].of \in Key
        BY <2>4, CommandAssumption DEF RetryBuild, Requests, Retries
      <4> QED
        BY <2>4, <4>1 DEF RetryBuild, IInv, TypeOK, RowsHaveIdentities
    <3>2. /\ build[original].identity \in Identity
          /\ build[original].attempt + 1 \in Nat
      BY <3>1 DEF IInv, TypeOK, RowsHaveIdentities
    <3> QED
      BY <2>4, <3>2 DEF RetryBuild, RowsStep
  <2> QED
    BY <2>1, <2>2, <2>3, <2>4
<1>2. CASE (\E w \in Runner : RunStep(w)) \/ (\E c \in Canceller : CancelStep(c))
  BY <1>2, CallsMoveRows DEF RowsStep
<1> QED
  BY <1>1, <1>2 DEF Next

LEMMA RowsRemain ==
  ASSUME IInv, RowsStep, NEW b \in Build, build[b].state # "NONE"
  PROVE  /\ build'[b].state # "NONE"
         /\ build[b].state # "QUEUED" => build'[b].state # "QUEUED"
         /\ build'[b].version \in Nat
         /\ build[b].version <= build'[b].version
         /\ build'[b].version = build[b].version => build'[b] = build[b]
         /\ build'[b].identity = build[b].identity
         /\ build'[b].attempt = build[b].attempt
<1>1. build[b].version \in Nat
  BY DEF IInv, TypeOK
<1>2. CASE build' = build
  BY <1>1, <1>2
<1>3. CASE \E a \in Build : Moves(a)
  BY <1>1, <1>3 DEF Moves
<1>4. CASE \E a \in Build, i \in Identity, n \in Nat : InsertBuild(a, i, n)
  <2>1. PICK a \in Build, i \in Identity, n \in Nat : InsertBuild(a, i, n)
    BY <1>4
  <2>2. a # b
    BY <2>1 DEF InsertBuild
  <2>3. build'[b] = build[b]
    BY <2>1, <2>2, InsertedRows DEF IInv
  <2> QED
    BY <1>1, <2>3
<1> QED
  BY <1>2, <1>3, <1>4 DEF RowsStep

LEMMA OtherRuns ==
  ASSUME IInv, RowsStep, NEW w \in Runner, run'[w] = run[w]
  PROVE  RunHolds(w)'
<1>1. CASE run[w].pc = "idle"
  BY <1>1 DEF RunHolds
<1>2. CASE run[w].pc # "idle"
  <2>1. /\ run[w].build \in Build
        /\ build[run[w].build].state # "NONE"
        /\ run[w].version <= build[run[w].build].version
        /\ run[w].version = build[run[w].build].version =>
             build[run[w].build].state = Held[run[w].pc]
        /\ run[w].version \in Nat
        /\ build[run[w].build].version \in Nat
    BY <1>2 DEF IInv, RunsHold, RunHolds, TypeOK
  <2>2. /\ build'[run[w].build].state # "NONE"
        /\ build'[run[w].build].version \in Nat
        /\ build[run[w].build].version <= build'[run[w].build].version
        /\ build'[run[w].build].version = build[run[w].build].version =>
             build'[run[w].build] = build[run[w].build]
    BY <2>1, RowsRemain
  <2> QED
    BY <2>1, <2>2 DEF RunHolds
<1> QED
  BY <1>1, <1>2

LEMMA OtherCancels ==
  ASSUME IInv, RowsStep, NEW c \in Canceller, cancel'[c] = cancel[c],
         stopped \subseteq stopped'
  PROVE  CancelHolds(c)'
<1>1. CASE cancel[c].pc = "idle"
  BY <1>1 DEF CancelHolds
<1>2. CASE cancel[c].pc # "idle"
  <2>1. /\ cancel[c].build \in Build
        /\ build[cancel[c].build].state # "NONE"
        /\ cancel[c].version <= build[cancel[c].build].version
        /\ cancel[c].version = build[cancel[c].build].version =>
             /\ build[cancel[c].build].state \notin Terminal
             /\ cancel[c].pc = "confirmed" /\ build[cancel[c].build].selected =>
                  cancel[c].build \in stopped
        /\ cancel[c].version \in Nat
        /\ build[cancel[c].build].version \in Nat
    BY <1>2 DEF IInv, CancelsHold, CancelHolds, TypeOK
  <2>2. /\ build'[cancel[c].build].state # "NONE"
        /\ build'[cancel[c].build].version \in Nat
        /\ build[cancel[c].build].version <= build'[cancel[c].build].version
        /\ build'[cancel[c].build].version = build[cancel[c].build].version =>
             build'[cancel[c].build] = build[cancel[c].build]
    BY <2>1, RowsRemain
  <2> QED
    BY <2>1, <2>2 DEF CancelHolds
<1> QED
  BY <1>1, <1>2

LEMMA OtherActiveRuns ==
  ASSUME IInv, RowsStep, NEW w \in Runner, run'[w] = run[w],
         Active(w) => /\ started'[run[w].build] = started[run[w].build]
                      /\ artifact'[run[w].build] = artifact[run[w].build]
  PROVE  ActiveRun(w)'
<1>1. CASE Active(w)
  <2>1. /\ run[w].build \in Build
        /\ build[run[w].build].state \notin {"NONE", "QUEUED"}
        /\ ActiveRun(w)
    BY <1>1 DEF Active, IInv, RunsHold, RunHolds, ActiveRuns, ActiveRun
  <2>2. build'[run[w].build].state # "QUEUED"
    BY <2>1, RowsRemain
  <2> QED
    BY <1>1, <2>1, <2>2 DEF Active, ActiveRun, ArtifactAt
<1>2. CASE ~Active(w)
  BY <1>2 DEF Active, ActiveRun
<1> QED
  BY <1>1, <1>2

LEMMA RowsKeepIdentities ==
  ASSUME IInv, RowsStep,
         \A k \in Key : answer'[k] # answer[k] => build'[answer'[k]].state # "NONE"
  PROVE  RowsHaveIdentities'
<1>1. ASSUME NEW b \in Build
      PROVE  build'[b].state = "NONE" <=> build'[b].identity = None
  <2>1. build[b].state = "NONE" <=> build[b].identity = None
    BY DEF IInv, RowsHaveIdentities
  <2>2. CASE build[b].state # "NONE"
    BY <2>1, <2>2, RowsRemain
  <2>3. CASE build' = build
    BY <2>1, <2>3
  <2>4. CASE \E a \in Build : Moves(a)
    BY <2>1, <2>4 DEF Moves
  <2>5. CASE \E a \in Build, i \in Identity, n \in Nat : InsertBuild(a, i, n)
    <3>1. PICK a \in Build, i \in Identity, n \in Nat : InsertBuild(a, i, n)
      BY <2>5
    <3>2. i # None
      BY NoneAssumption
    <3>3. /\ build'[a].state = "QUEUED" /\ build'[a].identity = i
          /\ a # b => build'[b] = build[b]
      <4>1. /\ build'[a] = [state |-> "QUEUED", identity |-> i, attempt |-> n,
                            selected |-> FALSE, version |-> 1]
            /\ a # b => build'[b] = build[b]
        BY <3>1, InsertedRows DEF IInv
      <4> QED
        BY <4>1
    <3> QED
      BY <2>1, <3>2, <3>3
  <2> QED
    BY <2>3, <2>4, <2>5 DEF RowsStep
<1>2. ASSUME NEW k \in Key, answer'[k] # None
      PROVE  build'[answer'[k]].state # "NONE"
  <2>1. CASE answer'[k] = answer[k]
    BY <1>2, <2>1, RowsRemain DEF IInv, TypeOK, RowsHaveIdentities
  <2> QED
    BY <2>1
<1> QED
  BY <1>1, <1>2 DEF RowsHaveIdentities

LEMMA AttemptsStillFollow ==
  ASSUME IInv, RowsStep
  PROVE  AttemptsFollow'
<1>1. CASE build' = build
  BY <1>1 DEF IInv, AttemptsFollow, Attempts, IsLatest
<1>2. CASE \E b \in Build : Moves(b)
  <2>1. PICK b \in Build : Moves(b)
    BY <1>2
  <2>2. \A a \in Build : /\ build'[a].identity = build[a].identity
                         /\ build'[a].attempt = build[a].attempt
                         /\ build'[a].state = "NONE" <=> build[a].state = "NONE"
                         /\ build'[a].state \notin Unsuccessful =>
                              build[a].state \notin Unsuccessful
    BY <2>1 DEF Moves, Terminal
  <2>3. \A i \in Identity : Attempts(i)' = Attempts(i)
    BY <2>2 DEF Attempts
  <2>4. \A a \in Build : IsLatest(a)' <=> IsLatest(a)
    BY <2>2 DEF Attempts, IsLatest
  <2> QED
    BY <2>2, <2>3, <2>4 DEF IInv, AttemptsFollow, Attempts
<1>3. CASE \E b \in Build, i \in Identity, n \in Nat : InsertBuild(b, i, n)
  <2>1. PICK b \in Build, i \in Identity, n \in Nat : InsertBuild(b, i, n)
    BY <1>3
  <2>2. /\ build'[b].state = "QUEUED"
        /\ build'[b].identity = i
        /\ build'[b].attempt = n
        /\ \A a \in Build : a # b => build'[a] = build[a]
    <3>1. /\ build'[b] = [state |-> "QUEUED", identity |-> i, attempt |-> n,
                          selected |-> FALSE, version |-> 1]
          /\ \A a \in Build : a # b => build'[a] = build[a]
      BY <2>1, InsertedRows DEF IInv
    <3> QED
      BY <3>1
  <2>3. build[b].state = "NONE" /\ build[b].identity = None
    BY <2>1 DEF InsertBuild, IInv, RowsHaveIdentities
  <2>4. i # None
    BY NoneAssumption
  <2>5. \A a \in Build : a # b => (a \in Attempts(i) <=> build'[a].identity = i)
    BY <2>2 DEF Attempts
  <2>6. \A a \in Attempts(i) : /\ build[a].attempt < n
                               /\ IsLatest(a) => build[a].state \in Unsuccessful
    <3>1. CASE Attempts(i) = {}
      BY <3>1
    <3>2. CASE Attempts(i) # {}
      <4>1. PICK c \in Attempts(i) : IsLatest(c)
        BY <3>2 DEF IInv, AttemptsFollow
      <4>2. /\ n = build[c].attempt + 1
            /\ \A a \in Attempts(i) : IsLatest(a) => build[a].state \in Unsuccessful
        BY <2>1, <3>2, <4>1 DEF InsertBuild
      <4>3. build[c].identity = i
        BY <4>1 DEF Attempts
      <4>4. \A a \in Attempts(i) : build[a].attempt <= build[c].attempt
        BY <4>1, <4>3 DEF IsLatest
      <4>5. \A a \in Attempts(i) : build[a].attempt \in Nat
        BY DEF IInv, TypeOK, Attempts
      <4> QED
        BY <4>1, <4>2, <4>4, <4>5
    <3> QED
      BY <3>1, <3>2
  <2>7. IsLatest(b)'
    <3>1. n <= n
      OBVIOUS
    <3>2. \A a \in Attempts(i) : build[a].attempt \in Nat
      BY DEF IInv, TypeOK, Attempts
    <3> QED
      BY <2>2, <2>5, <2>6, <3>1, <3>2 DEF IsLatest, Attempts
  <2>8. ASSUME NEW a \in Build, a # b, build[a].identity # i
        PROVE  IsLatest(a)' <=> IsLatest(a)
    <3>1. CASE build[a].state = "NONE"
      BY <2>2, <2>8, <3>1 DEF IsLatest
    <3>2. CASE build[a].state # "NONE"
      <4>1. build[a].identity # None
        BY <3>2 DEF IInv, RowsHaveIdentities
      <4>2. \A c \in Build :
              c \in Attempts(build[a].identity)' <=>
              c \in Attempts(build[a].identity)
        BY <2>2, <2>3, <2>8, <4>1 DEF Attempts
      <4>3. b \notin Attempts(build[a].identity)
        BY <2>3, <4>1 DEF Attempts
      <4> QED
        BY <2>2, <2>8, <4>2, <4>3 DEF IsLatest, Attempts
    <3> QED
      BY <3>1, <3>2
  <2>9. ASSUME NEW a \in Build, NEW c \in Build, build'[a].state # "NONE",
               build'[a].identity = build'[c].identity,
               build'[a].attempt = build'[c].attempt
        PROVE  a = c
    <3>1. \A d \in Build : d # b /\ build'[d].identity = i => build'[d].attempt # n
      BY <2>2, <2>5, <2>6 DEF IInv, TypeOK, Attempts
    <3>2. CASE a = b \/ c = b
      BY <2>2, <2>9, <3>1, <3>2
    <3>3. CASE a # b /\ c # b
      <4>1. build'[a] = build[a] /\ build'[c] = build[c]
        BY <2>2, <3>3
      <4> QED
        BY <2>9, <4>1 DEF IInv, AttemptsFollow
    <3> QED
      BY <3>2, <3>3
  <2>10. ASSUME NEW j \in Identity, Attempts(j)' # {}
         PROVE  \E a \in Attempts(j)' : IsLatest(a)'
    <3>1. CASE j = i
      <4>1. b \in Attempts(j)'
        BY <2>2, <3>1 DEF Attempts
      <4> QED
        BY <2>7, <4>1
    <3>2. CASE j # i
      <4>1. Attempts(j)' = Attempts(j)
        <5>1. j # None
          BY NoneAssumption
        <5> QED
          BY <2>2, <2>3, <3>2, <5>1 DEF Attempts
      <4>2. PICK a \in Attempts(j) : IsLatest(a)
        BY <2>10, <4>1 DEF IInv, AttemptsFollow
      <4>3. a \in Build /\ build[a].identity = j
        BY DEF Attempts
      <4>4. a # b
        <5>1. j # None
          BY NoneAssumption
        <5> QED
          BY <2>3, <4>3, <5>1
      <4>5. IsLatest(a)'
        BY <2>8, <3>2, <4>2, <4>3, <4>4
      <4> QED
        BY <4>1, <4>5
    <3> QED
      BY <3>1, <3>2
  <2>11. ASSUME NEW a \in Build, build'[a].state \notin Unsuccessful \cup {"NONE"}
         PROVE  IsLatest(a)'
    <3>1. CASE a = b
      BY <2>7, <3>1
    <3>2. CASE a # b
      <4>1. build'[a] = build[a]
        BY <2>2, <3>2
      <4>2. IsLatest(a) /\ build[a].state \notin Unsuccessful
        BY <2>11, <4>1 DEF IInv, AttemptsFollow
      <4>3. build[a].identity # i
        BY <2>6, <4>2 DEF Attempts
      <4> QED
        BY <2>8, <3>2, <4>2, <4>3
    <3> QED
      BY <3>1, <3>2
  <2> QED
    BY <2>9, <2>10, <2>11 DEF AttemptsFollow
<1> QED
  BY <1>1, <1>2, <1>3 DEF RowsStep

-----------------------------------------------------------------------------
(* A step of one RunBuild call keeps the invariant if it does so for its    *)
(* own build.                                                               *)
LEMMA RunStepKeeps ==
  ASSUME IInv, RowsStep, TypeOK', NEW w \in Runner,
         UNCHANGED <<answer, cancel, stopped>>,
         \A v \in Runner : v # w => run'[v] = run[v],
         \A b \in Build : (started'[b] # started[b] \/ artifact'[b] # artifact[b])
                             => Active(w) /\ b = run[w].build,
         Active(w)' => \/ Active(w) /\ run'[w].build = run[w].build
                       \/ build[run'[w].build].state = "QUEUED",
         RunHolds(w)', ActiveRun(w)', TrustedIffSucceeded', BackendOnceAndStopped'
  PROVE  IInv'
<1>1. RunsHold'
  BY OtherRuns DEF RunsHold
<1>2. ASSUME NEW v \in Runner, v # w
      PROVE  ActiveRun(v)'
  <2>1. run'[v] = run[v]
    BY <1>2
  <2>2. Active(v) => run[v].build \in Build
    BY DEF Active, IInv, RunsHold, RunHolds
  <2>3. Active(v) /\ Active(w) => run[v].build # run[w].build
    BY <1>2 DEF IInv, OneActiveRun
  <2> QED
    BY <2>1, <2>2, <2>3, OtherActiveRuns
<1>3. ActiveRuns'
  BY <1>2 DEF ActiveRuns
<1>4. OneActiveRun'
  <2>1. \A v \in Runner : Active(v) => build[run[v].build].state # "QUEUED"
    BY DEF IInv, ActiveRuns, ActiveRun
  <2>2. \A v \in Runner : v # w => (Active(v)' <=> Active(v))
    BY DEF Active
  <2>3. ASSUME NEW v \in Runner, v # w, Active(v)', Active(w)'
        PROVE  run'[v].build # run'[w].build
    BY <2>1, <2>2, <2>3 DEF IInv, OneActiveRun
  <2> QED
    BY <2>2, <2>3 DEF IInv, OneActiveRun
<1>5. CancelsHold'
  BY OtherCancels DEF CancelsHold
<1>6. QueuedIsUntouched'
  <2>1. ASSUME NEW b \in Build, build'[b].state \in {"NONE", "QUEUED"}
        PROVE  started'[b] = 0 /\ artifact'[b].state = "NONE"
    <3>1. build[b].state \in {"NONE", "QUEUED"}
      BY <2>1, RowsRemain
    <3>2. ~(Active(w) /\ b = run[w].build)
      BY <3>1 DEF Active, IInv, RunsHold, RunHolds, ActiveRuns, ActiveRun
    <3> QED
      BY <3>1, <3>2 DEF IInv, QueuedIsUntouched
  <2> QED
    BY <2>1 DEF QueuedIsUntouched
<1>7. RowsHaveIdentities'
  BY RowsKeepIdentities
<1>8. AttemptsFollow'
  BY AttemptsStillFollow
<1> QED
  BY <1>1, <1>3, <1>4, <1>5, <1>6, <1>7, <1>8 DEF IInv

(* Steps that leave the rows of the builds as they are.                     *)
LEMMA LoadKeeps ==
  ASSUME IInv, NEW w \in Runner, NEW b \in Build, LoadBuild(w, b)
  PROVE  IInv'
<1>1. /\ run'[w] = [pc |-> "loaded", build |-> b, version |-> build[b].version,
                    artifact |-> 0]
      /\ \A v \in Runner : v # w => run'[v] = run[v]
      /\ UNCHANGED <<build, artifact, answer, cancel, started, stopped>>
      /\ build[b].state = "QUEUED"
  BY DEF LoadBuild, IInv, TypeOK
<1>2. RowsStep
  BY <1>1 DEF RowsStep
<1>3. TypeOK'
  BY DEF LoadBuild, IInv, TypeOK, Held
<1>4. RunHolds(w)'
  BY <1>1, <1>3 DEF RunHolds, Held, TypeOK
<1>5. ActiveRun(w)' /\ ~Active(w)'
  BY <1>1 DEF ActiveRun, Active
<1>6. TrustedIffSucceeded' /\ BackendOnceAndStopped'
  BY <1>1 DEF IInv, TrustedIffSucceeded, BackendOnceAndStopped
<1> QED
  BY <1>1, <1>2, <1>3, <1>4, <1>5, <1>6, RunStepKeeps

LEMMA StopKeeps ==
  ASSUME IInv, NEW w \in Runner, StopRun(w)
  PROVE  IInv'
<1>1. /\ run'[w] = IdleRun
      /\ \A v \in Runner : v # w => run'[v] = run[v]
      /\ UNCHANGED <<build, artifact, answer, cancel, started, stopped>>
  BY DEF StopRun, IInv, TypeOK
<1>2. RowsStep
  BY <1>1 DEF RowsStep
<1>3. TypeOK'
  BY DEF StopRun, IInv, TypeOK, IdleRun
<1>4. RunHolds(w)' /\ ActiveRun(w)' /\ ~Active(w)'
  BY <1>1 DEF RunHolds, ActiveRun, Active, IdleRun
<1>5. TrustedIffSucceeded' /\ BackendOnceAndStopped'
  BY <1>1 DEF IInv, TrustedIffSucceeded, BackendOnceAndStopped
<1> QED
  BY <1>1, <1>2, <1>3, <1>4, <1>5, RunStepKeeps

LEMMA ExecuteKeeps ==
  ASSUME IInv, NEW w \in Runner, ExecuteBackend(w)
  PROVE  IInv'
<1> DEFINE b == run[w].build
<1>1. /\ run[w].pc = "building"
      /\ b \in Build
      /\ Active(w)
      /\ started[b] = 0
      /\ artifact[b].state = "NONE"
      /\ build[b].state # "QUEUED"
  BY DEF ExecuteBackend, Active, IInv, RunsHold, RunHolds, ActiveRuns,
         ActiveRun, ArtifactAt
<1>2. /\ run'[w] = [pc |-> "built", build |-> b, version |-> run[w].version,
                    artifact |-> run[w].artifact]
      /\ \A v \in Runner : v # w => run'[v] = run[v]
      /\ UNCHANGED <<build, artifact, answer, cancel, stopped>>
      /\ started' = [started EXCEPT ![b] = @ + 1]
  BY DEF ExecuteBackend, GoOn, IInv, TypeOK
<1>3. RowsStep
  BY <1>2 DEF RowsStep
<1>4. TypeOK'
  <2>1. run' \in [Runner -> [pc : DOMAIN Held \cup {"idle"},
                             build : Build \cup {None}, version : Nat,
                             artifact : Nat]]
    BY <1>1 DEF ExecuteBackend, GoOn, IInv, TypeOK, Held
  <2>2. started' \in [Build -> Nat]
    BY <1>1, <1>2 DEF IInv, TypeOK
  <2> QED
    BY <1>2, <2>1, <2>2 DEF IInv, TypeOK
<1>5. RunHolds(w)'
  BY <1>1, <1>2 DEF RunHolds, IInv, RunsHold, Held
<1>6. ActiveRun(w)'
  BY <1>1, <1>2 DEF ActiveRun, ArtifactAt
<1>7. TrustedIffSucceeded' /\ BackendOnceAndStopped'
  BY <1>1, <1>2 DEF IInv, TypeOK, TrustedIffSucceeded, BackendOnceAndStopped
<1>8. \A c \in Build : started'[c] # started[c] => c = b
  BY <1>2 DEF IInv, TypeOK
<1> QED
  BY <1>1, <1>2, <1>3, <1>4, <1>5, <1>6, <1>7, <1>8, RunStepKeeps

LEMMA InsertArtifactKeeps ==
  ASSUME IInv, NEW w \in Runner, InsertArtifact(w)
  PROVE  IInv'
<1> DEFINE b == run[w].build
<1>1. /\ run[w].pc = "exporting"
      /\ b \in Build
      /\ Active(w)
      /\ artifact[b].state = "NONE"
      /\ build[b].state # "QUEUED"
  BY DEF InsertArtifact, Active, IInv, RunsHold, RunHolds, ActiveRuns,
         ActiveRun
<1>2. /\ run'[w] = [pc |-> "quarantined", build |-> b, version |-> run[w].version,
                    artifact |-> 2]
      /\ \A v \in Runner : v # w => run'[v] = run[v]
      /\ UNCHANGED <<build, answer, cancel, started, stopped>>
      /\ artifact' = [artifact EXCEPT ![b] = [state |-> "QUARANTINED", version |-> 2]]
  BY DEF InsertArtifact, GoOn, IInv, TypeOK
<1>3. RowsStep
  BY <1>2 DEF RowsStep
<1>4. TypeOK'
  <2>1. run' \in [Runner -> [pc : DOMAIN Held \cup {"idle"},
                             build : Build \cup {None}, version : Nat,
                             artifact : Nat]]
    BY <1>1 DEF InsertArtifact, GoOn, IInv, TypeOK, Held
  <2>2. artifact' \in [Build -> [state : ArtifactStates, version : Nat]]
    BY <1>1, <1>2 DEF IInv, TypeOK, ArtifactStates
  <2> QED
    BY <1>2, <2>1, <2>2 DEF IInv, TypeOK
<1>5. RunHolds(w)'
  BY <1>1, <1>2 DEF RunHolds, IInv, RunsHold, Held
<1>6. artifact'[b] = [state |-> "QUARANTINED", version |-> 2]
      /\ \A c \in Build : c # b => artifact'[c] = artifact[c]
  BY <1>1, <1>2 DEF IInv, TypeOK
<1>7. ActiveRun(w)'
  BY <1>1, <1>2, <1>6 DEF ActiveRun, ArtifactAt
<1>8. TrustedIffSucceeded' /\ BackendOnceAndStopped'
  BY <1>1, <1>2, <1>6 DEF IInv, TrustedIffSucceeded, BackendOnceAndStopped
<1> QED
  BY <1>1, <1>2, <1>3, <1>4, <1>5, <1>6, <1>7, <1>8, RunStepKeeps

(* The two updates of an artifact that leave the build as it is.            *)
LEMMA UpdateArtifactKeeps ==
  ASSUME IInv, NEW w \in Runner,
         NEW to \in {"described", "scanned", "rejected"},
         NEW state \in {"QUARANTINED", "SCANNED", "REJECTED"},
         \/ run[w].pc = "quarantined" /\ to = "described" /\ state = "QUARANTINED"
         \/ run[w].pc = "scanning" /\ to = "scanned" /\ state = "SCANNED"
         \/ run[w].pc = "scanning" /\ to = "rejected" /\ state = "REJECTED",
         UpdateArtifact(w, [state |-> state, version |-> run[w].artifact + 1]),
         GoOn(w, to, run[w].version, run[w].artifact + 1),
         UNCHANGED <<build, answer, cancel, started, stopped>>
  PROVE  IInv'
<1> DEFINE b == run[w].build
           u == run[w].artifact + 1
<1>1. /\ b \in Build
      /\ u \in Nat
      /\ Active(w)
      /\ artifact[b].state = "QUARANTINED"
      /\ build[b].state # "QUEUED"
      /\ build[b].state # "SUCCEEDED"
  <2>1. run[w].pc \in {"quarantined", "scanning"} /\ Active(w)
    BY DEF Active
  <2>2. b \in Build /\ u \in Nat
    BY <2>1 DEF IInv, TypeOK, RunsHold, RunHolds
  <2>3. ActiveRun(w)
    BY DEF IInv, ActiveRuns
  <2>4. artifact[b] = [state |-> "QUARANTINED", version |-> run[w].artifact]
    BY <2>1, <2>3 DEF ActiveRun, ArtifactAt
  <2> QED
    BY <2>1, <2>2, <2>3, <2>4 DEF ActiveRun, IInv, TrustedIffSucceeded
<1>2. /\ run'[w] = [pc |-> to, build |-> b, version |-> run[w].version,
                    artifact |-> u]
      /\ \A v \in Runner : v # w => run'[v] = run[v]
      /\ artifact'[b] = [state |-> state, version |-> u]
      /\ \A c \in Build : c # b => artifact'[c] = artifact[c]
  BY <1>1 DEF UpdateArtifact, GoOn, IInv, TypeOK
<1>3. RowsStep
  BY DEF RowsStep
<1>4. TypeOK'
  <2>1. run' \in [Runner -> [pc : DOMAIN Held \cup {"idle"},
                             build : Build \cup {None}, version : Nat,
                             artifact : Nat]]
    BY <1>1 DEF GoOn, IInv, TypeOK, Held
  <2>2. artifact' \in [Build -> [state : ArtifactStates, version : Nat]]
    BY <1>1 DEF UpdateArtifact, IInv, TypeOK, ArtifactStates
  <2> QED
    BY <2>1, <2>2 DEF IInv, TypeOK
<1>5. RunHolds(w)'
  BY <1>1, <1>2 DEF RunHolds, IInv, RunsHold, Held
<1>6. ActiveRun(w)'
  BY <1>1, <1>2 DEF ActiveRun, ArtifactAt
<1>7. TrustedIffSucceeded' /\ BackendOnceAndStopped'
  BY <1>1, <1>2 DEF IInv, TrustedIffSucceeded, BackendOnceAndStopped
<1> QED
  BY <1>1, <1>2, <1>3, <1>4, <1>5, <1>6, <1>7, RunStepKeeps

-----------------------------------------------------------------------------
(* Steps of a RunBuild call that write its build.                           *)
LEMMA RunTypes ==
  ASSUME IInv, NEW w \in Runner, build' \in [Build -> Row],
         UNCHANGED <<answer, cancel, stopped>>,
         artifact' \in [Build -> [state : ArtifactStates, version : Nat]],
         started' \in [Build -> Nat],
         run' = [run EXCEPT ![w] = IdleRun] \/
           \E pc \in DOMAIN Held : GoOn(w, pc, run[w].version + 1, run[w].artifact)
  PROVE  TypeOK'
<1>1. IdleRun \in [pc : DOMAIN Held \cup {"idle"}, build : Build \cup {None},
                  version : Nat, artifact : Nat]
  BY DEF IdleRun
<1>2. run' \in [Runner -> [pc : DOMAIN Held \cup {"idle"},
                           build : Build \cup {None}, version : Nat,
                           artifact : Nat]]
  <2>1. run \in [Runner -> [pc : DOMAIN Held \cup {"idle"},
                            build : Build \cup {None}, version : Nat,
                            artifact : Nat]]
    BY DEF IInv, TypeOK
  <2>2. CASE run' = [run EXCEPT ![w] = IdleRun]
    BY <1>1, <2>1, <2>2
  <2>3. CASE \E pc \in DOMAIN Held :
               GoOn(w, pc, run[w].version + 1, run[w].artifact)
    BY <2>1, <2>3 DEF GoOn
  <2> QED
    BY <2>2, <2>3
<1> QED
  BY <1>2 DEF IInv, TypeOK, Row

LEMMA StageFacts ==
  ASSUME NEW s \in Stages
  PROVE  /\ s[1] \in DOMAIN Held
         /\ s[1] # "idle"
         /\ s[2] \in DOMAIN Held
         /\ s[2] \notin {"idle", "loaded"}
         /\ Held[s[2]] \in BuildStates \ {"NONE", "QUEUED", "SUCCEEDED", "CANCELED"}
         /\ s[1] = "loaded" <=> s[2] = "fetching"
         /\ s[2] \in {"fetching", "detecting", "building"} =>
              s[1] \in {"loaded", "fetching", "detecting"}
BY DEF Stages, Held, BuildStates

LEMMA AdvanceKeeps ==
  ASSUME IInv, NEW w \in Runner, NEW s \in Stages, Advance(w, s[1], s[2])
  PROVE  IInv'
<1> DEFINE b == run[w].build
           to == Held[s[2]]
<1>1. /\ run[w].pc = s[1]
      /\ run[w].pc # "idle"
      /\ UpdateBuild(b, run[w].version, to)
      /\ GoOn(w, s[2], run[w].version + 1, run[w].artifact)
      /\ UNCHANGED <<artifact, answer, cancel, started, stopped>>
  BY StageFacts DEF Advance
<1>2. to \in BuildStates \ {"NONE", "QUEUED"} /\ to # "SUCCEEDED"
  BY StageFacts
<1>3. /\ b \in Build
      /\ build[b].state = Held[s[1]]
      /\ Moves(b)
      /\ build' \in [Build -> Row]
      /\ build'[b].state = to
      /\ build'[b].version = run[w].version + 1
  <2>1. /\ b \in Build
        /\ build[b].state = Held[run[w].pc]
        /\ Moves(b)
        /\ build' \in [Build -> Row]
        /\ build'[b] = [state |-> to, identity |-> build[b].identity,
                        attempt |-> build[b].attempt,
                        version |-> run[w].version + 1,
                        selected |-> build[b].selected \/ to = "BUILDING"]
    BY <1>1, <1>2, RunMoves
  <2> QED
    BY <1>1, <2>1
<1>4. RowsStep
  BY <1>3 DEF RowsStep
<1>5. TypeOK'
  <2>1. artifact' \in [Build -> [state : ArtifactStates, version : Nat]]
        /\ started' \in [Build -> Nat]
    BY <1>1 DEF IInv, TypeOK
  <2> QED
    BY <1>1, <1>3, <2>1, StageFacts, RunTypes
<1>6. /\ run'[w] = [pc |-> s[2], build |-> b, version |-> run[w].version + 1,
                    artifact |-> run[w].artifact]
      /\ \A v \in Runner : v # w => run'[v] = run[v]
  BY <1>1 DEF GoOn, IInv, TypeOK
<1>7. RunHolds(w)'
  <2>1. /\ run'[w].pc = s[2]
        /\ run'[w].build = b
        /\ run'[w].version = run[w].version + 1
        /\ run'[w].version \in Nat
    BY <1>6 DEF IInv, TypeOK
  <2> QED
    BY <1>2, <1>3, <2>1 DEF RunHolds
<1>8. ASSUME s[1] = "loaded"
      PROVE  ActiveRun(w)' /\ build[run'[w].build].state = "QUEUED"
  <2>1. s[2] = "fetching" /\ build[b].state = "QUEUED"
    BY <1>3, <1>8, StageFacts DEF Held
  <2>2. started[b] = 0 /\ artifact[b].state = "NONE"
    BY <1>3, <2>1 DEF IInv, QueuedIsUntouched
  <2>3. ActiveRun(w)'
    BY <1>1, <1>2, <1>3, <1>6, <2>1, <2>2 DEF ActiveRun, ArtifactAt
  <2> QED
    BY <1>6, <2>1, <2>3
<1>9. ASSUME s[1] # "loaded"
      PROVE  ActiveRun(w)' /\ Active(w) /\ run'[w].build = b
  <2>1. Active(w) /\ ActiveRun(w)
    BY <1>1, <1>9 DEF Active, IInv, ActiveRuns
  <2>2. run[w].pc = s[1] /\ started[b] = started'[b]
    BY <1>1
  <2>5. s[2] \in {"fetching", "detecting", "building"} => started'[b] = 0
    BY <1>1, <1>9, <2>1, StageFacts DEF ActiveRun
  <2>6. ActiveRun(w)'
    BY <1>1, <1>2, <1>3, <1>6, <1>9, <2>1, <2>5 DEF ActiveRun, ArtifactAt, Stages
  <2> QED
    BY <1>6, <2>1, <2>6
<1>10. TrustedIffSucceeded' /\ BackendOnceAndStopped'
  <2>1. /\ to \notin {"SUCCEEDED", "CANCELED"}
        /\ build[b].state # "SUCCEEDED"
        /\ \A a \in Build : a # b => build'[a] = build[a]
    BY <1>3, StageFacts DEF Moves, Terminal
  <2> QED
    BY <1>1, <1>3, <2>1 DEF IInv, TrustedIffSucceeded, BackendOnceAndStopped
<1> QED
  BY <1>1, <1>4, <1>5, <1>6, <1>7, <1>8, <1>9, <1>10, RunStepKeeps

(* The call ends with its build.                                            *)
LEMMA EndsKeep ==
  ASSUME IInv, NEW w \in Runner, NEW state \in {"FAILED", "SUCCEEDED"},
         run[w].pc # "idle", state = "SUCCEEDED" => run[w].pc # "loaded",
         UpdateBuild(run[w].build, run[w].version, state),
         run' = [run EXCEPT ![w] = IdleRun],
         UNCHANGED <<answer, cancel, stopped>>,
         artifact' \in [Build -> [state : ArtifactStates, version : Nat]],
         started' \in [Build -> Nat],
         \A b \in Build : (started'[b] # started[b] \/ artifact'[b] # artifact[b])
                             => Active(w) /\ b = run[w].build,
         started'[run[w].build] <= 1,
         artifact'[run[w].build].state = "RELEASABLE" <=> state = "SUCCEEDED"
  PROVE  IInv'
<1> DEFINE b == run[w].build
<1>1. state \in BuildStates \ {"NONE", "QUEUED"}
  BY DEF BuildStates, Terminal, Unsuccessful
<1>2. /\ b \in Build
      /\ Moves(b)
      /\ build' \in [Build -> Row]
      /\ build'[b].state = state
  <2>1. /\ b \in Build
        /\ Moves(b)
        /\ build' \in [Build -> Row]
        /\ build'[b] = [state |-> state, identity |-> build[b].identity,
                        attempt |-> build[b].attempt,
                        version |-> run[w].version + 1,
                        selected |-> build[b].selected \/ state = "BUILDING"]
    BY <1>1, RunMoves
  <2> QED
    BY <2>1
<1>3. RowsStep
  BY <1>2 DEF RowsStep
<1>4. TypeOK'
  BY <1>2, RunTypes
<1>5. /\ run'[w] = IdleRun
      /\ \A v \in Runner : v # w => run'[v] = run[v]
  BY DEF IInv, TypeOK
<1>6. RunHolds(w)' /\ ActiveRun(w)' /\ ~Active(w)'
  BY <1>5 DEF RunHolds, ActiveRun, Active, IdleRun
<1>7. \A a \in Build : a # b => /\ build'[a] = build[a]
                              /\ artifact'[a] = artifact[a]
                              /\ started'[a] = started[a]
  BY <1>2 DEF Moves
<1>8. TrustedIffSucceeded' /\ BackendOnceAndStopped'
  <2>1. artifact'[b].state = "RELEASABLE" <=> build'[b].state = "SUCCEEDED"
    BY <1>2
  <2>2. started'[b] <= 1 /\ build'[b].state # "CANCELED"
    BY <1>2
  <2>3. TrustedIffSucceeded'
    BY <1>7, <2>1 DEF IInv, TrustedIffSucceeded
  <2>4. BackendOnceAndStopped'
    BY <1>7, <2>2 DEF IInv, BackendOnceAndStopped
  <2> QED
    BY <2>3, <2>4
<1> QED
  BY <1>3, <1>4, <1>5, <1>6, <1>8, RunStepKeeps

LEMMA FailKeeps ==
  ASSUME IInv, NEW w \in Runner, FailBuild(w) \/ BackendFails(w)
  PROVE  IInv'
<1> DEFINE b == run[w].build
<1>1. /\ run[w].pc # "idle" /\ Active(w)
      /\ UpdateBuild(b, run[w].version, "FAILED")
      /\ run' = [run EXCEPT ![w] = IdleRun]
      /\ UNCHANGED <<answer, cancel, stopped, artifact>>
  BY DEF FailBuild, BackendFails, MayFail, Active
<1>2. b \in Build /\ artifact[b].state # "RELEASABLE" /\ started[b] <= 1
  <2>1. b \in Build /\ build[b].state = Held[run[w].pc] /\ run[w].pc \in DOMAIN Held
    BY <1>1 DEF UpdateBuild, BuildMatches, IInv, RunsHold, RunHolds, TypeOK
  <2>2. build[b].state # "SUCCEEDED"
    BY <2>1 DEF Held
  <2> QED
    BY <2>1, <2>2 DEF IInv, TrustedIffSucceeded, BackendOnceAndStopped
<1>3. artifact' \in [Build -> [state : ArtifactStates, version : Nat]]
  BY <1>1 DEF IInv, TypeOK
<1>4. CASE FailBuild(w)
  <2>1. started' = started
    BY <1>4 DEF FailBuild
  <2>2. started' \in [Build -> Nat]
    BY <2>1 DEF IInv, TypeOK
  <2> QED
    BY <1>1, <1>2, <1>3, <2>1, <2>2, EndsKeep
<1>5. CASE BackendFails(w)
  <2>1. started' = [started EXCEPT ![b] = @ + 1] /\ run[w].pc = "building"
    BY <1>5 DEF BackendFails
  <2>2. started[b] = 0
    BY <1>1, <2>1 DEF IInv, ActiveRuns, ActiveRun
  <2>3. /\ started' \in [Build -> Nat]
        /\ started'[b] <= 1
        /\ \A c \in Build : c # b => started'[c] = started[c]
    BY <1>2, <2>1, <2>2 DEF IInv, TypeOK
  <2> QED
    BY <1>1, <1>2, <1>3, <2>3, EndsKeep
<1> QED
  BY <1>4, <1>5

LEMMA CompleteKeeps ==
  ASSUME IInv, NEW w \in Runner, CompleteBuild(w)
  PROVE  IInv'
<1> DEFINE b == run[w].build
           u == run[w].artifact + 2
<1>1. /\ run[w].pc = "signing" /\ run[w].pc # "idle" /\ Active(w)
      /\ UpdateBuild(b, run[w].version, "SUCCEEDED")
      /\ run' = [run EXCEPT ![w] = IdleRun]
      /\ UNCHANGED <<answer, cancel, stopped, started>>
      /\ artifact' = [artifact EXCEPT ![b] = [state |-> "RELEASABLE", version |-> u]]
  BY DEF CompleteBuild, UpdateArtifact, Active
<1>2. b \in Build /\ u \in Nat /\ started[b] <= 1
  BY <1>1 DEF IInv, TypeOK, RunsHold, RunHolds, BackendOnceAndStopped
<1>3. /\ artifact' \in [Build -> [state : ArtifactStates, version : Nat]]
      /\ artifact'[b].state = "RELEASABLE"
      /\ \A c \in Build : c # b => artifact'[c] = artifact[c]
      /\ started' \in [Build -> Nat]
  BY <1>1, <1>2 DEF IInv, TypeOK, ArtifactStates
<1> QED
  BY <1>1, <1>2, <1>3, EndsKeep

-----------------------------------------------------------------------------
(* Steps of the other calls.                                                *)

LEMMA OtherStepKeeps ==
  ASSUME IInv, RowsStep, TypeOK', UNCHANGED <<artifact, run, started>>,
         \A k \in Key : answer'[k] # answer[k] => build'[answer'[k]].state # "NONE",
         CancelsHold', TrustedIffSucceeded', BackendOnceAndStopped'
  PROVE  IInv'
<1>1. RunsHold'
  BY OtherRuns DEF RunsHold
<1>2. ActiveRuns'
  BY OtherActiveRuns DEF ActiveRuns
<1>3. OneActiveRun'
  BY DEF IInv, OneActiveRun, Active
<1>4. QueuedIsUntouched'
  <2>1. ASSUME NEW b \in Build, build'[b].state \in {"NONE", "QUEUED"}
        PROVE  build[b].state \in {"NONE", "QUEUED"}
    BY <2>1, RowsRemain
  <2> QED
    BY <2>1 DEF IInv, QueuedIsUntouched
<1> QED
  BY <1>1, <1>2, <1>3, <1>4, RowsKeepIdentities, AttemptsStillFollow DEF IInv

LEMMA InsertKeeps ==
  ASSUME IInv, NEW k \in Key, NEW b \in Build, NEW i \in Identity, NEW n \in Nat,
         InsertBuild(b, i, n), answer' = [answer EXCEPT ![k] = b],
         UNCHANGED <<artifact, run, cancel, started, stopped>>
  PROVE  IInv'
<1>1. RowsStep
  BY DEF RowsStep
<1>2. /\ build' \in [Build -> Row]
      /\ build'[b] = [state |-> "QUEUED", identity |-> i, attempt |-> n,
                      selected |-> FALSE, version |-> 1]
      /\ \A a \in Build : a # b => build'[a] = build[a]
  BY InsertedRows DEF IInv
<1>3. build'[b].state = "QUEUED" /\ build[b].state = "NONE"
  BY <1>2 DEF InsertBuild
<1>4. TypeOK'
  BY <1>2 DEF IInv, TypeOK, Row
<1>5. CancelsHold'
  BY <1>1, OtherCancels DEF CancelsHold
<1>6. TrustedIffSucceeded' /\ BackendOnceAndStopped'
  BY <1>2, <1>3 DEF IInv, TrustedIffSucceeded, BackendOnceAndStopped
<1>7. \A j \in Key : answer'[j] # answer[j] => build'[answer'[j]].state # "NONE"
  BY <1>3 DEF IInv, TypeOK
<1> QED
  BY <1>1, <1>4, <1>5, <1>6, <1>7, OtherStepKeeps

LEMMA RequestsKeep ==
  ASSUME IInv, NEW k \in Key, RequestExisting(k) \/ RequestBuild(k) \/ RetryBuild(k)
  PROVE  IInv'
<1>1. CASE RequestExisting(k)
  <2>1. PICK b \in Attempts(Command[k].identity) :
          IsLatest(b) /\ answer' = [answer EXCEPT ![k] = b]
    BY <1>1 DEF RequestExisting
  <2>2. b \in Build /\ build[b].state # "NONE"
    BY <2>1 DEF IsLatest, Attempts
  <2>3. UNCHANGED <<build, artifact, run, cancel, started, stopped>>
    BY <1>1 DEF RequestExisting
  <2>4. RowsStep
    BY <2>3 DEF RowsStep
  <2>5. TypeOK'
    BY <2>1, <2>2, <2>3 DEF IInv, TypeOK
  <2>6. \A j \in Key : answer'[j] # answer[j] => build'[answer'[j]].state # "NONE"
    BY <2>1, <2>2, <2>3 DEF IInv, TypeOK
  <2>7. CancelsHold' /\ TrustedIffSucceeded' /\ BackendOnceAndStopped'
    BY <2>3 DEF IInv, CancelsHold, CancelHolds, TrustedIffSucceeded,
                BackendOnceAndStopped
  <2> QED
    BY <2>3, <2>4, <2>5, <2>6, <2>7, OtherStepKeeps
<1>2. CASE RequestBuild(k)
  <2>1. Command[k].identity \in Identity
    BY <1>2, CommandAssumption DEF RequestBuild, Requests, Retries
  <2> QED
    BY <1>2, <2>1, InsertKeeps DEF RequestBuild
<1>3. CASE RetryBuild(k)
  <2> DEFINE original == answer[Command[k].of]
  <2>1. Command[k].of \in Key
    BY <1>3, CommandAssumption DEF RetryBuild, Requests, Retries
  <2>2. original \in Build /\ build[original].state # "NONE"
    BY <1>3, <2>1 DEF RetryBuild, IInv, TypeOK, RowsHaveIdentities
  <2>3. /\ build[original].identity \in Identity
        /\ build[original].attempt + 1 \in Nat
    BY <2>2 DEF IInv, TypeOK, RowsHaveIdentities
  <2> QED
    BY <1>3, <2>3, InsertKeeps DEF RetryBuild
<1> QED
  BY <1>1, <1>2, <1>3

LEMMA CancelsKeep ==
  ASSUME IInv, NEW c \in Canceller, CancelStep(c)
  PROVE  IInv'
<1>1. UNCHANGED <<artifact, answer, run, started>> /\ stopped \subseteq stopped'
  BY DEF CancelStep, LoadCancel, CancelBackend, CancelBuild, StopCancel
<1>2. RowsStep
  BY NextMovesRows DEF Next
<1>3. \A k \in Key : answer'[k] # answer[k] => build'[answer'[k]].state # "NONE"
  BY <1>1
<1>4. \A d \in Canceller : d # c => cancel'[d] = cancel[d]
  BY DEF CancelStep, LoadCancel, CancelBackend, CancelBuild, StopCancel, IInv,
         TypeOK
<1>5. ASSUME CancelHolds(c)'
      PROVE  CancelsHold'
  BY <1>1, <1>2, <1>4, <1>5, OtherCancels DEF CancelsHold
<1>6. IdleCancel \in [pc : {"idle", "loaded", "confirmed"},
                     build : Build \cup {None}, version : Nat]
  BY DEF IdleCancel
<1>7. CASE \E b \in Build : LoadCancel(c, b)
  <2>1. PICK b \in Build : LoadCancel(c, b)
    BY <1>7
  <2>2. /\ UNCHANGED <<build, stopped>>
        /\ build[b].state \notin Terminal \cup {"NONE"}
        /\ build[b].version \in Nat
        /\ cancel'[c] = [pc |-> IF build[b].selected THEN "loaded" ELSE "confirmed",
                         build |-> b, version |-> build[b].version]
    BY <2>1 DEF LoadCancel, IInv, TypeOK
  <2>3. TypeOK'
    BY <1>1, <2>1, <2>2 DEF LoadCancel, IInv, TypeOK
  <2>4. CancelHolds(c)'
    BY <2>2 DEF CancelHolds
  <2>5. TrustedIffSucceeded' /\ BackendOnceAndStopped'
    BY <1>1, <2>2 DEF IInv, TrustedIffSucceeded, BackendOnceAndStopped
  <2> QED
    BY <1>1, <1>2, <1>3, <1>5, <2>3, <2>4, <2>5, OtherStepKeeps
<1>8. CASE CancelBackend(c)
  <2>1. /\ build' = build
        /\ stopped' = stopped \cup {cancel[c].build}
        /\ cancel[c].pc = "loaded"
        /\ cancel'[c] = [pc |-> "confirmed", build |-> cancel[c].build,
                         version |-> cancel[c].version]
    BY <1>8 DEF CancelBackend, IInv, TypeOK
  <2>2. CancelHolds(c)
    BY DEF IInv, CancelsHold
  <2>3. TypeOK'
    BY <1>1, <1>8, <2>1, <2>2 DEF CancelBackend, CancelHolds, IInv, TypeOK
  <2>4. CancelHolds(c)'
    BY <2>1, <2>2 DEF CancelHolds
  <2>5. TrustedIffSucceeded' /\ BackendOnceAndStopped'
    BY <1>1, <2>1 DEF IInv, TrustedIffSucceeded, BackendOnceAndStopped
  <2> QED
    BY <1>1, <1>2, <1>3, <1>5, <2>3, <2>4, <2>5, OtherStepKeeps
<1>9. CASE CancelBuild(c)
  <2> DEFINE b == cancel[c].build
  <2>1. /\ b \in Build
        /\ Moves(b)
        /\ build' \in [Build -> Row]
        /\ build'[b].state = "CANCELED"
        /\ build'[b].selected => b \in stopped
    BY <1>9, CancelMoves DEF CancelBuild
  <2>2. cancel'[c] = IdleCancel /\ stopped' = stopped
    BY <1>9 DEF CancelBuild, IInv, TypeOK
  <2>3. TypeOK'
    BY <1>1, <1>6, <1>9, <2>1, <2>2 DEF CancelBuild, IInv, TypeOK, Row
  <2>4. CancelHolds(c)'
    BY <2>2 DEF CancelHolds, IdleCancel
  <2>5. TrustedIffSucceeded' /\ BackendOnceAndStopped'
    <3>1. /\ build[b].state # "SUCCEEDED"
          /\ \A a \in Build : a # b => build'[a] = build[a]
      BY <2>1 DEF Moves, Terminal
    <3> QED
      BY <1>1, <2>1, <2>2, <3>1 DEF IInv, TrustedIffSucceeded, BackendOnceAndStopped
  <2> QED
    BY <1>1, <1>2, <1>3, <1>5, <2>3, <2>4, <2>5, OtherStepKeeps
<1>10. CASE StopCancel(c)
  <2>1. UNCHANGED <<build, stopped>> /\ cancel'[c] = IdleCancel
    BY <1>10 DEF StopCancel, IInv, TypeOK
  <2>2. TypeOK'
    BY <1>1, <1>6, <1>10, <2>1 DEF StopCancel, IInv, TypeOK
  <2>3. CancelHolds(c)'
    BY <2>1 DEF CancelHolds, IdleCancel
  <2>4. TrustedIffSucceeded' /\ BackendOnceAndStopped'
    BY <1>1, <2>1 DEF IInv, TrustedIffSucceeded, BackendOnceAndStopped
  <2> QED
    BY <1>1, <1>2, <1>3, <1>5, <2>2, <2>3, <2>4, OtherStepKeeps
<1> QED
  BY <1>7, <1>8, <1>9, <1>10 DEF CancelStep

LEMMA RunsKeep ==
  ASSUME IInv, NEW w \in Runner, RunStep(w)
  PROVE  IInv'
<1>1. ASSUME NEW passed \in BOOLEAN, ApplyScan(w, passed)
      PROVE  IInv'
  <2>1. CASE passed
    BY <1>1, <2>1, UpdateArtifactKeeps DEF ApplyScan
  <2>2. CASE ~passed
    BY <1>1, <2>2, UpdateArtifactKeeps DEF ApplyScan
  <2> QED
    BY <2>1, <2>2
<1>2. AttachSBOM(w) => IInv'
  BY UpdateArtifactKeeps DEF AttachSBOM
<1> QED
  BY <1>1, <1>2, LoadKeeps, AdvanceKeeps, ExecuteKeeps, InsertArtifactKeeps,
     CompleteKeeps, FailKeeps, StopKeeps DEF RunStep

-----------------------------------------------------------------------------
(* The theorems.                                                            *)

(* The inductive invariant: held copies are old or current, and one call    *)
(* goes on with a build.                                                    *)
THEOREM PipelineInvariance == Spec => []IInv
<1>1. Init => IInv
  <2> SUFFICES ASSUME Init
               PROVE  IInv
    OBVIOUS
  <2>1. \A i \in Identity : Attempts(i) = {}
    BY NoneAssumption DEF Init, NoBuild, Attempts
  <2>2. TypeOK
    BY DEF Init, TypeOK, NoBuild, NoArtifact, IdleRun, IdleCancel, BuildStates,
           ArtifactStates
  <2>3. RunsHold /\ ActiveRuns /\ OneActiveRun /\ CancelsHold
    BY DEF Init, RunsHold, RunHolds, ActiveRuns, ActiveRun, OneActiveRun, Active,
           CancelsHold, CancelHolds, IdleRun, IdleCancel
  <2>4. QueuedIsUntouched /\ RowsHaveIdentities /\ AttemptsFollow
    BY <2>1 DEF Init, NoBuild, NoArtifact, QueuedIsUntouched, RowsHaveIdentities,
                AttemptsFollow
  <2>5. TrustedIffSucceeded /\ BackendOnceAndStopped
    BY DEF Init, NoBuild, NoArtifact, TrustedIffSucceeded, BackendOnceAndStopped
  <2> QED
    BY <2>2, <2>3, <2>4, <2>5 DEF IInv
<1>2. IInv /\ [Next]_vars => IInv'
  <2> SUFFICES ASSUME IInv, [Next]_vars
               PROVE  IInv'
    OBVIOUS
  <2>1. CASE Next
    BY <2>1, RequestsKeep, RunsKeep, CancelsKeep DEF Next
  <2>2. CASE UNCHANGED vars
    BY <2>2 DEF vars, IInv, TypeOK, RunsHold, RunHolds, ActiveRuns, ActiveRun,
                ArtifactAt, OneActiveRun, Active, CancelsHold, CancelHolds,
                QueuedIsUntouched, RowsHaveIdentities, AttemptsFollow, Attempts,
                IsLatest, TrustedIffSucceeded, BackendOnceAndStopped
  <2> QED
    BY <2>1, <2>2
<1> QED
  BY <1>1, <1>2, PTL DEF Spec

(* The type invariant.                                                      *)
THEOREM PipelineTypes == Spec => []TypeOK
<1>1. IInv => TypeOK
  BY DEF IInv
<1> QED
  BY <1>1, PipelineInvariance, PTL

(* Whatever fails, stops or is cancelled half way, an artifact is trusted   *)
(* exactly when its build succeeded.                                        *)
THEOREM TrustHolds == Spec => []TrustedIffSucceeded
<1>1. IInv => TrustedIffSucceeded
  BY DEF IInv
<1> QED
  BY <1>1, PipelineInvariance, PTL

(* Any number of concurrent calls start the back end of a build once, and   *)
(* no build is cancelled behind a back end that still works.                *)
THEOREM BackendHolds == Spec => []BackendOnceAndStopped
<1>1. IInv => BackendOnceAndStopped
  BY DEF IInv
<1> QED
  BY <1>1, PipelineInvariance, PTL

(* No call, whatever copy it holds, changes an ended build or a decided     *)
(* artifact.                                                                *)
THEOREM EndedStays == Spec => EndedIsFinal
<1>1. IInv /\ [Next]_vars =>
        [\A b \in Build :
           /\ build[b].state \in Terminal => build'[b] = build[b]
           /\ artifact[b].state \in {"RELEASABLE", "REJECTED"} =>
                artifact'[b] = artifact[b]]_vars
  <2> SUFFICES ASSUME IInv, Next, NEW b \in Build
               PROVE  /\ build[b].state \in Terminal => build'[b] = build[b]
                      /\ artifact[b].state \in {"RELEASABLE", "REJECTED"} =>
                           artifact'[b] = artifact[b]
    OBVIOUS
  <2>1. ASSUME build[b].state \in Terminal
        PROVE  build'[b] = build[b]
    <3>1. RowsStep
      BY NextMovesRows
    <3>2. \A a \in Build : Moves(a) => build'[b] = build[b]
      BY <2>1 DEF Moves
    <3>3. ASSUME NEW a \in Build, NEW i \in Identity, NEW n \in Nat,
                 InsertBuild(a, i, n)
          PROVE  build'[b] = build[b]
      <4>1. a # b
        BY <2>1, <3>3 DEF InsertBuild, Terminal, Unsuccessful
      <4> QED
        BY <3>3, <4>1, InsertedRows DEF IInv
    <3> QED
      BY <3>1, <3>2, <3>3 DEF RowsStep
  <2>2. ASSUME artifact[b].state \in {"RELEASABLE", "REJECTED"}
        PROVE  artifact'[b] = artifact[b]
    <3>1. ASSUME NEW w \in Runner,
                 run[w].pc \in {"exporting", "quarantined", "scanning", "signing"},
                 artifact' = [artifact EXCEPT ![run[w].build] = artifact'[run[w].build]]
          PROVE  artifact'[b] = artifact[b]
      <4>1. artifact[run[w].build].state \notin {"RELEASABLE", "REJECTED"}
        <5>1. Active(w) /\ ActiveRun(w)
          BY <3>1 DEF Active, IInv, ActiveRuns
        <5>2. ArtifactAt(run[w].build, run[w].pc, run[w].artifact)
          BY <5>1 DEF ActiveRun
        <5>3. artifact[run[w].build].state \in {"NONE", "QUARANTINED", "SCANNED"}
          BY <3>1, <5>2 DEF ArtifactAt
        <5> QED
          BY <5>3
      <4> QED
        BY <2>2, <3>1, <4>1 DEF IInv, TypeOK
    <3>2. ASSUME NEW w \in Runner, RunStep(w)
          PROVE  artifact'[b] = artifact[b]
      <4>1. run[w].pc # "idle" => run[w].build \in Build
        BY DEF IInv, RunsHold, RunHolds
      <4>2. InsertArtifact(w) => artifact'[b] = artifact[b]
        BY <3>1, <4>1 DEF InsertArtifact, IInv, TypeOK
      <4>3. AttachSBOM(w) => artifact'[b] = artifact[b]
        BY <3>1, <4>1 DEF AttachSBOM, UpdateArtifact, IInv, TypeOK
      <4>4. \A passed \in BOOLEAN : ApplyScan(w, passed) => artifact'[b] = artifact[b]
        BY <3>1, <4>1 DEF ApplyScan, UpdateArtifact, IInv, TypeOK
      <4>5. CompleteBuild(w) => artifact'[b] = artifact[b]
        BY <3>1, <4>1 DEF CompleteBuild, UpdateArtifact, IInv, TypeOK
      <4> QED
        BY <3>2, <4>2, <4>3, <4>4, <4>5
        DEF RunStep, LoadBuild, Advance, ExecuteBackend, BackendFails, FailBuild,
            StopRun
    <3>3. ASSUME NEW c \in Canceller, CancelStep(c)
          PROVE  artifact' = artifact
      BY <3>3 DEF CancelStep, LoadCancel, CancelBackend, CancelBuild, StopCancel
    <3>4. ASSUME NEW k \in Key,
                 RequestExisting(k) \/ RequestBuild(k) \/ RetryBuild(k)
          PROVE  artifact' = artifact
      BY <3>4 DEF RequestExisting, RequestBuild, RetryBuild
    <3> QED
      BY <3>2, <3>3, <3>4 DEF Next
  <2> QED
    BY <2>1, <2>2
<1> QED
  BY <1>1, PipelineInvariance, PTL DEF Spec, EndedIsFinal

-----------------------------------------------------------------------------
(* The refinement.                                                          *)

(* The latest attempt at an identity is the one with the highest number.    *)
LEMMA LatestIs ==
  ASSUME IInv, NEW i \in Identity, NEW b \in Attempts(i), IsLatest(b)
  PROVE  Latest(i) = b
<1>1. Latest(i) \in Attempts(i) /\ IsLatest(Latest(i))
  BY DEF Latest
<1>2. /\ b \in Build /\ build[b].identity = i
      /\ Latest(i) \in Build /\ build[Latest(i)].identity = i
  BY <1>1 DEF Attempts
<1>3. /\ build[b].attempt <= build[Latest(i)].attempt
      /\ build[Latest(i)].attempt <= build[b].attempt
  BY <1>1, <1>2 DEF IsLatest
<1>4. build[b].attempt = build[Latest(i)].attempt
  <2>1. build[b].attempt \in Nat /\ build[Latest(i)].attempt \in Nat
    BY <1>2 DEF IInv, TypeOK
  <2> QED
    BY <1>3, <2>1
<1> QED
  BY <1>1, <1>2, <1>4 DEF IInv, AttemptsFollow, IsLatest

LEMMA LatestExists ==
  ASSUME IInv, NEW i \in Identity, Attempts(i) # {}
  PROVE  /\ Latest(i) \in Build
         /\ build[Latest(i)].identity = i
         /\ IsLatest(Latest(i))
<1>1. Latest(i) \in Attempts(i) /\ IsLatest(Latest(i))
  BY DEF Latest, IInv, AttemptsFollow
<1> QED
  BY <1>1 DEF Attempts

LEMMA SameRowsSameLedger ==
  ASSUME build' = build
  PROVE  /\ AttemptsMade' = AttemptsMade
         /\ LatestStage' = LatestStage
         /\ answer' = answer => Named' = Named
BY DEF AttemptsMade, LatestStage, Named, Attempts, Latest, IsLatest, Stage

LEMMA SameNames ==
  ASSUME IInv, RowsStep, answer' = answer
  PROVE  Named' = Named
<1>1. ASSUME NEW k \in Key, answer[k] # None
      PROVE  /\ build'[answer[k]].identity = build[answer[k]].identity
             /\ build'[answer[k]].attempt = build[answer[k]].attempt
  BY <1>1, RowsRemain DEF IInv, TypeOK, RowsHaveIdentities
<1> QED
  BY <1>1 DEF Named

(* Only a running build is released.                                        *)
LEMMA MovesChangeStage ==
  ASSUME NEW b \in Build, Moves(b)
  PROVE  /\ Stage(b) \in {"queued", "running"}
         /\ Stage(b)' \in {"running", "released", "over"}
         /\ Stage(b)' = "released" => Stage(b) = "running"
<1>1. /\ build[b].state \notin Terminal \cup {"NONE"}
      /\ build'[b].state \notin {"NONE", "QUEUED"}
      /\ build'[b].state = "SUCCEEDED" => build[b].state # "QUEUED"
  BY DEF Moves
<1>2. Stage(b) = IF build[b].state = "QUEUED" THEN "queued" ELSE "running"
  BY <1>1 DEF Stage, Terminal, Unsuccessful
<1>3. Stage(b)' = IF build'[b].state = "SUCCEEDED" THEN "released"
                  ELSE IF build'[b].state \in Unsuccessful THEN "over" ELSE "running"
  BY <1>1 DEF Stage, Unsuccessful
<1> QED
  BY <1>1, <1>2, <1>3

(* A build that moves on is the latest attempt of its identity and stays it.*)
LEMMA MovesAreLatest ==
  ASSUME IInv, IInv', NEW b \in Build, Moves(b)
  PROVE  /\ build[b].identity \in Identity
         /\ AttemptsMade' = AttemptsMade
         /\ LatestStage[build[b].identity] = Stage(b)
         /\ LatestStage' = [LatestStage EXCEPT ![build[b].identity] = Stage(b)']
<1> DEFINE i == build[b].identity
<1>1. i \in Identity /\ IsLatest(b) /\ b \in Attempts(i)
  BY DEF Moves, Terminal, IInv, TypeOK, RowsHaveIdentities, AttemptsFollow, Attempts
<1>2. \A a \in Build : /\ build'[a].identity = build[a].identity
                       /\ build'[a].attempt = build[a].attempt
                       /\ build'[a].state = "NONE" <=> build[a].state = "NONE"
  BY DEF Moves
<1>3. \A j \in Identity : Attempts(j)' = Attempts(j)
  BY <1>2 DEF Attempts
<1>4. \A a \in Build : IsLatest(a)' <=> IsLatest(a)
  BY <1>2 DEF IsLatest, Attempts
<1>5. ASSUME NEW j \in Identity, Attempts(j) # {}
      PROVE  /\ Latest(j) \in Build
             /\ Latest(j)' = Latest(j)
             /\ j # i => Latest(j) # b
  <2>1. /\ Latest(j) \in Build /\ build[Latest(j)].identity = j
        /\ IsLatest(Latest(j)) /\ Latest(j) \in Attempts(j)
    BY <1>5, LatestExists DEF Attempts
  <2> DEFINE l == Latest(j)
  <2>2. \A a \in Attempts(j) : IsLatest(a)' <=> a = l
    <3>1. \A a \in Attempts(j) : IsLatest(a) <=> a = l
      BY <2>1, LatestIs
    <3> QED
      BY <1>4, <3>1 DEF Attempts
  <2>3. Latest(j)' \in Attempts(j)' /\ IsLatest(Latest(j))'
    <3>1. Attempts(j)' # {}
      BY <1>3, <1>5
    <3>2. (Latest(j) \in Attempts(j) /\ IsLatest(Latest(j)))'
      BY <3>1 DEF Latest, IInv, AttemptsFollow
    <3> QED
      BY <3>2
  <2> QED
    BY <1>3, <2>1, <2>2, <2>3
<1>6. AttemptsMade' = AttemptsMade
  BY <1>2, <1>3, <1>5 DEF AttemptsMade
<1>7. Latest(i) = b
  BY <1>1, LatestIs
<1>8. LatestStage[i] = Stage(b)
  BY <1>1, <1>7 DEF LatestStage
<1>9. LatestStage' = [LatestStage EXCEPT ![i] = Stage(b)']
  <2>1. \A j \in Identity : j # i => LatestStage'[j] = LatestStage[j]
    BY <1>3, <1>5 DEF LatestStage, Stage, Moves
  <2>2. LatestStage'[i] = Stage(b)'
    BY <1>1, <1>3, <1>5, <1>7 DEF LatestStage
  <2> QED
    BY <1>1, <2>1, <2>2 DEF LatestStage
<1> QED
  BY <1>1, <1>6, <1>8, <1>9

(* A new attempt is the latest of its identity.                             *)
LEMMA InsertsAreAttempts ==
  ASSUME IInv, IInv', NEW b \in Build, NEW i \in Identity, NEW n \in Nat,
         InsertBuild(b, i, n)
  PROVE  /\ n = AttemptsMade[i] + 1
         /\ LatestStage[i] \in {"none", "over"}
         /\ AttemptsMade' = [AttemptsMade EXCEPT ![i] = n]
         /\ LatestStage' = [LatestStage EXCEPT ![i] = "queued"]
<1>1. /\ build'[b].state = "QUEUED"
      /\ build'[b].identity = i
      /\ build'[b].attempt = n
      /\ \A a \in Build : a # b => build'[a] = build[a]
  <2>1. /\ build'[b] = [state |-> "QUEUED", identity |-> i, attempt |-> n,
                        selected |-> FALSE, version |-> 1]
        /\ \A a \in Build : a # b => build'[a] = build[a]
    BY InsertedRows DEF IInv
  <2> QED
    BY <2>1
<1>2. build[b].identity = None /\ None \notin Identity
  BY NoneAssumption DEF InsertBuild, IInv, RowsHaveIdentities
<1>3. n = AttemptsMade[i] + 1 /\ LatestStage[i] \in {"none", "over"}
  <2>1. CASE Attempts(i) = {}
    BY <2>1 DEF InsertBuild, AttemptsMade, LatestStage
  <2>2. CASE Attempts(i) # {}
    <3>1. /\ Latest(i) \in Attempts(i)
          /\ IsLatest(Latest(i))
      BY <2>2, LatestExists DEF Attempts
    <3>2. /\ n = build[Latest(i)].attempt + 1
          /\ build[Latest(i)].state \in Unsuccessful
      BY <2>2, <3>1 DEF InsertBuild
    <3>3. Stage(Latest(i)) = "over"
      BY <3>2 DEF Stage, Unsuccessful
    <3> QED
      BY <2>2, <3>2, <3>3 DEF AttemptsMade, LatestStage
  <2> QED
    BY <2>1, <2>2
<1>4. b \in Attempts(i)' /\ Attempts(i)' # {}
  BY <1>1 DEF Attempts
<1>5. Latest(i)' = b
  <2>1. IsLatest(b)'
    BY <1>1 DEF IInv, AttemptsFollow, Unsuccessful
  <2>2. (Latest(i) \in Attempts(i) /\ IsLatest(Latest(i)))'
    BY <1>4, <2>1 DEF Latest
  <2> DEFINE l == Latest(i)'
  <2>3. l \in Build /\ build'[l].identity = i /\ build'[l].state # "NONE"
        /\ build'[b].attempt <= build'[l].attempt
        /\ build'[l].attempt <= build'[b].attempt
    BY <1>1, <1>4, <2>1, <2>2 DEF IsLatest, Attempts
  <2>4. build'[l].attempt \in Nat /\ build'[b].attempt \in Nat
    BY <2>3 DEF IInv, TypeOK
  <2>5. build'[l].attempt = build'[b].attempt
    BY <2>3, <2>4
  <2> QED
    BY <1>1, <2>3, <2>5 DEF IInv, AttemptsFollow
<1>6. AttemptsMade'[i] = n /\ LatestStage'[i] = "queued"
  <2>1. Stage(b)' = "queued"
    BY <1>1 DEF Stage, Unsuccessful
  <2> QED
    BY <1>1, <1>4, <1>5, <2>1 DEF AttemptsMade, LatestStage
<1>7. ASSUME NEW j \in Identity, j # i
      PROVE  AttemptsMade'[j] = AttemptsMade[j] /\ LatestStage'[j] = LatestStage[j]
  <2>1. Attempts(j)' = Attempts(j) /\ b \notin Attempts(j)
    BY <1>1, <1>2, <1>7 DEF Attempts
  <2>2. CASE Attempts(j) = {}
    BY <2>1, <2>2 DEF AttemptsMade, LatestStage
  <2>3. CASE Attempts(j) # {}
    <3>1. \A a \in Attempts(j) : IsLatest(a)' <=> IsLatest(a)
      BY <1>1, <2>1 DEF IsLatest, Attempts
    <3>2. Latest(j) \in Attempts(j) /\ IsLatest(Latest(j))
      BY <2>3, LatestExists DEF Attempts
    <3>3. \A a \in Attempts(j) : IsLatest(a) => a = Latest(j)
      BY LatestIs
    <3>4. (Latest(j) \in Attempts(j) /\ IsLatest(Latest(j)))'
      BY <2>1, <2>3 DEF Latest, IInv, AttemptsFollow
    <3>5. Latest(j)' = Latest(j)
      BY <2>1, <3>1, <3>2, <3>3, <3>4
    <3>6. build'[Latest(j)] = build[Latest(j)]
      BY <1>1, <2>1, <3>2 DEF Attempts
    <3>7. Stage(Latest(j))' = Stage(Latest(j))
      BY <3>5, <3>6 DEF Stage
    <3> QED
      BY <2>1, <2>3, <3>5, <3>6, <3>7 DEF AttemptsMade, LatestStage
  <2> QED
    BY <2>2, <2>3
<1> QED
  BY <1>3, <1>6, <1>7 DEF AttemptsMade, LatestStage

(* An insertion that answers a key is an attempt of the ledger.             *)
LEMMA AnsweredInsert ==
  ASSUME IInv, IInv', NEW k \in Key, answer[k] = None,
         NEW b \in Build, NEW i \in Identity, NEW n \in Nat,
         InsertBuild(b, i, n), answer' = [answer EXCEPT ![k] = b]
  PROVE  Ledger!Attempt(k, i)
<1>1. /\ n = AttemptsMade[i] + 1
      /\ LatestStage[i] \in {"none", "over"}
      /\ AttemptsMade' = [AttemptsMade EXCEPT ![i] = n]
      /\ LatestStage' = [LatestStage EXCEPT ![i] = "queued"]
  BY InsertsAreAttempts
<1>2. /\ build'[b].identity = i /\ build'[b].attempt = n
      /\ \A a \in Build : a # b => build'[a] = build[a]
  <2>1. /\ build'[b] = [state |-> "QUEUED", identity |-> i, attempt |-> n,
                        selected |-> FALSE, version |-> 1]
        /\ \A a \in Build : a # b => build'[a] = build[a]
    BY InsertedRows DEF IInv
  <2> QED
    BY <2>1
<1>3. b # None /\ answer'[k] = b
  BY NoneAssumption DEF IInv, TypeOK
<1>4. Named[k] = <<>>
  BY DEF Named
<1>5. Named' = [Named EXCEPT ![k] = <<i, n>>]
  <2>1. Named'[k] = <<i, n>>
    BY <1>2, <1>3 DEF Named
  <2>2. ASSUME NEW j \in Key, j # k
        PROVE  Named'[j] = Named[j]
    <3>1. answer'[j] = answer[j]
      BY <2>2 DEF IInv, TypeOK
    <3>2. answer[j] # None => answer[j] \in Build /\ answer[j] # b
      BY DEF InsertBuild, IInv, TypeOK, RowsHaveIdentities
    <3> QED
      BY <1>2, <3>1, <3>2 DEF Named
  <2>3. Named = [j \in Key |-> Named[j]] /\ Named' = [j \in Key |-> Named'[j]]
    BY DEF Named
  <2> HIDE DEF Named
  <2>4. [Named EXCEPT ![k] = <<i, n>>] = [j \in Key |-> IF j = k THEN <<i, n>> ELSE Named[j]]
    BY <2>3
  <2>5. \A j \in Key : Named'[j] = IF j = k THEN <<i, n>> ELSE Named[j]
    BY <2>1, <2>2
  <2>6. [j \in Key |-> Named'[j]] = [j \in Key |-> IF j = k THEN <<i, n>> ELSE Named[j]]
    BY <2>5
  <2> QED
    BY <2>3, <2>4, <2>6
<1> QED
  BY <1>1, <1>4, <1>5 DEF Ledger!Attempt, Ledger!Tell

(* The build service implements the ledger of attempts.                     *)
THEOREM PipelineRefinement == Spec => ImplementsLedger
<1> USE DEF Ledger!ledger
<1>1. Init => Ledger!Init
  <2> SUFFICES ASSUME Init
               PROVE  Ledger!Init
    OBVIOUS
  <2>1. \A i \in Identity : Attempts(i) = {}
    BY NoneAssumption DEF Init, NoBuild, Attempts
  <2> QED
    BY <2>1 DEF Init, Ledger!Init, AttemptsMade, LatestStage, Named
<1>2. IInv /\ IInv' /\ [Next]_vars => [Ledger!Next]_(Ledger!ledger)
  <2> SUFFICES ASSUME IInv, IInv', [Next]_vars
               PROVE  Ledger!Next \/ UNCHANGED <<AttemptsMade, LatestStage, Named>>
    OBVIOUS
  <2>1. CASE (\E w \in Runner : RunStep(w)) \/ (\E c \in Canceller : CancelStep(c))
    <3>1. answer' = answer
      BY <2>1 DEF RunStep, LoadBuild, Advance, ExecuteBackend, BackendFails,
                  InsertArtifact, AttachSBOM, ApplyScan, CompleteBuild, FailBuild,
                  StopRun, CancelStep, LoadCancel, CancelBackend, CancelBuild,
                  StopCancel
    <3>2. CASE build' = build
      BY <3>1, <3>2, SameRowsSameLedger
    <3>3. CASE \E b \in Build : Moves(b)
      <4>1. PICK b \in Build : Moves(b)
        BY <3>3
      <4> DEFINE i == build[b].identity
      <4>2. Named' = Named
        BY <3>1, <4>1, SameNames DEF RowsStep
      <4>3. /\ i \in Identity
            /\ AttemptsMade' = AttemptsMade
            /\ LatestStage[i] = Stage(b)
            /\ LatestStage' = [LatestStage EXCEPT ![i] = Stage(b)']
        BY <4>1, MovesAreLatest
      <4>4. /\ Stage(b) \in {"queued", "running"}
            /\ Stage(b)' \in {"running", "released", "over"}
            /\ Stage(b)' = "released" => Stage(b) = "running"
        BY <4>1, MovesChangeStage
      <4>5. CASE Stage(b) = Stage(b)'
        <5>1. LatestStage' = LatestStage
          BY <4>3, <4>5 DEF LatestStage
        <5> QED
          BY <4>2, <4>3, <5>1
      <4>6. CASE Stage(b) # Stage(b)'
        <5>1. Ledger!Start(i) \/ Ledger!Release(i) \/ Ledger!End(i)
          BY <4>2, <4>3, <4>4, <4>6
          DEF Ledger!Start, Ledger!Release, Ledger!End, Ledger!Move
        <5> QED
          BY <4>3, <5>1 DEF Ledger!Next
      <4> QED
        BY <4>5, <4>6
    <3> QED
      BY <2>1, <3>2, <3>3, CallsMoveRows
  <2>2. ASSUME NEW k \in Key, RequestExisting(k)
        PROVE  Ledger!Next
    <3> DEFINE i == Command[k].identity
    <3>1. PICK b \in Attempts(i) : IsLatest(b) /\ answer' = [answer EXCEPT ![k] = b]
      BY <2>2 DEF RequestExisting
    <3>2. /\ i \in Identity /\ answer[k] = None /\ build' = build
      BY <2>2, CommandAssumption DEF RequestExisting, Requests, Retries
    <3>3. b \in Build /\ build[b].identity = i /\ b # None
      BY NoneAssumption DEF Attempts
    <3>4. Latest(i) = b
      BY <3>1, <3>2, LatestIs
    <3>5. AttemptsMade[i] = build[b].attempt /\ LatestStage[i] # "none"
      BY <3>2, <3>4 DEF AttemptsMade, LatestStage, Stage
    <3>6. Named[k] = <<>> /\ Named' = [Named EXCEPT ![k] = <<i, build[b].attempt>>]
      BY <3>1, <3>2, <3>3 DEF Named, IInv, TypeOK
    <3>7. Ledger!Converge(k, i)
      BY <3>2, <3>5, <3>6, SameRowsSameLedger DEF Ledger!Converge, Ledger!Tell
    <3> QED
      BY <3>2, <3>7 DEF Ledger!Next
  <2>3. ASSUME NEW k \in Key, RequestBuild(k)
        PROVE  Ledger!Next
    <3>1. Command[k].identity \in Identity
      BY <2>3, CommandAssumption DEF RequestBuild, Requests, Retries
    <3> QED
      BY <2>3, <3>1, AnsweredInsert DEF RequestBuild, Ledger!Next
  <2>4. ASSUME NEW k \in Key, RetryBuild(k)
        PROVE  Ledger!Next
    <3> DEFINE original == answer[Command[k].of]
    <3>1. Command[k].of \in Key
      BY <2>4, CommandAssumption DEF RetryBuild, Requests, Retries
    <3>2. original \in Build /\ build[original].state # "NONE"
      BY <2>4, <3>1 DEF RetryBuild, IInv, TypeOK, RowsHaveIdentities
    <3>3. /\ build[original].identity \in Identity
          /\ build[original].attempt + 1 \in Nat
      BY <3>2 DEF IInv, TypeOK, RowsHaveIdentities
    <3> QED
      BY <2>4, <3>3, AnsweredInsert DEF RetryBuild, Ledger!Next
  <2>5. CASE UNCHANGED vars
    BY <2>5, SameRowsSameLedger DEF vars
  <2> QED
    BY <2>1, <2>2, <2>3, <2>4, <2>5 DEF Next
<1> QED
  BY <1>1, <1>2, PipelineInvariance, PTL DEF Spec, ImplementsLedger, Ledger!Spec
=============================================================================
