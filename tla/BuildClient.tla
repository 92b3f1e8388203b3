---------------------------- MODULE BuildClient ----------------------------
(***************************************************************************)
(* One invocation of `convox build` (cmdBuildsCreate) or `convox builds    *)
(* copy` (cmdBuildsCopy) of src/cmd/convox/builds.go, and the rack's      *)
(* record of the build that invocation starts.                             *)
(*                                                                         *)
(* The CLI is a single goroutine that calls the rack one request at a     *)
(* time: GetApp, GetSystem, the packaging of the source, one of the       *)
(* CreateBuild* calls (or CopyBuild), StreamBuildLogs, then GetBuild in a *)
(* loop with a one second sleep (waitForBuild), and for a copy with       *)
(* --promote, PromoteRelease.  The rack runs the build concurrently:      *)
(* created -> building -> complete | error | failed | timeout, and closes *)
(* the log stream on its own.  The rack side is not in src/ and is       *)
(* modelled from spec.md section 4.4.                                      *)
(*                                                                         *)
(* Data is abstracted: a release is a model value, the source tree and    *)
(* its packaging are a step that succeeds or fails, the rack version      *)
(* comparison is the boolean rackIncremental.                             *)
(***************************************************************************)
EXTENDS Naturals

CONSTANTS
    Releases,   \* release ids the rack may assign to a completed build
    NoRelease   \* the empty release id ""

ASSUME ReleasesAssumption == NoRelease \notin Releases

\* Statuses of a build record; the last four are terminal.
BuildStatus == {"created", "building", "complete", "error", "failed", "timeout"}
Terminal == {"complete", "error", "failed", "timeout"}

\* Status values GetApp may report for the application.
AppStatus == {"creating", "running", "updating", "deleting"}

\* Command line of the invocation: which command, whether the source is an
\* http(s) URL, --incremental and (for copy) --promote.
Args == [cmd : {"create", "copy"}, url : BOOLEAN, incremental : BOOLEAN,
         promote : BOOLEAN]

\* The error (or success) the command ends with.
Outcome == {"none", "ok", "getAppError", "appCreating", "appNotBuildable",
            "systemError", "packageError", "submitError", "noBuildId",
            "logError", "pollError", "buildFailed", "buildTimedOut",
            "promoteError"}

PC == {"getApp", "getSystem", "package", "submit", "copyBuild", "stream",
       "poll", "sleep", "promote", "done"}

VARIABLES
    args,            \* command line (fixed for the invocation)
    appStatus,       \* status of the app on the rack (fixed)
    rackIncremental, \* system.Version >= "20160226234213" (fixed)
    pc,              \* where the CLI goroutine is
    strategy,        \* source strategy chosen by executeBuild
    outcome,         \* what the command reports when it exits
    release,         \* release id returned by finishBuild
    promoted,        \* release the CLI successfully asked the rack to promote
    polled,          \* status the last GetBuild of waitForBuild returned
    build,           \* the rack's build record
    logs             \* the rack's log stream for the build

vars == <<args, appStatus, rackIncremental, pc, strategy, outcome, release,
          promoted, polled, build, logs>>

NoBuild == [status |-> "none", release |-> NoRelease]

TypeOK ==
    /\ args \in Args
    /\ appStatus \in AppStatus
    /\ rackIncremental \in BOOLEAN
    /\ pc \in PC
    /\ strategy \in {"none", "url", "index", "tarball", "copy"}
    /\ outcome \in Outcome
    /\ release \in Releases \cup {NoRelease}
    /\ promoted \in Releases \cup {NoRelease}
    /\ polled \in BuildStatus \cup {"none"}
    /\ build \in [status : BuildStatus \cup {"none"},
                  release : Releases \cup {NoRelease}]
    /\ logs \in {"none", "open", "closed"}

Init ==
    /\ args \in Args
    /\ appStatus \in AppStatus
    /\ rackIncremental \in BOOLEAN
    /\ pc = IF args.cmd = "create" THEN "getApp" ELSE "copyBuild"
    /\ strategy = IF args.cmd = "create" THEN "none" ELSE "copy"
    /\ outcome = "none"
    /\ release = NoRelease
    /\ promoted = NoRelease
    /\ polled = "none"
    /\ build = NoBuild
    /\ logs = "none"

\* The command exits with error (or success) o.
Exit(o) == pc' = "done" /\ outcome' = o

-----------------------------------------------------------------------------
(* The CLI goroutine.                                                      *)

\* executeBuild: an http(s) source is built from its URL, otherwise
\* --incremental asks for the rack version first, else a tarball is sent.
executeBuild ==
    \/ /\ args.url
       /\ strategy' = "url" /\ pc' = "submit"
    \/ /\ ~args.url /\ args.incremental
       /\ pc' = "getSystem" /\ UNCHANGED strategy
    \/ /\ ~args.url /\ ~args.incremental
       /\ strategy' = "tarball" /\ pc' = "package"

\* cmdBuildsCreate: GetApp, then refuse an app that is creating or is not
\* running or updating.
GetApp ==
    /\ pc = "getApp"
    /\ \/ Exit("getAppError") /\ UNCHANGED strategy
       \/ appStatus = "creating" /\ Exit("appCreating") /\ UNCHANGED strategy
       \/ /\ appStatus \notin {"creating", "running", "updating"}
          /\ Exit("appNotBuildable") /\ UNCHANGED strategy
       \/ /\ appStatus \in {"running", "updating"}
          /\ executeBuild /\ UNCHANGED outcome
    /\ UNCHANGED <<args, appStatus, rackIncremental, release, promoted, polled, build, logs>>

\* executeBuildDirIncremental: a rack older than the incremental protocol
\* silently falls back to executeBuildDir.
GetSystem ==
    /\ pc = "getSystem"
    /\ \/ Exit("systemError") /\ UNCHANGED strategy
       \/ rackIncremental /\ strategy' = "index" /\ pc' = "package" /\ UNCHANGED outcome
       \/ ~rackIncremental /\ strategy' = "tarball" /\ pc' = "package" /\ UNCHANGED outcome
    /\ UNCHANGED <<args, appStatus, rackIncremental, release, promoted, polled, build, logs>>

\* executeBuildDirIncremental: createIndex and uploadIndex, either of
\* which may fail (unreadable file, IndexMissing/IndexUpdate error).
PackageIndex ==
    /\ pc = "package" /\ strategy = "index"
    /\ \/ Exit("packageError")
       \/ pc' = "submit" /\ UNCHANGED outcome
    /\ UNCHANGED <<args, appStatus, rackIncremental, strategy, release, promoted, polled, build, logs>>

\* executeBuildDir: warnUnignoredEnv and createTarball, which may fail.
PackageTarball ==
    /\ pc = "package" /\ strategy = "tarball"
    /\ \/ Exit("packageError")
       \/ pc' = "submit" /\ UNCHANGED outcome
    /\ UNCHANGED <<args, appStatus, rackIncremental, strategy, release, promoted, polled, build, logs>>

\* finishBuild: a build with an empty id ends the command, otherwise the
\* CLI opens the pipe and calls StreamBuildLogs.
finishBuild ==
    \/ Exit("noBuildId")
    \/ pc' = "stream" /\ UNCHANGED outcome

\* A CreateBuild* or CopyBuild request: the rack rejects it, or creates
\* the build (status created, log stream open) and the response is lost
\* (the build runs orphaned) or carries the build, handed to finishBuild.
Submitted ==
    \/ Exit("submitError") /\ UNCHANGED <<build, logs>>
    \/ /\ build' = [status |-> "created", release |-> NoRelease]
       /\ logs' = "open"
       /\ \/ Exit("submitError")
          \/ finishBuild

CreateBuildIndex ==
    /\ pc = "submit" /\ strategy = "index"
    /\ Submitted
    /\ UNCHANGED <<args, appStatus, rackIncremental, strategy, release, promoted, polled>>

CreateBuildSourceProgress ==
    /\ pc = "submit" /\ strategy = "tarball"
    /\ Submitted
    /\ UNCHANGED <<args, appStatus, rackIncremental, strategy, release, promoted, polled>>

CreateBuildUrl ==
    /\ pc = "submit" /\ strategy = "url"
    /\ Submitted
    /\ UNCHANGED <<args, appStatus, rackIncremental, strategy, release, promoted, polled>>

\* cmdBuildsCopy: CopyBuild starts a new build in the destination app.
CopyBuild ==
    /\ pc = "copyBuild"
    /\ Submitted
    /\ UNCHANGED <<args, appStatus, rackIncremental, strategy, release, promoted, polled>>

\* finishBuild: StreamBuildLogs blocks until the rack closes the stream;
\* an error of the stream is returned as the command's error.
StreamBuildLogs ==
    /\ pc = "stream"
    /\ \/ logs = "closed" /\ pc' = "poll" /\ UNCHANGED outcome
       \/ Exit("logError")
    /\ UNCHANGED <<args, appStatus, rackIncremental, strategy, release, promoted, polled, build, logs>>

\* What finishBuild's caller does with the release id r: cmdBuildsCopy
\* promotes a non-empty id when --promote is given; otherwise the command
\* succeeds.
AfterFinish(r) ==
    IF args.cmd = "copy" /\ args.promote /\ r # NoRelease
    THEN pc' = "promote" /\ UNCHANGED outcome
    ELSE Exit("ok")

\* Mutants of waitForBuild: "timeout" handled like "complete", and the
\* "timeout" case dropped from the switch.
waitForBuildTimeoutOk ==
    /\ pc = "poll"
    /\ \/ Exit("pollError") /\ UNCHANGED release
       \/ build.status \in {"complete", "timeout"} /\ release' = build.release
          /\ AfterFinish(build.release)
       \/ build.status \in {"error", "failed"} /\ Exit("buildFailed")
          /\ UNCHANGED release
       \/ build.status \notin Terminal /\ pc' = "sleep"
          /\ UNCHANGED <<outcome, release>>
    /\ polled' = build.status
    /\ UNCHANGED <<args, appStatus, rackIncremental, strategy, promoted, build, logs>>

waitForBuildNoTimeout ==
    /\ pc = "poll"
    /\ \/ Exit("pollError") /\ UNCHANGED release
       \/ build.status = "complete" /\ release' = build.release
          /\ AfterFinish(build.release)
       \/ build.status \in {"error", "failed"} /\ Exit("buildFailed")
          /\ UNCHANGED release
       \/ build.status \notin Terminal \ {"timeout"} /\ pc' = "sleep"
          /\ UNCHANGED <<outcome, release>>
    /\ polled' = build.status
    /\ UNCHANGED <<args, appStatus, rackIncremental, strategy, promoted, build, logs>>

\* waitForBuild: one GetBuild and the switch on its status; any status
\* that is not terminal goes on to the one second sleep.
waitForBuild ==
    /\ pc = "poll"
    /\ \/ Exit("pollError") /\ UNCHANGED release
       \/ build.status = "complete" /\ release' = build.release
          /\ AfterFinish(build.release)
       \/ build.status \in {"error", "failed"} /\ Exit("buildFailed")
          /\ UNCHANGED release
       \/ build.status = "timeout" /\ Exit("buildTimedOut") /\ UNCHANGED release
       \/ build.status \notin Terminal /\ pc' = "sleep"
          /\ UNCHANGED <<outcome, release>>
    /\ polled' = build.status
    /\ UNCHANGED <<args, appStatus, rackIncremental, strategy, promoted, build, logs>>

\* waitForBuild: time.Sleep(1 * time.Second) before the next GetBuild.
Sleep ==
    /\ pc = "sleep"
    /\ pc' = "poll"
    /\ UNCHANGED <<args, appStatus, rackIncremental, strategy, outcome, release,
                   promoted, polled, build, logs>>

\* cmdBuildsCopy --promote: PromoteRelease(destApp, releaseID).
PromoteRelease ==
    /\ pc = "promote"
    /\ \/ Exit("promoteError") /\ UNCHANGED promoted
       \/ Exit("ok") /\ promoted' = release
    /\ UNCHANGED <<args, appStatus, rackIncremental, strategy, release, polled, build, logs>>

-----------------------------------------------------------------------------
(* The rack (spec.md 4.4): the build advances on its own, the log stream  *)
(* is closed by the rack whenever it decides to.                           *)

BuildStarts ==
    /\ build.status = "created"
    /\ build' = [build EXCEPT !.status = "building"]
    /\ UNCHANGED <<args, appStatus, rackIncremental, pc, strategy, outcome,
                   release, promoted, polled, logs>>

BuildEnds ==
    /\ build.status = "building"
    /\ \/ \E r \in Releases : build' = [status |-> "complete", release |-> r]
       \/ \E s \in Terminal \ {"complete"} : build' = [build EXCEPT !.status = s]
    /\ UNCHANGED <<args, appStatus, rackIncremental, pc, strategy, outcome,
                   release, promoted, polled, logs>>

LogsClose ==
    /\ logs = "open"
    /\ logs' = "closed"
    /\ UNCHANGED <<args, appStatus, rackIncremental, pc, strategy, outcome,
                   release, promoted, polled, build>>

-----------------------------------------------------------------------------

Client ==
    \/ GetApp \/ GetSystem \/ PackageIndex \/ PackageTarball
    \/ CreateBuildIndex \/ CreateBuildSourceProgress \/ CreateBuildUrl
    \/ CopyBuild \/ StreamBuildLogs \/ waitForBuild \/ Sleep \/ PromoteRelease

Rack == BuildStarts \/ BuildEnds \/ LogsClose

Next == Client \/ Rack

\* The CLI goroutine keeps running as long as every rack request returns
\* (with a result or an error); the rack itself is given no fairness.
Spec == Init /\ [][Next]_vars /\ WF_vars(Client)

-----------------------------------------------------------------------------
(* Properties.                                                             *)

\* waitForBuild/cmdBuildsCopy: what the command reports agrees with the
\* rack's build record.  Success, the release it prints and the release it
\* promotes come from a completed build; "build failed" and "build timed
\* out" are reported only for a build the rack ended that way.
OutcomeFaithful ==
    /\ outcome = "ok" => build.status = "complete" /\ release = build.release
    /\ promoted # NoRelease =>
           build.status = "complete" /\ promoted = build.release
    /\ outcome = "buildFailed" => build.status \in {"error", "failed"}
    /\ outcome = "buildTimedOut" => build.status = "timeout"

\* finishBuild/waitForBuild: once the rack has ended the build and closed
\* its log stream, the command eventually exits.  (The polling loop has no
\* deadline of its own, so nothing stronger holds.)
ClientTerminates ==
    (build.status \in Terminal /\ logs = "closed") ~> (pc = "done")

\* spec.md 4.4 and 7: log streaming is best effort, a broken log
\* connection does not fail the build.  finishBuild returns the error of
\* StreamBuildLogs as the command's error.
LogStreamBestEffort == outcome # "logError"

-----------------------------------------------------------------------------
(* Refinement.  The command's result is read off the error it exits     *)
(* with; the release it returned is the one it holds once it succeeded.  *)

\* The abstract result of each outcome of the command.
ResultOf ==
    CASE outcome = "none"          -> "pending"
      [] outcome = "ok"            -> "ok"
      [] outcome = "buildFailed"   -> "failed"
      [] outcome = "buildTimedOut" -> "timedOut"
      [] OTHER                     -> "error"

Abs == INSTANCE BuildAbstract
           WITH result <- ResultOf,
                shown <- IF outcome = "ok" THEN release ELSE NoRelease

\* cmdBuildsCreate/cmdBuildsCopy implement what spec.md 4.4 promises of
\* a build command: one build is created, the rack alone moves it, and the
\* command decides its result once, a remote error or what the terminal
\* status calls for, returning and promoting only a completed build's
\* release.
BuildAbstractSpec == Abs!Spec

=============================================================================
