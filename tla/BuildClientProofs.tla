------------------------- MODULE BuildClientProofs -------------------------
(***************************************************************************)
(* Proofs about BuildClient for every set of release ids: the type        *)
(* invariant, and that the outcome the build command reports agrees with  *)
(* the rack's build record (OutcomeFaithful).                             *)
(***************************************************************************)
EXTENDS BuildClient, TLAPS

-----------------------------------------------------------------------------
(* Type correctness.                                                       *)

\* Every step keeps every variable in its type.
LEMMA TypeStep == TypeOK /\ [Next]_vars => TypeOK'
<1> SUFFICES ASSUME TypeOK, [Next]_vars PROVE TypeOK'
  OBVIOUS
<1> USE DEF TypeOK, Exit, Outcome, PC, BuildStatus
<1>1. CASE GetApp
  BY <1>1 DEF GetApp, executeBuild
<1>2. CASE GetSystem
  BY <1>2 DEF GetSystem
<1>3. CASE PackageIndex
  BY <1>3 DEF PackageIndex
<1>4. CASE PackageTarball
  BY <1>4 DEF PackageTarball
<1>5. CASE CreateBuildIndex \/ CreateBuildSourceProgress \/ CreateBuildUrl
           \/ CopyBuild
  BY <1>5 DEF CreateBuildIndex, CreateBuildSourceProgress, CreateBuildUrl,
              CopyBuild, Submitted, finishBuild, BuildStatus
<1>6. CASE StreamBuildLogs
  BY <1>6 DEF StreamBuildLogs
<1>7. CASE waitForBuild
  BY <1>7 DEF waitForBuild, AfterFinish
<1>8. CASE Sleep
  BY <1>8 DEF Sleep
<1>9. CASE PromoteRelease
  BY <1>9 DEF PromoteRelease
<1>10. CASE BuildStarts
  BY <1>10 DEF BuildStarts, BuildStatus
<1>11. CASE BuildEnds
  BY <1>11 DEF BuildEnds, BuildStatus, Terminal
<1>12. CASE LogsClose
  BY <1>12 DEF LogsClose
<1>13. CASE UNCHANGED vars
  BY <1>13 DEF vars
<1>14. QED
  BY <1>1, <1>2, <1>3, <1>4, <1>5, <1>6, <1>7, <1>8, <1>9, <1>10, <1>11,
     <1>12, <1>13 DEF Next, Client, Rack

\* Spec keeps every variable in its type.
THEOREM TypeCorrect == Spec => []TypeOK
<1>1. Init => TypeOK
  BY DEF Init, TypeOK, NoBuild, PC, Outcome
<1>2. QED
  BY <1>1, TypeStep, PTL DEF Spec

-----------------------------------------------------------------------------
(* OutcomeFaithful.  It is not inductive by itself: a CreateBuild* step    *)
(* resets the build record, and a PromoteRelease step copies `release`    *)
(* into `promoted`, so the invariant must also say that no build exists   *)
(* before the request is sent and that the release the CLI holds is the  *)
(* one of the completed build.  Terminal statuses never change on the    *)
(* rack, so the rack's steps cannot falsify it.                           *)

\* Control states before the build request is sent.
BeforeSubmit == {"getApp", "getSystem", "package", "submit", "copyBuild"}

IInv ==
    /\ TypeOK
    /\ pc \in BeforeSubmit =>
           /\ build = NoBuild /\ outcome = "none"
           /\ release = NoRelease /\ promoted = NoRelease
    /\ release # NoRelease =>
           build.status = "complete" /\ release = build.release
    /\ pc = "promote" =>
           build.status = "complete" /\ release = build.release
    /\ OutcomeFaithful

LEMMA InitIInv == Init => IInv
  BY DEF Init, IInv, TypeOK, NoBuild, PC, Outcome, BeforeSubmit, OutcomeFaithful

LEMMA NextIInv == IInv /\ [Next]_vars => IInv'
<1> SUFFICES ASSUME IInv, [Next]_vars PROVE IInv'
  OBVIOUS
<1>0. TypeOK'
  BY TypeStep DEF IInv
<1> USE ReleasesAssumption DEF IInv, BeforeSubmit, OutcomeFaithful, Exit
<1>1. CASE GetApp
  BY <1>0, <1>1 DEF GetApp, executeBuild
<1>2. CASE GetSystem
  BY <1>0, <1>2 DEF GetSystem
<1>3. CASE PackageIndex \/ PackageTarball
  BY <1>0, <1>3 DEF PackageIndex, PackageTarball
<1>4. CASE CreateBuildIndex \/ CreateBuildSourceProgress \/ CreateBuildUrl
           \/ CopyBuild
  <2>1. pc \in BeforeSubmit /\ Submitted
        /\ UNCHANGED <<release, promoted>>
    BY <1>4 DEF CreateBuildIndex, CreateBuildSourceProgress, CreateBuildUrl,
                CopyBuild
  <2>2. pc' \in {"stream", "done"} /\ outcome' \in {"submitError", "noBuildId", "none"}
    BY <2>1 DEF Submitted, finishBuild
  <2>3. QED
    BY <1>0, <2>1, <2>2 DEF TypeOK, NoBuild
<1>5. CASE StreamBuildLogs
  BY <1>0, <1>5 DEF StreamBuildLogs
<1>6. CASE waitForBuild
  BY <1>0, <1>6 DEF waitForBuild, AfterFinish, Terminal
<1>7. CASE Sleep
  BY <1>0, <1>7 DEF Sleep
<1>8. CASE PromoteRelease
  BY <1>0, <1>8 DEF PromoteRelease
<1>9. CASE BuildStarts
  BY <1>0, <1>9 DEF BuildStarts, NoBuild
<1>10. CASE BuildEnds
  BY <1>0, <1>10 DEF BuildEnds, NoBuild, TypeOK
<1>11. CASE LogsClose
  BY <1>0, <1>11 DEF LogsClose
<1>12. CASE UNCHANGED vars
  BY <1>0, <1>12 DEF vars
<1>13. QED
  BY <1>1, <1>2, <1>3, <1>4, <1>5, <1>6, <1>7, <1>8, <1>9, <1>10, <1>11,
     <1>12 DEF Next, Client, Rack

\* The outcome the build command reports always agrees with the rack's
\* build record (waitForBuild, cmdBuildsCopy).
THEOREM OutcomeFaithfulInvariant == Spec => []OutcomeFaithful
<1>1. IInv => OutcomeFaithful
  BY DEF IInv
<1>2. QED
  BY InitIInv, NextIInv, <1>1, PTL DEF Spec

-----------------------------------------------------------------------------
(* Refinement of BuildAbstract.  Besides IInv the mapping needs that the  *)
(* command's outcome is decided only when it exits, and that it promotes  *)
(* only on success: then every exit is the abstract Fail or Finish, the   *)
(* build request is Create, and every other step of the CLI is a stutter. *)

RInv ==
    /\ IInv
    /\ pc # "done" => outcome = "none"
    /\ promoted # NoRelease => outcome = "ok"

LEMMA InitRInv == Init => RInv
  BY InitIInv DEF Init, RInv

LEMMA NextRInv == RInv /\ [Next]_vars => RInv'
<1> SUFFICES ASSUME RInv, [Next]_vars PROVE RInv'
  OBVIOUS
<1>0. IInv'
  BY NextIInv DEF RInv
<1> USE DEF RInv, Exit
<1>1. CASE GetApp
  BY <1>0, <1>1 DEF GetApp, executeBuild
<1>2. CASE GetSystem \/ PackageIndex \/ PackageTarball
  BY <1>0, <1>2 DEF GetSystem, PackageIndex, PackageTarball
<1>3. CASE CreateBuildIndex \/ CreateBuildSourceProgress \/ CreateBuildUrl
           \/ CopyBuild
  BY <1>0, <1>3 DEF CreateBuildIndex, CreateBuildSourceProgress,
                    CreateBuildUrl, CopyBuild, Submitted, finishBuild
<1>4. CASE StreamBuildLogs \/ Sleep
  BY <1>0, <1>4 DEF StreamBuildLogs, Sleep
<1>5. CASE waitForBuild
  BY <1>0, <1>5 DEF waitForBuild, AfterFinish
<1>6. CASE PromoteRelease
  BY <1>0, <1>6, ReleasesAssumption DEF PromoteRelease, IInv, TypeOK
<1>7. CASE Rack
  BY <1>0, <1>7 DEF Rack, BuildStarts, BuildEnds, LogsClose
<1>8. CASE UNCHANGED vars
  BY <1>0, <1>8 DEF vars
<1>9. QED
  BY <1>1, <1>2, <1>3, <1>4, <1>5, <1>6, <1>7, <1>8 DEF Next, Client

\* The abstract variables are those of Abs.
absVars == <<build, ResultOf, IF outcome = "ok" THEN release ELSE NoRelease,
             promoted>>

LEMMA InitRefines == Init => Abs!Init
  BY DEF Init, Abs!Init, ResultOf, NoBuild, Abs!NoBuild

\* An exit with an error that is not a build status is the abstract Fail.
LEMMA ExitFails ==
    ASSUME RInv, pc # "done", NEW o \in Outcome \ {"none", "ok", "buildFailed", "buildTimedOut"},
           Exit(o), UNCHANGED <<build, promoted>>
    PROVE  Abs!Fail
  BY DEF RInv, Exit, Abs!Fail, ResultOf

LEMMA StepRefines == RInv /\ [Next]_vars => [Abs!Next]_absVars
<1> SUFFICES ASSUME RInv, [Next]_vars PROVE [Abs!Next]_absVars
  OBVIOUS
<1> USE DEF absVars, Outcome, ResultOf
<1>1. CASE GetApp
  BY <1>1, ExitFails DEF GetApp, executeBuild, RInv, ResultOf, Abs!Next
<1>2. CASE GetSystem \/ PackageIndex \/ PackageTarball \/ StreamBuildLogs
           \/ Sleep
  BY <1>2, ExitFails DEF GetSystem, PackageIndex, PackageTarball,
                         StreamBuildLogs, Sleep, RInv, ResultOf, Abs!Next
<1>3. CASE CreateBuildIndex \/ CreateBuildSourceProgress \/ CreateBuildUrl
           \/ CopyBuild
  <2>1. /\ pc \in BeforeSubmit /\ Submitted
        /\ UNCHANGED <<release, promoted>>
    BY <1>3 DEF CreateBuildIndex, CreateBuildSourceProgress, CreateBuildUrl,
                CopyBuild, BeforeSubmit
  <2>2. build = NoBuild /\ outcome = "none" /\ promoted = NoRelease
    BY <2>1 DEF RInv, IInv, BeforeSubmit
  <2>3. CASE Exit("submitError") /\ UNCHANGED build
    BY <2>1, <2>3, ExitFails DEF RInv, BeforeSubmit, Abs!Next
  <2>4. CASE /\ build' = [status |-> "created", release |-> NoRelease]
             /\ (Exit("submitError") \/ finishBuild)
    BY <2>1, <2>2, <2>4 DEF Abs!Next, Abs!Create, ResultOf, NoBuild,
                            finishBuild, Exit
  <2>5. QED
    BY <2>1, <2>3, <2>4 DEF Submitted
<1>4. CASE waitForBuild
  <2>1. pc = "poll" /\ outcome = "none" /\ promoted = NoRelease
        /\ UNCHANGED <<build, promoted>>
    BY <1>4 DEF waitForBuild, RInv
  <2>2. CASE Exit("pollError") /\ UNCHANGED release
    BY <2>1, <2>2, ExitFails DEF Abs!Next
  <2>3. CASE build.status = "complete" /\ release' = build.release
             /\ AfterFinish(build.release)
    BY <2>1, <2>3 DEF AfterFinish, Exit, Abs!Next, Abs!Finish, Abs!Terminal,
                      ResultOf
  <2>4. CASE build.status \in {"error", "failed"} /\ Exit("buildFailed")
             /\ UNCHANGED release
    BY <2>1, <2>4 DEF Exit, Abs!Next, Abs!Finish, Abs!Terminal, ResultOf
  <2>5. CASE build.status = "timeout" /\ Exit("buildTimedOut")
             /\ UNCHANGED release
    BY <2>1, <2>5 DEF Exit, Abs!Next, Abs!Finish, Abs!Terminal, ResultOf
  <2>6. CASE build.status \notin Terminal /\ pc' = "sleep"
             /\ UNCHANGED <<outcome, release>>
    BY <2>1, <2>6
  <2>7. QED
    BY <1>4, <2>2, <2>3, <2>4, <2>5, <2>6 DEF waitForBuild
<1>5. CASE PromoteRelease
  <2>1. /\ pc = "promote" /\ outcome = "none" /\ promoted = NoRelease
        /\ build.status = "complete" /\ release = build.release
        /\ UNCHANGED <<build, release>>
    BY <1>5 DEF PromoteRelease, RInv, IInv
  <2>2. CASE Exit("promoteError") /\ UNCHANGED promoted
    BY <2>1, <2>2, ExitFails DEF Abs!Next
  <2>3. CASE Exit("ok") /\ promoted' = release
    BY <2>1, <2>3 DEF Exit, Abs!Next, Abs!Finish, Abs!Terminal, ResultOf
  <2>4. QED
    BY <1>5, <2>2, <2>3 DEF PromoteRelease
<1>6. CASE BuildStarts
  BY <1>6 DEF BuildStarts, Abs!Next, Abs!Start
<1>7. CASE BuildEnds
  BY <1>7 DEF BuildEnds, Abs!Next, Abs!End, Abs!Terminal, Terminal
<1>8. CASE LogsClose \/ UNCHANGED vars
  BY <1>8 DEF LogsClose, vars
<1>9. QED
  BY <1>1, <1>2, <1>3, <1>4, <1>5, <1>6, <1>7, <1>8 DEF Next, Client, Rack

\* cmdBuildsCreate/cmdBuildsCopy implement BuildAbstract: every behaviour
\* of the command and the rack is one that spec.md 4.4 allows.
THEOREM Refinement == Spec => BuildAbstractSpec
<1>1. QED
  BY InitRInv, NextRInv, InitRefines, StepRefines, PTL
     DEF Spec, BuildAbstractSpec, Abs!Spec, Abs!vars, absVars

=============================================================================
