# Formal models of the rack build-and-release pipeline

This directory holds TLA+ models of the build and release code of this
repository, the TLC configurations that check them, and TLAPS proofs. The
code lives in two files:

- `src/cmd/convox/builds.go` is the CLI side: `convox build`, `convox builds copy`,
  incremental uploads and tarball packaging. A Makefile is appended after line 704.
- `src/unnamed/part_000` has two parts:
  - lines 1–290 are the provider's release store and promoter (`ReleaseList`,
    `ReleaseCreate`, `ReleasePromote`, `ReleaseCopy`, `releaseFormation`);
  - lines 290–633 are the `convox rack` commands.

`spec.md` describes the remote collaborators: the rack's build service and
content cache, DynamoDB, and CloudFormation. Those collaborators are not
under `src/`. They are modelled from the spec, and PROJECT.json marks their
definitions `spec_modelled`.

## 1. Inventory

### Components and how they interact

| Component (spec.md 2) | Code | State | Operations |
|---|---|---|---|
| BuildOrchestrator | `cmdBuildsCreate`, `cmdBuildsCopy`, `executeBuild*`, `finishBuild`, `waitForBuild` (builds.go 144–287, 437–525, 601–645) | CLI control point, chosen strategy, release id; on the rack: the build record and its log stream | GetApp, GetSystem, package, CreateBuild{Index,SourceProgress,Url} / CopyBuild, StreamBuildLogs, GetBuild loop with 1 s sleep, PromoteRelease |
| ContentIndex + IndexUploader | `createIndex`, `indexWalker`, `uploadIndex` (289–435) | the index (hash → name), the missing set; on the rack: the shared content cache | walk and hash, IndexMissing, read missing files and tar them under their hash, IndexUpdate |
| TarballPackager | `createTarball`, `warnUnignoredEnv` (527–599, 647–681) | the process's working directory (chdir / restore) | tar the whole tree minus .dockerignore |
| ReleaseStore | `ReleaseList`, `ReleaseCreate`, `ReleaseCopy` (part_000 24–139) | the app's releases table, the `app.created` index | query newest 5, PutItem keyed by ami, copy under a fresh id |
| ReleasePromoter | `ReleasePromote`, `releaseFormation` (75–109, 147–244) | the app's CloudFormation stack and its parameters | GetItem + template, AppShow, DescribeStacks, UpdateStack |
| build list/info/delete, `convox rack …` | builds.go 107–224, part_000 290–633 | none | one API call each, then output formatting |

The data flows as follows. The source tree is either indexed and uploaded
(incremental) or tarred. A build request then starts the remote build. The
CLI streams the logs, then polls until the build reaches a terminal status.
The build writes a release, and a promote points the app's stack at that
release. `builds copy --promote` runs the whole chain in one command.

### Behaviours that make it hard

- **The CLI and the rack run concurrently.** The rack advances the build
  (created → building → terminal) and closes the log stream independently of
  the CLI. The CLI meets both at arbitrary points.
- **Lost responses and failing calls.** Every rack call can fail. A
  CreateBuild response can be lost after the build was created.
- **The local tree is not stable.** Files can change or vanish between the
  walk that hashes them and the upload that re-reads them.
- **Other clients share the content cache.** They may fill it at any time.
- **Concurrent promotes of one app.** Each runs four remote calls.
  CloudFormation refuses an update while another is in progress, and an
  accepted update may roll back.
- **Error paths that the code ignores or mishandles:**
  - the error of `releaseFormation` is printed and dropped;
  - `a.Repository` is assigned before AppShow's error is checked;
  - the error of `url.Parse` is dropped;
  - the walk callback shadows its `err` parameter.

## 2. Plan

1. **BuildClient** (done): one build/copy invocation, with the rack's build
   record and log stream as a concurrent actor.
   - Safety: what the command reports agrees with the rack (OutcomeFaithful).
   - Liveness: the command exits once the rack is done (ClientTerminates).
   - Refinement: it implements the abstract build command `BuildAbstract`.
   - Violation: the log stream is not best effort.
   - TLAPS: type correctness, OutcomeFaithful and the refinement.
2. **IndexUpload** (done): the incremental protocol, the walk one file at a
   time, the shared cache, other uploaders and local edits.
   - Safety: cache integrity and soundness of the rebuilt tree.
   - Violations: the working-directory read, deduplication by hash, and
     the nil `info` panic of the walk.
   - TLAPS: type correctness, CacheIntegrity and BuildSourceSound.
3. **Tarball** (done): warnUnignoredEnv and createTarball.
   - Safety: no .env is sent silently; Dockerfile and .dockerignore are
     always sent and nothing else that is excluded.
   - Violation: the warning looks at the working directory.
   - TLAPS: type correctness, NoSilentLeak and BuildFilesShipped.
4. **Releases** (done): the release store and two concurrent promotes, with
   the stack as an actor.
   - Safety: the promoted release is always valid.
   - Violations: the list missing created releases, the duplicated Release
     parameter, and the panics.
   - TLAPS: type correctness and PromotedReleaseValid.
5. **Left for later:**
   - composing BuildClient with IndexUpload and Tarball, so that the
     abstract build command also says which files the rack built from.

## 3. Modules

### BuildClient.tla (BuildOrchestrator)

**State.**
- Fixed inputs: `args` (command and flags), `appStatus` and `rackIncremental`.
- The CLI goroutine's control point `pc` and the values it holds: `strategy`,
  `outcome`, `release`, `promoted`, and `polled`, the status returned by the
  last GetBuild.
- On the rack: `build` (`status`, `release`) and `logs` (`none`, `open` or
  `closed`).

**Actions.** One per rack call of the code, each with the code's error exits:
- `GetApp` (including executeBuild's choice of strategy);
- `GetSystem`, including the silent fallback to a tarball on old racks;
- `PackageIndex` and `PackageTarball`;
- `CreateBuildIndex`, `CreateBuildSourceProgress`, `CreateBuildUrl` and
  `CopyBuild`. They share `Submitted`, which covers a rejected request, a
  created build whose response is lost, and finishBuild's empty id check;
- `StreamBuildLogs`;
- `waitForBuild`, with the status switch;
- `Sleep`;
- `PromoteRelease`.

The rack's actions are `BuildStarts`, `BuildEnds` and `LogsClose`.

**Fairness.** `WF_vars(Client)`. The CLI is a single goroutine whose every
request returns, with a result or an error, and it never waits on anything
but the rack. The rack gets no fairness: the code has no deadline for the
build, so nothing may assume one.

### IndexUpload.tla (ContentIndex + IndexUploader)

**State.**
- `tree`, the build directory, and `cwdTree`, the process's working
  directory. The constant `SameDir` says whether they are the same directory.
- `snapshot`, the tree as `createIndex` walked it.
- `ignored`, the set of paths `.dockerignore` matches.
- `index` (hash → name) and `missing`.
- The rack's `cache` (hash → content).
- `built`, the tree the rack rebuilt.
- `pc` and `outcome`.

**Data abstraction.** Contents are model values, and sha256 is an injective
map `Hash`.

**The walk.** `CreateIndex` reads `.dockerignore` and takes the directory
listing (`names`); `indexWalker` is the filepath.Walk callback for the
file at position `walkPos` of the constant `WalkOrder`. For a name that
is listed but gone by the time Walk lstats it, `info` is nil and the
callback panics (`outcome = "panic"`); an ignored file is skipped; any
other file is read, or the read fails. Its hash entry is overwritten, so
with equal contents the last name in walk order wins. `WalkDone` ends the
walk.

**Actions.**
- `UploadIndex` reads `cwdTree[index[m]]` for every missing hash and aborts
  if a file is absent.
- `CreateBuildIndex` (rack, spec 4.2/4.4) rebuilds the tree from the index and
  the cache.
- `OtherUpload` is another client uploading correct content.
- `LocalEdit` is the user deleting or rewriting a file during the walk or
  before the upload read it. The constant `EditKinds` says which of the two
  edits is possible.

### Tarball.tla (TarballPackager)

**State.** `tree`, the files of the build directory (the three special
files `Dockerfile`, `.dockerignore`, `.env` and some other files);
`cwdFiles`, which of `.env` and `.dockerignore` the working directory has
(equal to the build directory's when the constant `SameDir` holds);
`lines` and `parsable`, the build directory's `.dockerignore`; `pc`,
`warned`, `archive` and `outcome`.

**Data abstraction.** An ignore line is a model value; `Matches[l]` is the
set of paths `fileutils.Matches` finds line `l` to match, and `EnvLine` is
the literal line `.env`, which matches `.env` only.

**Actions.** `warnUnignoredEnv` (stat in the working directory, read the
build directory's .dockerignore, warn unless a line is literally `.env`);
`createTarball` (read .dockerignore, force-include both build files if
the rules match either, tar the rest, or fail on any of its I/O calls).
`TarWithOptions` is the vendored docker archiver, modelled from its
documented filtering: an excluded file is left out unless it is named in
IncludeFiles.

### BuildAbstract.tla (what a build command promises)

Variables `build` (the rack's record), `result` (`pending`, `ok`,
`failed`, `timedOut`, `error`), `shown` and `promoted`. Actions: `Create`
(the rack creates the build, the command may or may not hear of it),
`Fail` (any remote error, at any time), `Finish` (the result the terminal
status calls for, with the release of a completed build, maybe promoted),
and the rack's `Start` and `End`. No CLI control flow at all.

BuildClient defines `Abs == INSTANCE BuildAbstract WITH result <- ResultOf,
shown <- IF outcome = "ok" THEN release ELSE NoRelease`: the abstract
result is read off the error the command exits with, and the release
counts as returned only once the command succeeded. `build` and
`promoted` map to themselves. The property `BuildAbstractSpec == Abs!Spec`
says that the command, with all its steps, is a behaviour of the abstract
command: every CLI step other than an exit, the build request or the
promote is a stutter.

### Releases.tla (ReleaseStore + ReleasePromoter)

**State.**
- `table`: id → record or `NoItem`. A record is abstracted to the attributes
  the code reads: `ami`, `created`, `app`, `manifest` and `createdAt`.
- `birth` and `clock`: history and time.
- `listed`: the last result of ReleaseList.
- `stack`: status, Release and its rollback target.
- `request`: the parameters' Release values of the last UpdateStack.
- Per concurrent promote request `w`: `wpc`, `wrel`, `wform` (a non-empty
  template was rendered) and `wlive` (the Release values read from the live
  stack).
- `panicked`.

**Actions.**
- `ReleaseList`, `ReleaseCreate` and `ReleaseCopy` are single table
  operations, so each is one atomic step. `ReleaseCreate` stores the
  release under its ami, replacing a release of the same image.
  `ReleaseCopy` stores the copy under a fresh id.
- `ReleasePromote` is four steps per worker: `releaseFormation`, `AppShow`,
  `DescribeStacks` and `UpdateStack`.
- `StackSettles` is CloudFormation completing or rolling back.

**Assumptions about the collaborators.** They follow spec.md 4.5, 4.6, 5 and
6:
- the `app.created` index holds the items that have both attributes, newest
  first;
- UpdateStack is refused while an update runs or when the template is empty,
  which is the case after `releaseFormation` failed.

This module has no fairness and no liveness property. Nothing in the code
waits for anything.

## 4. Runs

| Run | Config | Result | What it shows |
|---|---|---|---|
| build_client | MC_BuildClient.cfg | pass | Over every command line, app status and rack behaviour, see the three properties below. |
| build_logs | MC_BuildClient_logs.cfg | violation | A broken log stream fails the command (finishBuild, builds.go:609), against spec.md's "best effort". |
| index_upload | MC_IndexUpload.cfg | pass | With deletions during the upload and other uploaders, see the properties below. |
| index_cwd | MC_IndexUpload_cwd.cfg | violation | Run from another directory, foreign bytes land in the cache under the build file's hash (builds.go:395). |
| index_dup | MC_IndexUpload_dup.cfg | violation | Byte-identical files collapse into one entry, and the rack's tree lacks a file (builds.go:344). |
| releases | MC_Releases.cfg | pass | See PromotedReleaseValid below. |
| releases_list | MC_Releases_ListShowsNewest.cfg | violation | A created release is missing from ReleaseList (it has no `created`/`app`). |
| releases_param | MC_Releases_SingleReleaseParameter.cfg | violation | A second promote sends Release twice. |
| releases_panic | MC_Releases_PromoteNeverPanics.cfg | violation | Nil dereference after a failed AppShow, or for a release without a manifest. |
| index_panic | MC_IndexUpload_panic.cfg | violation | A file deleted between the listing and its lstat makes the walk callback panic on a nil `info` (builds.go:317). |
| tarball | MC_Tarball.cfg | pass | `NoSilentLeak` and `BuildFilesShipped`, below. |
| tarball_cwd | MC_Tarball_cwd.cfg | violation | `convox build DIR` from another directory sends DIR/.env without the warning (builds.go:652). |

What the passing runs check:

- **build_client**
  - `OutcomeFaithful`: the command reports success, a release or a promoted
    release only for a completed build that produced that release, and
    reports "failed" or "timed out" only for a build the rack ended that way.
  - `ClientTerminates`: once the rack has ended the build and closed the log
    stream, the command exits.
  - `BuildAbstractSpec`: one build is created, the result is decided once
    and never changes, it is a remote error or what the terminal status
    calls for, and a release is returned or promoted only for a completed
    build, whatever the interleaving with the rack.
- **index_upload**
  - `CacheIntegrity`: the shared cache never holds content under a hash
    other than its own.
  - `BuildSourceSound`: every file the rack builds is a non-ignored file of
    the walked tree, with its content.
- **releases**
  - `PromotedReleaseValid`: with creates, copies, lists and two concurrent
    promotes, the stack's Release and its rollback target always name a
    stored release that has an image.
- **tarball**
  - `NoSilentLeak`: a `.env` in the archive was warned about.
  - `BuildFilesShipped`: the archive holds Dockerfile and .dockerignore
    whenever the directory has them, and no other file the rules exclude.

**Mutants.** Every property of a passing run has a mutant of the code that
TLC catches:
- `waitForBuild` treating timeout as complete, or dropping the timeout case;
- `UploadIndex` skipping the read-error check, or sending one file's bytes
  for all entries;
- `indexWalker` ignoring `.dockerignore`;
- `waitForBuild` treating timeout as complete also breaks the refinement;
- `warnUnignoredEnv` silenced by any .dockerignore line;
- `IncludeFiles` keeping the build files only when Dockerfile is matched;
- `DescribeStacks` reading an absent Release as empty;
- `releaseFormation` without the "invalid ami" check.

**Bounds.**

BuildClient:
- The rack may assign one of 2 release ids (`r1`, `r2`), so a wrong release
  is distinguishable.
- Every combination of `args`, `appStatus` and `rackIncremental` is an
  initial state.
- The polling loop is unbounded. TLC closes it because the state space is
  finite.

IndexUpload:
- 3 paths, 2 contents and 2 hashes. This is the smallest instance with two
  files of equal content next to a third file.
- Every tree, every ignore set and every correct starting cache is an
  initial state.

Tarball:
- one other file next to the three special files, and five ignore lines
  (`.env`, a glob matching `.env`, `Dockerfile`, `.dockerignore`, one
  matching everything): every directory content and every subset of
  lines, parsable or not, is an initial state.

Releases:
- one ami, two release ids (one written by a build) and two concurrent
  promote workers (under worker symmetry, which is sound because no property
  names a worker);
- `PageSize` 1, which is the limit-5 query scaled to the number of releases;
- `MaxTime` 4; the clock starts at 2, after the build's release, so two
  writes (creates or copies) happen;
- about 2.6 M states.

Each bound is the smallest that lets every interleaving of interest happen:
- a concurrent promote during an update;
- a copy of a release a create wrote (the copy has no created-at, so
  the list misses it);
- a create overwriting a release of the same image.

## 5. Proofs

Four modules hold TLAPS proofs; every obligation is checked. Every
safety invariant of a passing run is proved.

**BuildClientProofs.tla**, for every set `Releases` with `NoRelease ∉
Releases` (`ReleasesAssumption`):

- **`TypeCorrect`: `Spec => []TypeOK`**, from the lemma `TypeStep` (one
  case per action).
- **`OutcomeFaithfulInvariant`: `Spec => []OutcomeFaithful`.** It is not
  inductive by itself: a CreateBuild/CopyBuild step replaces the build
  record, and PromoteRelease copies `release` into `promoted`. `IInv` adds
  that before the request (`pc ∈ BeforeSubmit`) there is no build, outcome
  or release; that a non-empty `release` is the release of a completed
  build; and that at `pc = "promote"` the build is complete with that
  release. The rack never changes a terminal status, which is what lets
  its steps keep `IInv`.
- **`Refinement`: `Spec => BuildAbstractSpec`.** `RInv` adds to `IInv` that
  the outcome is decided only at exit (`pc # "done" => outcome = "none"`)
  and that a promote implies success. Then `InitRefines` maps the initial
  state, and `StepRefines` shows every step is an abstract step or a
  stutter of `absVars`: the build request is `Create` (there is no build
  yet, by `IInv`), an exit with a non-build error is `Fail` (lemma
  `ExitFails`), `waitForBuild`'s terminal cases and the successful
  `PromoteRelease` are `Finish`, the rack's steps are `Start` and `End`.

**IndexUploadProofs.tla**, for every walk order, content set and injective
hash (`IndexAssumptions`):

- **`TypeCorrect`**, through `TInv`, which adds that every missing hash has
  an index entry (uploadIndex reads `index[m]`).
- **`CacheIntegrityInvariant`**, under `SameDir` and `EditKinds ⊆
  {"delete"}`. The run index_cwd shows it fails from another directory. A
  file rewritten after the walk is also sent under its old hash; spec.md 3
  calls concurrent edits an accepted risk, so neither the passing run nor
  the proof lets a file be rewritten (`EditKinds = {"delete"}`).
  `IInv` says every index entry names a file whose walked bytes
  (`snapshot`) have that hash, and a walked file still holds those bytes or
  is gone; a gone file aborts the upload, so uploaded bytes match their
  hash.
- **`BuildSourceSoundInvariant`**, under the same two assumptions (with
  another directory or rewritten files the cache, and so the rebuilt
  tree, can hold foreign bytes). `SInv` adds to `IInv` that every index
  entry names a path `.dockerignore` does not exclude
  (`IndexNotIgnored`: indexWalker enters a file only after the ignore
  check) and that the outcome is decided only at the last step
  (`Decided`), so the walk's snapshot and the index are frozen once the
  rack has built. The step that matters is CreateBuildIndex (lemma
  `RebuiltFromWalk`): the rack takes a name's bytes from the cache under
  the name's hash; the cache is correct and the walk read bytes with that
  hash, so, sha256 being taken as collision-free (`HashInjective`), they
  are the walked bytes.

**TarballProofs.tla**, for every set of files and ignore lines
(`TarballAssumptions`):

- **`TypeCorrect`**.
- **`NoSilentLeakInvariant`**, under `SameDir`. The warning is decided
  before the archive is made, so `IInv` carries it: the working
  directory's special files are the build directory's; before the tar
  step there is no outcome; and once past warnUnignoredEnv without an
  error, a `.env` that no line excludes was warned about. The line `.env`
  matches exactly `.env`, and `.env` is never force-included
  (`EnvNotIncluded`).
- **`BuildFilesShippedInvariant`**, from any working directory. The tree
  and the ignore lines never change, so `ShipInv` says a successful
  archive is exactly `TarWithOptions(IncludeFiles)`; the property follows
  because IncludeFiles forces in the two build files whenever a rule
  matches either, and nothing else (`IncludedBuildFiles`).

**ReleasesProofs.tla**, for every set of images, generated ids, workers
and initial releases (`ReleasesAssumptions`; the proofs also use that
there are finitely many initial releases, that `MaxTime` is a natural,
and that `NoItem` is not a record, conjuncts TLC checks on every run):

- **`TypeCorrect`**, through `TInv`, which adds that a busy worker's
  release is an id (UpdateStack appends it to the parameters).
- **`PromotedReleaseValidInvariant`.** releaseFormation's "invalid ami"
  error is only printed, so the invariant is not inductive alone: a
  worker between its steps carries state that later lands in the stack.
  `IInv` adds `FormValid` (a worker holding a rendered template promotes
  a valid release) and `LiveValid` (every Release value a worker read
  from the live stack was valid). The lemma `ValidStable` shows that no
  step takes the image from a stored release: ReleaseCreate writes an
  image, ReleaseCopy writes only under an id holding nothing. Each
  worker's step changes only its own promote state (`WorkerFrame`,
  `FinishFrame`), and UpdateStack picks the new Release among the
  appended live values and the worker's release, all valid, while the
  old one becomes the rollback target.

**What stays with TLC.**
- Liveness (ClientTerminates) under fairness: the prover
  does not reason about ENABLED or fairness.
- Every violation run: those properties are false of the code.
- The theorems carry the assumptions of the runs that pass (`SameDir`,
  deletions only); what happens outside them is what the violation runs
  index_cwd and tarball_cwd show.

## 6. Not modelled

- **The list, info and delete commands and the `convox rack` commands.**
  They are one API call each, followed by output formatting, with no state
  of their own.
- **The Makefile** appended to builds.go: build targets, not behaviour.
- **Directories in the walk and in the tarball.** The trees are flat; a
  directory is skipped by `info.IsDir()` and adds nothing the properties
  tell apart.
- **Formatting, messages and printing, everywhere**, except the `.env`
  warning (Tarball), which a property is about.
- **The rack version comparison** (builds.go:444). BuildClient abstracts
  `system.Version < "20160226234213"` to the boolean `rackIncremental`.
  Rack versions are 14-digit timestamps, and for digit strings of one
  width Go's byte-wise string order is the numeric order, so both
  protocols are reachable exactly as the version decides.
- **The copy goroutine of finishBuild** (builds.go:607). StreamBuildLogs
  is one step of BuildClient. io.Copy to stdout runs in a goroutine that
  the process exit kills, so the last log lines may not be printed; output
  to stdout is outside the model.
- **Collisions of generated ids** (part_000:122). ReleaseCopy draws a fresh
  id; a repeat among random 9-character ids would replace a stored
  release.
