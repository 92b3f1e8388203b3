------------------------------ MODULE Tarball ------------------------------
(***************************************************************************)
(* The non-incremental source packaging of `convox build`                 *)
(* (src/cmd/convox/builds.go): executeBuildDir calls warnUnignoredEnv,    *)
(* which warns when a .env file would be sent, then createTarball, which  *)
(* tars the build directory minus what .dockerignore excludes, keeping    *)
(* .dockerignore and Dockerfile whenever the rules exclude either.        *)
(*                                                                         *)
(* The directory is flat: the paths are the three special files and some *)
(* other files.  An ignore line is a model value, Matches[l] the paths    *)
(* fileutils.Matches finds it to match, and EnvLine the line ".env".      *)
(* warnUnignoredEnv stats .env and .dockerignore in the process's working *)
(* directory, whose files are cwdFiles; SameDir says the build directory  *)
(* is that directory.  archive.TarWithOptions (vendored docker code, not  *)
(* in src/) is modelled from its documented behaviour: a file matched by *)
(* the exclude patterns is left out unless it is named in IncludeFiles.   *)
(* The chdir into the build directory and back has no observable effect: *)
(* every error path ends the command.                                     *)
(***************************************************************************)
CONSTANTS
    Files,            \* the other files of the build directory
    Dockerfile,       \* the build definition
    DotDockerignore,  \* the ignore file
    DotEnv,           \* the environment file, which may hold secrets
    Patterns,         \* possible lines of .dockerignore
    Matches,          \* line -> the paths it matches
    EnvLine,          \* the line ".env"
    SameDir           \* the build directory is the working directory

Special == {Dockerfile, DotDockerignore, DotEnv}
Paths == Files \cup Special

ASSUME TarballAssumptions ==
    /\ DotEnv \notin {Dockerfile, DotDockerignore}
    /\ Dockerfile # DotDockerignore /\ Files \cap Special = {}
    /\ Matches \in [Patterns -> SUBSET Paths]
    /\ EnvLine \in Patterns /\ Matches[EnvLine] = {DotEnv}
    /\ SameDir \in BOOLEAN

VARIABLES
    tree,      \* the files of the build directory
    cwdFiles,  \* which of .env and .dockerignore the working directory has
    lines,     \* the lines of the build directory's .dockerignore
    parsable,  \* dockerignore.ReadAll accepts that file
    pc,        \* "warn", "tar" or "done"
    warned,    \* the .env warning was printed
    archive,   \* the files of the tarball sent to the rack
    outcome    \* "none", "ok" or "error"

vars == <<tree, cwdFiles, lines, parsable, pc, warned, archive, outcome>>

TypeOK ==
    /\ tree \subseteq Paths
    /\ cwdFiles \subseteq {DotEnv, DotDockerignore}
    /\ lines \subseteq Patterns
    /\ parsable \in BOOLEAN
    /\ pc \in {"warn", "tar", "done"}
    /\ warned \in BOOLEAN
    /\ archive \subseteq Paths
    /\ outcome \in {"none", "ok", "error"}

Init ==
    /\ tree \in SUBSET Paths
    /\ cwdFiles \in IF SameDir THEN {tree \cap {DotEnv, DotDockerignore}}
                               ELSE SUBSET {DotEnv, DotDockerignore}
    /\ lines \in IF DotDockerignore \in tree THEN SUBSET Patterns ELSE {{}}
    /\ parsable \in IF DotDockerignore \in tree THEN BOOLEAN ELSE {TRUE}
    /\ pc = "warn"
    /\ warned = FALSE
    /\ archive = {}
    /\ outcome = "none"

\* readDockerIgnore / createTarball: no .dockerignore means no exclusions.
Excludes == IF DotDockerignore \in tree THEN lines ELSE {}

\* fileutils.Matches(p, excludes).
Matched(p) == \E l \in Excludes : p \in Matches[l]

-----------------------------------------------------------------------------

\* Mutant of warnUnignoredEnv: any non-empty .dockerignore silences the
\* warning (the loop over its lines dropped).
warnUnignoredEnvAnyLine ==
    /\ pc = "warn"
    /\ LET hasDotEnv == DotEnv \in cwdFiles
           hasDockerIgnore == DotDockerignore \in cwdFiles
       IN  \/ /\ hasDockerIgnore /\ hasDotEnv
              /\ DotDockerignore \in tree /\ ~parsable
              /\ pc' = "done" /\ outcome' = "error" /\ UNCHANGED warned
           \/ /\ ~(hasDockerIgnore /\ hasDotEnv
                   /\ DotDockerignore \in tree /\ ~parsable)
              /\ warned' = (hasDotEnv /\ (~hasDockerIgnore \/ Excludes = {}))
              /\ pc' = "tar" /\ UNCHANGED outcome
    /\ UNCHANGED <<tree, cwdFiles, lines, parsable, archive>>

\* warnUnignoredEnv: .env and .dockerignore are looked up in the working
\* directory; when both exist, the build directory's .dockerignore is read
\* (an unparsable one is an error) and the warning is silenced only by a
\* line that is literally ".env".
warnUnignoredEnv ==
    /\ pc = "warn"
    /\ LET hasDotEnv == DotEnv \in cwdFiles
           hasDockerIgnore == DotDockerignore \in cwdFiles
       IN  \/ /\ hasDockerIgnore /\ hasDotEnv
              /\ DotDockerignore \in tree /\ ~parsable
              /\ pc' = "done" /\ outcome' = "error" /\ UNCHANGED warned
           \/ /\ ~(hasDockerIgnore /\ hasDotEnv
                   /\ DotDockerignore \in tree /\ ~parsable)
              /\ warned' = (hasDotEnv /\ (~hasDockerIgnore \/ EnvLine \notin Excludes))
              /\ pc' = "tar" /\ UNCHANGED outcome
    /\ UNCHANGED <<tree, cwdFiles, lines, parsable, archive>>

\* archive.TarWithOptions(sym, {IncludeFiles: ["."] \o extra,
\* ExcludePatterns: excludes}): a file named by an include is sent even
\* when an exclude pattern matches it.
TarWithOptions(extra) == {p \in tree : ~Matched(p) \/ p \in extra}

\* Mutant of IncludeFiles: only a Dockerfile excluded by the rules makes
\* both files be kept.
IncludeFilesDockerfileOnly ==
    IF Matched(Dockerfile) THEN {DotDockerignore, Dockerfile} ELSE {}

\* createTarball: if .dockerignore mentions .dockerignore or the
\* Dockerfile, both are added to IncludeFiles.
IncludeFiles ==
    IF Matched(DotDockerignore) \/ Matched(Dockerfile)
    THEN {DotDockerignore, Dockerfile} ELSE {}

\* executeBuildDir / createTarball: filepath.Abs, Getwd, EvalSymlinks,
\* Chdir, reading .dockerignore, the tar and the Chdir back may each
\* fail; otherwise the tarball is the filtered tree.
createTarball ==
    /\ pc = "tar"
    /\ pc' = "done"
    /\ \/ outcome' = "error" /\ UNCHANGED archive
       \/ /\ DotDockerignore \notin tree \/ parsable
          /\ archive' = TarWithOptions(IncludeFiles)
          /\ outcome' = "ok"
    /\ UNCHANGED <<tree, cwdFiles, lines, parsable, warned>>

Next == warnUnignoredEnv \/ createTarball

Spec == Init /\ [][Next]_vars

-----------------------------------------------------------------------------
(* Properties.                                                             *)

\* warnUnignoredEnv/createTarball: a .env file is never sent to the rack
\* without the "you may be leaking secrets" warning.
NoSilentLeak ==
    outcome = "ok" /\ DotEnv \in archive => warned

\* spec.md 4.3 / createTarball: the builder always receives the
\* Dockerfile and .dockerignore of the directory, whatever the ignore
\* rules say, and never a file the rules exclude otherwise.
BuildFilesShipped ==
    outcome = "ok" =>
        /\ tree \cap {Dockerfile, DotDockerignore} \subseteq archive
        /\ \A p \in archive \ {Dockerfile, DotDockerignore} : ~Matched(p)

=============================================================================
