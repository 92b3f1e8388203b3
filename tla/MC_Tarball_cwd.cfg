\* `convox build DIR` run from another directory.
CONSTANTS
    f1 = f1  df = df  di = di  de = de
    lEnv = lEnv  lEnvGlob = lEnvGlob  lDockerfile = lDockerfile
    lIgnore = lIgnore  lAll = lAll
    Files <- MCFiles
    Dockerfile = df  DotDockerignore = di  DotEnv = de
    Patterns <- MCPatterns
    Matches <- MCMatches
    EnvLine = lEnv
    SameDir = FALSE
SPECIFICATION Spec
\* The command packages the source once and stops.
CHECK_DEADLOCK FALSE
INVARIANTS
    NoSilentLeak
