\* `convox build` of the working directory, every tree and .dockerignore.
CONSTANTS
    f1 = f1  df = df  di = di  de = de
    lEnv = lEnv  lEnvGlob = lEnvGlob  lDockerfile = lDockerfile
    lIgnore = lIgnore  lAll = lAll
    Files <- MCFiles
    Dockerfile = df  DotDockerignore = di  DotEnv = de
    Patterns <- MCPatterns
    Matches <- MCMatches
    EnvLine = lEnv
    SameDir = TRUE
SPECIFICATION Spec
\* The command packages the source once and stops.
CHECK_DEADLOCK FALSE
INVARIANTS
    NoSilentLeak
    BuildFilesShipped
