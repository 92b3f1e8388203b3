----------------------------- MODULE MC_Tarball -----------------------------
(* Tarball with one ordinary file and five ignore lines: ".env", a glob   *)
(* that also matches .env, "Dockerfile", ".dockerignore" and "*".          *)
EXTENDS Tarball, TLC

CONSTANTS f1, df, di, de, lEnv, lEnvGlob, lDockerfile, lIgnore, lAll

MCFiles == {f1}
MCPatterns == {lEnv, lEnvGlob, lDockerfile, lIgnore, lAll}
MCMatches == (lEnv :> {de}) @@ (lEnvGlob :> {de}) @@ (lDockerfile :> {df})
             @@ (lIgnore :> {di}) @@ (lAll :> {f1, df, di, de})
=============================================================================
