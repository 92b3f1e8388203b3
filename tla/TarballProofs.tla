--------------------------- MODULE TarballProofs ---------------------------
(***************************************************************************)
(* Proofs about Tarball for every set of files and ignore lines: the type *)
(* invariant, and that `convox build` run in the build directory never   *)
(* sends a .env file without warning (NoSilentLeak).                      *)
(***************************************************************************)
EXTENDS Tarball, TLAPS

\* Every step keeps every variable in its type.
LEMMA TypeStep == TypeOK /\ [Next]_vars => TypeOK'
<1> SUFFICES ASSUME TypeOK, [Next]_vars PROVE TypeOK'
  OBVIOUS
<1> USE DEF TypeOK
<1>1. CASE warnUnignoredEnv
  BY Zenon, <1>1 DEF warnUnignoredEnv
<1>2. CASE createTarball
  BY <1>2 DEF createTarball, TarWithOptions
<1>3. CASE UNCHANGED vars
  BY <1>3 DEF vars
<1>4. QED
  BY <1>1, <1>2, <1>3 DEF Next

\* The packaging steps keep every variable in its type.
THEOREM TypeCorrect == Spec => []TypeOK
<1>1. Init => TypeOK
  BY Zenon DEF Init, TypeOK
<1>2. QED
  BY <1>1, TypeStep, PTL DEF Spec

-----------------------------------------------------------------------------
(* NoSilentLeak.  The warning is decided before the tarball is made, from *)
(* the working directory's files, so the invariant must carry what was    *)
(* decided: once past warnUnignoredEnv without an error, a .env that no   *)
(* line excludes has been warned about.  In the build directory the       *)
(* lookups see the build directory's files, and a line ".env" would       *)
(* exclude .env.                                                           *)

IInv ==
    /\ TypeOK
    /\ cwdFiles = tree \cap {DotEnv, DotDockerignore}
    /\ pc \in {"warn", "tar"} => outcome = "none"
    /\ pc # "warn" /\ outcome # "error" /\ DotEnv \in tree /\ ~Matched(DotEnv)
       => warned
    /\ NoSilentLeak

\* .env is never one of the files createTarball forces into the archive.
LEMMA EnvNotIncluded == DotEnv \notin IncludeFiles
  BY TarballAssumptions DEF IncludeFiles, Special

LEMMA InitIInv == SameDir /\ Init => IInv
  BY Zenon DEF Init, IInv, TypeOK, NoSilentLeak

LEMMA NextIInv == IInv /\ [Next]_vars => IInv'
<1> SUFFICES ASSUME IInv, [Next]_vars PROVE IInv'
  OBVIOUS
<1>0. TypeOK'
  BY TypeStep DEF IInv
<1> USE DEF IInv, NoSilentLeak
<1>1. CASE warnUnignoredEnv
  <2>0. Matches[EnvLine] = {DotEnv}
    BY TarballAssumptions
  <2>1. DotEnv \in tree /\ ~Matched(DotEnv) /\ DotDockerignore \in tree
        => EnvLine \notin Excludes
    BY <2>0 DEF Matched, Excludes
  <2>2. /\ pc = "warn" /\ outcome = "none"
        /\ UNCHANGED <<tree, cwdFiles, lines, archive>>
    BY <1>1 DEF warnUnignoredEnv
  <2>3. CASE pc' = "done" /\ outcome' = "error"
    BY <1>0, <2>2, <2>3
  <2>4. CASE /\ warned' = (DotEnv \in cwdFiles
                          /\ (DotDockerignore \notin cwdFiles \/ EnvLine \notin Excludes))
             /\ pc' = "tar" /\ UNCHANGED outcome
    <3>1. DotEnv \in tree /\ ~Matched(DotEnv) => warned'
      <4>1. CASE DotDockerignore \in tree
        BY Zenon, <2>1, <2>2, <2>4, <4>1
      <4>2. CASE DotDockerignore \notin tree
        BY Zenon, <2>2, <2>4, <4>2
      <4>3. QED
        BY <4>1, <4>2
    <3>2. QED
      BY <1>0, <2>2, <2>4, <3>1 DEF Matched, Excludes
  <2>5. QED
    BY <1>1, <2>3, <2>4 DEF warnUnignoredEnv
<1>2. CASE createTarball
  <2>1. DotEnv \in TarWithOptions(IncludeFiles) => DotEnv \in tree /\ ~Matched(DotEnv)
    BY EnvNotIncluded DEF TarWithOptions
  <2>2. QED
    BY <1>0, <1>2, <2>1 DEF createTarball, Matched, Excludes
<1>3. CASE UNCHANGED vars
  BY <1>0, <1>3 DEF vars, Matched, Excludes
<1>4. QED
  BY <1>1, <1>2, <1>3 DEF Next

\* warnUnignoredEnv/createTarball: run in the build directory, `convox
\* build` never sends a .env file to the rack without the warning.
THEOREM NoSilentLeakInvariant ==
    ASSUME SameDir
    PROVE  Spec => []NoSilentLeak
<1>1. Init => IInv
  BY InitIInv
<1>2. IInv => NoSilentLeak
  BY DEF IInv
<1>3. QED
  BY <1>1, <1>2, NextIInv, PTL DEF Spec

-----------------------------------------------------------------------------
(* BuildFilesShipped.  .dockerignore's rules are read once and the tree   *)
(* never changes, so a successful createTarball leaves exactly the        *)
(* filtered tree in the archive; the invariant records that, and the      *)
(* property follows from what IncludeFiles forces in.  It holds from any  *)
(* working directory.                                                     *)

ShipInv == outcome = "ok" => archive = TarWithOptions(IncludeFiles)

\* createTarball forces nothing but the two build files into the archive.
LEMMA IncludedBuildFiles == IncludeFiles \subseteq {DotDockerignore, Dockerfile}
  BY DEF IncludeFiles

LEMMA ShipStep == ShipInv /\ [Next]_vars => ShipInv'
<1> SUFFICES ASSUME ShipInv, [Next]_vars PROVE ShipInv'
  OBVIOUS
<1>1. CASE warnUnignoredEnv
  <2>1. UNCHANGED <<tree, lines, archive>> /\ outcome' \in {outcome, "error"}
    BY <1>1 DEF warnUnignoredEnv
  <2>2. QED
    BY <2>1 DEF ShipInv, TarWithOptions, IncludeFiles, Matched, Excludes
<1>2. CASE createTarball
  <2>1. UNCHANGED <<tree, lines>>
    BY <1>2 DEF createTarball
  <2>2. outcome' = "error" \/ archive' = TarWithOptions(IncludeFiles)'
    BY <1>2, <2>1 DEF createTarball, TarWithOptions, IncludeFiles, Matched, Excludes
  <2>3. QED
    BY <2>2 DEF ShipInv
<1>3. CASE UNCHANGED vars
  BY <1>3 DEF vars, ShipInv, TarWithOptions, IncludeFiles, Matched, Excludes
<1>4. QED
  BY <1>1, <1>2, <1>3 DEF Next

LEMMA ShipImplies == ShipInv => BuildFilesShipped
<1> SUFFICES ASSUME ShipInv, outcome = "ok" PROVE BuildFilesShipped
  BY DEF BuildFilesShipped
<1>1. archive = TarWithOptions(IncludeFiles)
  BY DEF ShipInv
<1>2. ASSUME NEW f \in {Dockerfile, DotDockerignore}, f \in tree
      PROVE  f \in archive
  <2>1. CASE Matched(f)
    BY <1>1, <1>2, <2>1 DEF TarWithOptions, IncludeFiles
  <2>2. CASE ~Matched(f)
    BY <1>1, <1>2, <2>2 DEF TarWithOptions
  <2>3. QED
    BY <2>1, <2>2
<1>3. \A p \in archive \ {Dockerfile, DotDockerignore} : ~Matched(p)
  BY <1>1, IncludedBuildFiles DEF TarWithOptions
<1>4. QED
  BY <1>2, <1>3 DEF BuildFilesShipped

\* createTarball: whatever the working directory, a successful build sends
\* the directory's Dockerfile and .dockerignore, and no other file that
\* .dockerignore excludes.
THEOREM BuildFilesShippedInvariant == Spec => []BuildFilesShipped
<1>1. Init => ShipInv
  BY DEF Init, ShipInv
<1>2. QED
  BY <1>1, ShipStep, ShipImplies, PTL DEF Spec

=============================================================================
