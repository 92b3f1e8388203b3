------------------------- MODULE IndexUploadProofs -------------------------
(***************************************************************************)
(* Proofs about IndexUpload for every walk order, set of contents and     *)
(* injective hash: the type invariant, and that the rack's shared cache   *)
(* never holds bytes under another hash (CacheIntegrity) when the build   *)
(* runs in its own directory and files may only disappear meanwhile.     *)
(***************************************************************************)
EXTENDS IndexUpload, TLAPS

-----------------------------------------------------------------------------
(* Type correctness.  TypeOK alone is not inductive: uploadIndex reads   *)
(* index[m] for every missing hash m, so missing must hold only hashes    *)
(* the index has an entry for.                                            *)

TInv == TypeOK /\ missing \subseteq Entries(index)

\* The file the walk visits next is a path of the tree.
LEMMA WalkPath ==
    ASSUME NEW k \in Nat \ {0}, k <= Len(WalkOrder)
    PROVE  WalkOrder[k] \in Paths
  BY IndexAssumptions DEF Paths

LEMMA TInvStep == TInv /\ [Next]_vars => TInv'
<1> SUFFICES ASSUME TInv, [Next]_vars PROVE TInv'
  OBVIOUS
<1> USE IndexAssumptions DEF TInv, TypeOK, Trees, Entries
<1>1. CASE CreateIndex
  BY <1>1 DEF CreateIndex
<1>2. CASE indexWalker
  <2>1. WalkOrder[walkPos] \in Paths
    BY <1>2, WalkPath DEF indexWalker
  <2>2. QED
    BY <1>2, <2>1 DEF indexWalker
<1>3. CASE WalkDone
  BY <1>3 DEF WalkDone
<1>4. CASE IndexMissing
  BY <1>4 DEF IndexMissing
<1>5. CASE UploadIndex
  BY <1>5 DEF UploadIndex
<1>6. CASE CreateBuildIndex
  BY <1>6 DEF CreateBuildIndex
<1>7. CASE OtherUpload
  BY <1>7 DEF OtherUpload
<1>8. CASE LocalEdit
  BY <1>8 DEF LocalEdit
<1>9. CASE UNCHANGED vars
  BY <1>9 DEF vars
<1>10. QED
  BY <1>1, <1>2, <1>3, <1>4, <1>5, <1>6, <1>7, <1>8, <1>9 DEF Next

\* Every reachable state of the upload is well typed.
THEOREM TypeCorrect == Spec => []TypeOK
<1>1. Init => TInv
  BY IndexAssumptions DEF Init, TInv, TypeOK, Trees, CorrectCaches, Entries
<1>2. TInv => TypeOK
  BY DEF TInv
<1>3. QED
  BY <1>1, <1>2, TInvStep, PTL DEF Spec

-----------------------------------------------------------------------------
(* CacheIntegrity.  uploadIndex sends the bytes it reads now under the    *)
(* hash the walk computed earlier, so the cache stays correct only if    *)
(* those bytes are still the ones the walk read.  The inductive invariant *)
(* says so: every index entry names a file whose walked bytes have that  *)
(* hash, and a walked file still holds those bytes or is gone (a gone    *)
(* file aborts the upload).  This needs the working directory to be the  *)
(* build directory and edits to be deletions.  The run index_cwd shows   *)
(* the property fails in another working directory; an edit between the  *)
(* walk and the upload would break it the same way (builds.go:395).      *)

IInv ==
    /\ TInv
    /\ cwdTree = tree
    /\ \A h \in Hashes : index[h] # NoPath =>
           snapshot[index[h]] # Absent /\ Hash[snapshot[index[h]]] = h
    /\ \A p \in Paths : snapshot[p] # Absent =>
           tree[p] \in {snapshot[p], Absent}
    /\ CacheIntegrity

LEMMA InitIInv == SameDir /\ Init => IInv
  BY IndexAssumptions DEF Init, IInv, TInv, TypeOK, Trees, CorrectCaches,
                          Entries, CacheIntegrity

LEMMA NextIInv ==
    ASSUME SameDir, EditKinds \subseteq {"delete"}
    PROVE  IInv /\ [Next]_vars => IInv'
<1> SUFFICES ASSUME IInv, [Next]_vars PROVE IInv'
  OBVIOUS
<1>0. TInv'
  BY TInvStep DEF IInv
<1> USE IndexAssumptions DEF IInv, TInv, TypeOK, Trees, Entries, CacheIntegrity
<1>1. CASE CreateIndex
  BY <1>0, <1>1 DEF CreateIndex
<1>2. CASE indexWalker
  <2> DEFINE p == WalkOrder[walkPos]
  <2>1. p \in Paths
    BY <1>2, WalkPath DEF indexWalker
  <2>2. CASE UNCHANGED <<index, snapshot>>
    BY <1>0, <1>2, <2>2 DEF indexWalker
  <2>3. CASE /\ tree[p] # Absent
             /\ index' = [index EXCEPT ![Hash[tree[p]]] = p]
             /\ snapshot' = [snapshot EXCEPT ![p] = tree[p]]
    <3>1. snapshot[p] # Absent => tree[p] = snapshot[p]
      BY <2>1, <2>3
    <3>2. QED
      BY <1>0, <1>2, <2>1, <2>3, <3>1 DEF indexWalker
  <2>4. QED
    BY <1>2, <2>2, <2>3 DEF indexWalker
<1>3. CASE WalkDone
  BY <1>0, <1>3 DEF WalkDone
<1>4. CASE IndexMissing
  BY <1>0, <1>4 DEF IndexMissing
<1>5. CASE UploadIndex
  <2>1. ASSUME NEW h \in missing, cwdTree[index[h]] # Absent
        PROVE  Hash[cwdTree[index[h]]] = h
    BY <2>1
  <2>2. QED
    BY <1>0, <1>5, <2>1 DEF UploadIndex
<1>6. CASE CreateBuildIndex
  BY <1>0, <1>6 DEF CreateBuildIndex
<1>7. CASE OtherUpload
  BY <1>0, <1>7 DEF OtherUpload
<1>8. CASE LocalEdit
  BY <1>0, <1>8 DEF LocalEdit
<1>9. CASE UNCHANGED vars
  BY <1>0, <1>9 DEF vars
<1>10. QED
  BY <1>1, <1>2, <1>3, <1>4, <1>5, <1>6, <1>7, <1>8, <1>9 DEF Next

\* uploadIndex/IndexUpdate never store bytes under a hash that is not
\* their sha256, when `convox build --incremental` runs in the build
\* directory and files of it may be deleted during the upload.
THEOREM CacheIntegrityInvariant ==
    ASSUME SameDir, EditKinds \subseteq {"delete"}
    PROVE  Spec => []CacheIntegrity
<1>1. Init => IInv
  BY InitIInv
<1>2. IInv /\ [Next]_vars => IInv'
  BY NextIInv
<1>3. IInv => CacheIntegrity
  BY DEF IInv
<1>4. QED
  BY <1>1, <1>2, <1>3, PTL DEF Spec

-----------------------------------------------------------------------------
(* Hashes.  The rack keys its cache by sha256, taken to be collision-   *)
(* free: the rebuilt tree's bytes are those the walk read only because   *)
(* no two contents share a hash.                                          *)

\* sha256 is taken to be collision-free.
LEMMA HashInjective == \A c, d \in Contents : Hash[c] = Hash[d] => c = d
  BY IndexAssumptions

-----------------------------------------------------------------------------
(* BuildSourceSound.  The rack rebuilds each name of the index from its   *)
(* cache, so what it builds is sound when every entry names a file the    *)
(* walk did not skip, the cache is correct (IInv), and nothing the        *)
(* property reads changes once the outcome is decided.                    *)

\* createIndex enters only files .dockerignore does not exclude.
IndexNotIgnored == \A h \in Hashes : index[h] # NoPath => index[h] \notin ignored

\* The CLI decides the outcome once, at its last step.
Decided == outcome # "none" => pc = "done"

SInv == IInv /\ IndexNotIgnored /\ Decided /\ BuildSourceSound

LEMMA InitSInv == SameDir /\ Init => SInv
  BY InitIInv DEF Init, SInv, IndexNotIgnored, Decided, BuildSourceSound

\* What the rack rebuilds for a name is the content the walk read.
LEMMA RebuiltFromWalk ==
    ASSUME IInv, IndexNotIgnored, CreateBuildIndex, outcome' = "ok",
           NEW p \in Paths, built'[p] # Absent
    PROVE  p \notin ignored /\ built'[p] = snapshot[p]
<1> USE DEF IInv, TInv, TypeOK, Trees, Entries
<1>1. \E h \in Entries(index) : index[h] = p
  BY DEF CreateBuildIndex
<1> DEFINE h == CHOOSE h \in Entries(index) : index[h] = p
<1>2. h \in Hashes /\ index[h] # NoPath /\ index[h] = p
  BY <1>1
<1>3. built'[p] = cache[h] /\ cache[h] # None
  BY <1>1, <1>2 DEF CreateBuildIndex
<1>4. cache[h] \in Contents /\ Hash[cache[h]] = h
  BY <1>2, <1>3 DEF CacheIntegrity
<1>5. snapshot[p] \in Contents /\ Hash[snapshot[p]] = h
  BY <1>2
<1>6. built'[p] = snapshot[p]
  BY Zenon, <1>3, <1>4, <1>5, HashInjective
<1>7. p \notin ignored
  BY <1>2 DEF IndexNotIgnored
<1>8. QED
  BY <1>6, <1>7

LEMMA NextSInv ==
    ASSUME SameDir, EditKinds \subseteq {"delete"}
    PROVE  SInv /\ [Next]_vars => SInv'
<1> SUFFICES ASSUME SInv, [Next]_vars PROVE SInv'
  OBVIOUS
<1>0. IInv'
  BY NextIInv DEF SInv
<1> USE DEF SInv
<1>1. CASE CreateBuildIndex
  <2>1. UNCHANGED <<index, ignored, snapshot>> /\ pc' = "done"
    BY <1>1 DEF CreateBuildIndex
  <2>2. BuildSourceSound'
    BY <1>1, <2>1, RebuiltFromWalk DEF BuildSourceSound, CreateBuildIndex
  <2>3. QED
    BY <1>0, <2>1, <2>2 DEF IndexNotIgnored, Decided
<1>2. CASE indexWalker
  <2> DEFINE p == WalkOrder[walkPos]
  <2>1. outcome = "none" /\ UNCHANGED ignored
    BY <1>2 DEF indexWalker, Decided
  <2>2. IndexNotIgnored'
    <3>1. CASE UNCHANGED index
      BY <2>1, <3>1 DEF IndexNotIgnored
    <3>2. CASE p \notin ignored /\ index' = [index EXCEPT ![Hash[tree[p]]] = p]
      BY <2>1, <3>2 DEF IndexNotIgnored
    <3>3. QED
      BY <1>2, <3>1, <3>2 DEF indexWalker
  <2>3. Decided' /\ BuildSourceSound'
    BY <1>2, <2>1 DEF indexWalker, Decided, BuildSourceSound
  <2>4. QED
    BY <1>0, <2>2, <2>3
<1>3. CASE CreateIndex \/ WalkDone \/ IndexMissing \/ UploadIndex
  <2>1. UNCHANGED <<index, ignored, built, snapshot>> /\ outcome = "none"
        /\ outcome' \in {"none", "error"}
        /\ (outcome' = "error" => pc' = "done")
    BY <1>3 DEF CreateIndex, WalkDone, IndexMissing, UploadIndex, Decided
  <2>2. QED
    BY <1>0, <2>1 DEF IndexNotIgnored, Decided, BuildSourceSound
<1>4. CASE OtherUpload \/ LocalEdit \/ UNCHANGED vars
  <2>1. UNCHANGED <<index, ignored, built, snapshot, outcome, pc>>
    BY <1>4 DEF OtherUpload, LocalEdit, vars
  <2>2. QED
    BY <1>0, <2>1 DEF IndexNotIgnored, Decided, BuildSourceSound
<1>5. QED
  BY <1>1, <1>2, <1>3, <1>4 DEF Next

\* createIndex/uploadIndex/CreateBuildIndex: when `convox build
\* --incremental` runs in the build directory and files may only be
\* deleted meanwhile, every file the rack builds is a non-ignored file of
\* the directory with the bytes the walk read.
THEOREM BuildSourceSoundInvariant ==
    ASSUME SameDir, EditKinds \subseteq {"delete"}
    PROVE  Spec => []BuildSourceSound
<1>1. Init => SInv
  BY InitSInv
<1>2. SInv /\ [Next]_vars => SInv'
  BY NextSInv
<1>3. SInv => BuildSourceSound
  BY DEF SInv
<1>4. QED
  BY <1>1, <1>2, <1>3, PTL DEF Spec
=============================================================================
