---------------------------- MODULE IndexUpload ----------------------------
(***************************************************************************)
(* The incremental source upload of `convox build --incremental`          *)
(* (src/cmd/convox/builds.go): createIndex walks the build directory and  *)
(* maps the sha256 of every file that .dockerignore does not exclude to   *)
(* the file's relative name; uploadIndex asks the rack which hashes it is *)
(* missing, reads those files again, tars them under their hash and      *)
(* sends the tarball (IndexUpdate); CreateBuildIndex then has the rack    *)
(* rebuild the source tree from the index and its cache.                 *)
(*                                                                         *)
(* The rack's cache, IndexMissing, IndexUpdate and the rebuilding of the  *)
(* tree are not in src/ and are modelled from spec.md 4.2.  Other clients *)
(* may upload (correct) content into the same cache at any time.         *)
(*                                                                         *)
(* A file's content is a model value, sha256 an injective map Hash, the   *)
(* ignore rules the set of paths they match, the walk order of           *)
(* filepath.Walk the sequence WalkOrder.  uploadIndex reads files by      *)
(* their relative name, i.e. from the process's working directory, whose *)
(* tree is cwdTree; SameDir says the build directory is that directory.  *)
(***************************************************************************)
EXTENDS Naturals, Sequences, FiniteSets

CONSTANTS
    WalkOrder,  \* the relative paths of the tree, in lexical (walk) order
    Contents,   \* possible file contents
    Hashes,     \* possible sha256 sums
    Hash,       \* sha256: Contents -> Hashes
    Absent,     \* no file at that path
    None,       \* the rack's cache holds nothing for that hash
    NoPath,     \* the index has no entry for that hash
    SameDir,    \* the build directory is the process's working directory
    EditKinds   \* how the user may change a file while the upload runs

Paths == {WalkOrder[i] : i \in 1 .. Len(WalkOrder)}

ASSUME IndexAssumptions ==
    /\ WalkOrder \in Seq(Paths)
    /\ \A i, j \in 1 .. Len(WalkOrder) : WalkOrder[i] = WalkOrder[j] => i = j
    /\ Hash \in [Contents -> Hashes]
    /\ \A c, d \in Contents : Hash[c] = Hash[d] => c = d
    /\ Absent \notin Contents /\ None \notin Contents /\ NoPath \notin Paths
    /\ SameDir \in BOOLEAN
    /\ EditKinds \subseteq {"delete", "modify"}

\* A directory tree: what each relative path holds.
Trees == [Paths -> Contents \cup {Absent}]

VARIABLES
    tree,      \* the build directory
    snapshot,  \* the bytes the walk read from each file (history)
    cwdTree,   \* the process's working directory
    ignored,   \* the paths .dockerignore excludes
    pc,        \* where the CLI is
    names,     \* the names filepath.Walk listed in the directory
    walkPos,   \* the position of the walk in WalkOrder
    index,     \* createIndex's result: hash -> relative name
    missing,   \* IndexMissing's answer
    cache,     \* the rack's content cache: hash -> content
    built,     \* the source tree the rack rebuilt (when outcome = "ok")
    outcome    \* "none", "ok", "error" or "panic"

vars == <<tree, snapshot, cwdTree, ignored, pc, names, walkPos, index, missing,
          cache, built, outcome>>

TypeOK ==
    /\ tree \in Trees /\ snapshot \in Trees /\ cwdTree \in Trees
    /\ ignored \subseteq Paths
    /\ pc \in {"index", "walk", "missing", "upload", "submit", "done"}
    /\ names \subseteq Paths
    /\ walkPos \in Nat \ {0}
    /\ index \in [Hashes -> Paths \cup {NoPath}]
    /\ missing \subseteq Hashes
    /\ cache \in [Hashes -> Contents \cup {None}]
    /\ built \in Trees
    /\ outcome \in {"none", "ok", "error", "panic"}

\* The rack's cache only ever holds what other clients uploaded correctly.
CorrectCaches == {c \in [Hashes -> Contents \cup {None}] :
                    \A h \in Hashes : c[h] # None => Hash[c[h]] = h}

Init ==
    /\ tree \in Trees
    /\ snapshot = [p \in Paths |-> Absent]
    /\ cwdTree \in IF SameDir THEN {tree} ELSE Trees
    /\ ignored \in SUBSET Paths
    /\ pc = "index"
    /\ names = {}
    /\ walkPos = 1
    /\ index = [h \in Hashes |-> NoPath]
    /\ missing = {}
    /\ cache \in CorrectCaches
    /\ built = [p \in Paths |-> Absent]
    /\ outcome = "none"

-----------------------------------------------------------------------------
(* createIndex / indexWalker.                                              *)

\* Hashes that have an entry in an index.
Entries(idx) == {h \in Hashes : idx[h] # NoPath}

\* createIndex up to the walk: warnUnignoredEnv, readDockerIgnore (an
\* unparsable .dockerignore) and EvalSymlinks may fail; filepath.Walk then
\* lists the names of the directory.
CreateIndex ==
    /\ pc = "index"
    /\ \/ pc' = "done" /\ outcome' = "error" /\ UNCHANGED names
       \/ pc' = "walk" /\ names' = {p \in Paths : tree[p] # Absent}
          /\ UNCHANGED outcome
    /\ UNCHANGED <<tree, snapshot, cwdTree, ignored, walkPos, index, missing,
                   cache, built>>

\* Mutant of indexWalker: the ignore rules are not consulted.
indexWalkerNoIgnore ==
    /\ pc = "walk" /\ walkPos <= Len(WalkOrder)
    /\ LET p == WalkOrder[walkPos] IN
       \/ p \notin names /\ UNCHANGED <<pc, index, snapshot, outcome>>
       \/ p \in names /\ tree[p] = Absent
          /\ pc' = "done" /\ outcome' = "panic" /\ UNCHANGED <<index, snapshot>>
       \/ /\ p \in names /\ tree[p] # Absent
          /\ \/ pc' = "done" /\ outcome' = "error" /\ UNCHANGED <<index, snapshot>>
             \/ /\ index' = [index EXCEPT ![Hash[tree[p]]] = p]
                /\ snapshot' = [snapshot EXCEPT ![p] = tree[p]]
                /\ UNCHANGED <<pc, outcome>>
    /\ walkPos' = walkPos + 1
    /\ UNCHANGED <<tree, cwdTree, ignored, names, missing, cache, built>>

\* filepath.Walk visits the next name in lexical order: lstat, then
\* indexWalker.  A name deleted since the listing fails lstat, and Walk
\* passes (nil info, err) to indexWalker, whose err is overwritten by
\* filepath.Rel's, so info.IsDir() dereferences nil.  Otherwise an ignored
\* file is skipped, and ReadFile (which may fail) and sha256 give
\* index[hash] = rel, overwriting an earlier file with the same bytes.
\* snapshot records the bytes the walk read.
indexWalker ==
    /\ pc = "walk" /\ walkPos <= Len(WalkOrder)
    /\ LET p == WalkOrder[walkPos] IN
       \/ p \notin names /\ UNCHANGED <<pc, index, snapshot, outcome>>
       \/ p \in names /\ tree[p] = Absent
          /\ pc' = "done" /\ outcome' = "panic" /\ UNCHANGED <<index, snapshot>>
       \/ p \in names /\ tree[p] # Absent /\ p \in ignored
          /\ UNCHANGED <<pc, index, snapshot, outcome>>
       \/ /\ p \in names /\ tree[p] # Absent /\ p \notin ignored
          /\ \/ pc' = "done" /\ outcome' = "error" /\ UNCHANGED <<index, snapshot>>
             \/ /\ index' = [index EXCEPT ![Hash[tree[p]]] = p]
                /\ snapshot' = [snapshot EXCEPT ![p] = tree[p]]
                /\ UNCHANGED <<pc, outcome>>
    /\ walkPos' = walkPos + 1
    /\ UNCHANGED <<tree, cwdTree, ignored, names, missing, cache, built>>

\* filepath.Walk returns after the last name: createIndex returns index.
WalkDone ==
    /\ pc = "walk" /\ walkPos > Len(WalkOrder)
    /\ pc' = "missing"
    /\ UNCHANGED <<tree, snapshot, cwdTree, ignored, names, walkPos, index,
                   missing, cache, built, outcome>>

\* uploadIndex: IndexMissing, then "NONE" when nothing is missing.
IndexMissing ==
    /\ pc = "missing"
    /\ \/ pc' = "done" /\ outcome' = "error" /\ UNCHANGED missing
       \/ LET m == {h \in Entries(index) : cache[h] = None} IN
          /\ missing' = m
          /\ pc' = IF m = {} THEN "submit" ELSE "upload"
          /\ UNCHANGED outcome
    /\ UNCHANGED <<tree, snapshot, cwdTree, ignored, names, walkPos, index, cache, built>>

\* Mutant of UploadIndex: the error of ioutil.ReadFile is not checked, so
\* a missing file is sent as "no content".
UploadIndexNoReadCheck ==
    /\ pc = "upload"
    /\ \/ pc' = "done" /\ outcome' = "error" /\ UNCHANGED cache
       \/ /\ cache' = [h \in Hashes |->
                         IF h \in missing THEN cwdTree[index[h]] ELSE cache[h]]
          /\ pc' = "submit" /\ UNCHANGED outcome
    /\ UNCHANGED <<tree, snapshot, cwdTree, ignored, names, walkPos, index, missing, built>>

\* Mutant of UploadIndex: every tar entry gets the bytes of one and the
\* same missing file (a loop variable captured once).
UploadIndexOneFile ==
    /\ pc = "upload"
    /\ \/ /\ \E m \in missing : cwdTree[index[m]] = Absent
          /\ pc' = "done" /\ outcome' = "error" /\ UNCHANGED cache
       \/ /\ \A m \in missing : cwdTree[index[m]] # Absent
          /\ \/ pc' = "done" /\ outcome' = "error" /\ UNCHANGED cache
             \/ /\ cache' = [h \in Hashes |->
                               IF h \in missing
                               THEN cwdTree[index[CHOOSE m \in missing : TRUE]]
                               ELSE cache[h]]
                /\ pc' = "submit" /\ UNCHANGED outcome
    /\ UNCHANGED <<tree, snapshot, cwdTree, ignored, names, walkPos, index, missing, built>>

\* uploadIndex: ioutil.ReadFile(index[m].Name) for every missing hash m,
\* i.e. relative to the working directory; a missing file aborts the
\* upload.  The tarball's entry m holds those bytes; IndexUpdate stores
\* every entry under its name, or fails as a whole.
UploadIndex ==
    /\ pc = "upload"
    /\ \/ /\ \E m \in missing : cwdTree[index[m]] = Absent
          /\ pc' = "done" /\ outcome' = "error" /\ UNCHANGED cache
       \/ /\ \A m \in missing : cwdTree[index[m]] # Absent
          /\ \/ pc' = "done" /\ outcome' = "error" /\ UNCHANGED cache
             \/ /\ cache' = [h \in Hashes |->
                               IF h \in missing THEN cwdTree[index[h]]
                                                ELSE cache[h]]
                /\ pc' = "submit" /\ UNCHANGED outcome
    /\ UNCHANGED <<tree, snapshot, cwdTree, ignored, names, walkPos, index, missing, built>>

\* CreateBuildIndex: the rack rebuilds the tree from the index, taking
\* each name's content from its cache (spec.md 4.2, 4.4); the request
\* may fail.
CreateBuildIndex ==
    /\ pc = "submit"
    /\ pc' = "done"
    /\ \/ outcome' = "error" /\ UNCHANGED built
       \/ /\ \A h \in Entries(index) : cache[h] # None
          /\ built' = [p \in Paths |->
                         IF \E h \in Entries(index) : index[h] = p
                         THEN cache[CHOOSE h \in Entries(index) : index[h] = p]
                         ELSE Absent]
          /\ outcome' = "ok"
    /\ UNCHANGED <<tree, snapshot, cwdTree, ignored, names, walkPos, index, missing, cache>>

\* Another client uploads correct content for a hash the cache lacks.
OtherUpload ==
    /\ \E c \in Contents :
          /\ cache[Hash[c]] = None
          /\ cache' = [cache EXCEPT ![Hash[c]] = c]
    /\ UNCHANGED <<tree, snapshot, cwdTree, ignored, pc, names, walkPos, index,
                   missing, built, outcome>>

\* The user deletes or rewrites a file of the build directory after the
\* walk and before the upload has read it (spec.md 2: "a race with
\* concurrent local edits").
LocalEdit ==
    /\ pc \in {"walk", "missing", "upload"}
    /\ \E p \in Paths, v \in Contents \cup {Absent} :
          /\ tree[p] # Absent /\ v # tree[p]
          /\ v = Absent => "delete" \in EditKinds
          /\ v # Absent => "modify" \in EditKinds
          /\ tree' = [tree EXCEPT ![p] = v]
          /\ cwdTree' = IF SameDir THEN tree' ELSE cwdTree
    /\ UNCHANGED <<snapshot, ignored, pc, names, walkPos, index, missing, cache,
                   built, outcome>>

Next ==
    \/ CreateIndex \/ indexWalker \/ WalkDone \/ IndexMissing \/ UploadIndex \/ CreateBuildIndex
    \/ OtherUpload \/ LocalEdit

Spec == Init /\ [][Next]_vars

-----------------------------------------------------------------------------
(* Properties.                                                             *)

\* uploadIndex/IndexUpdate: the rack's cache never holds content under a
\* hash that is not its sha256, so no later build (of any app sharing the
\* cache) gets wrong bytes for a hash.
CacheIntegrity ==
    \A h \in Hashes : cache[h] # None => Hash[cache[h]] = h

\* createIndex/uploadIndex/CreateBuildIndex: every file of the tree the
\* rack builds is a file of the build directory, as createIndex walked it,
\* that .dockerignore does not exclude, with the content it had then.
BuildSourceSound ==
    outcome = "ok" =>
        \A p \in Paths : built[p] # Absent =>
            /\ p \notin ignored
            /\ built[p] = snapshot[p]

\* spec.md 4.1 and 7: a file that becomes unreadable mid-walk fails the
\* index with an IOError; filepath.Walk/indexWalker must not crash when a
\* file listed in the directory is deleted before it is visited.
WalkNeverPanics == outcome # "panic"

\* spec.md 3 and 8: two byte-identical files are one index entry
\* "referenced conceptually by two paths"; the rack's tree must have every
\* file of the directory that is not ignored.
BuildSourceComplete ==
    outcome = "ok" =>
        \A p \in Paths : snapshot[p] # Absent /\ p \notin ignored =>
            built[p] = snapshot[p]

=============================================================================
