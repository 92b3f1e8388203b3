\* `convox build --incremental` run in the build directory.
CONSTANTS
    p1 = p1  p2 = p2  p3 = p3
    c1 = c1  c2 = c2  h1 = h1  h2 = h2
    Absent = Absent  None = None  NoPath = NoPath
    WalkOrder <- MCWalkOrder
    Contents <- MCContents
    Hashes <- MCHashes
    Hash <- MCHash
    SameDir = TRUE
    EditKinds = {"delete"}
SPECIFICATION Spec
\* The CLI exits and no other client has anything left to upload.
CHECK_DEADLOCK FALSE
INVARIANTS
    TypeOK
    CacheIntegrity
    BuildSourceSound
