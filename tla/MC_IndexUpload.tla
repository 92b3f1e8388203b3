--------------------------- MODULE MC_IndexUpload ---------------------------
(* IndexUpload with three files and two contents: enough for two files    *)
(* with the same bytes, an ignored file and a file missing from the cache.*)
EXTENDS IndexUpload

CONSTANTS p1, p2, p3, c1, c2, h1, h2

MCWalkOrder == <<p1, p2, p3>>
MCContents == {c1, c2}
MCHashes == {h1, h2}
MCHash == [c \in MCContents |-> IF c = c1 THEN h1 ELSE h2]
=============================================================================
