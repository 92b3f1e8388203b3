--------------------------- MODULE MC_BuildClient ---------------------------
(* BuildClient with two release ids. *)
EXTENDS BuildClient

CONSTANTS r1, r2

MCReleases == {r1, r2}
=============================================================================
