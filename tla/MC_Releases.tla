---------------------------- MODULE MC_Releases ----------------------------
(* Releases with one image, two generated ids (one release written by a *)
(* build), two concurrent promote requests and a page of one, so that   *)
(* the page limit cuts the list as soon as there are two releases.      *)
EXTENDS Releases, TLC

CONSTANTS a1, r1, r2, w1, w2

MCAmis == {a1}
MCRIds == {r1, r2}
MCWorkers == {w1, w2}
MCInitCreated == [r \in {r1} |-> 1]

\* Promote requests are interchangeable.
WorkerSymmetry == Permutations(MCWorkers)
=============================================================================
