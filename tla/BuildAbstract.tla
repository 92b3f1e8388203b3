--------------------------- MODULE BuildAbstract ---------------------------
(***************************************************************************)
(* What one build command promises (spec.md 4.4 and 7), with no CLI      *)
(* control flow: the rack owns the build record and moves it through      *)
(* created -> building -> a terminal status on its own; the command       *)
(* decides its result once, either a remote error at any moment or, once *)
(* the build is terminal, the result that status calls for: the release  *)
(* of a completed build (which it may also promote), "build failed" or   *)
(* "build timed out".                                                      *)
(*                                                                         *)
(* BuildClient refines this specification (BuildClient!Abs).             *)
(***************************************************************************)
CONSTANTS
    Releases,   \* release ids the rack may assign to a completed build
    NoRelease   \* the empty release id

VARIABLES
    build,      \* the rack's build record
    result,     \* "pending", "ok", "failed", "timedOut" or "error"
    shown,      \* the release id the command returned
    promoted    \* the release the command promoted

vars == <<build, result, shown, promoted>>

Terminal == {"complete", "error", "failed", "timeout"}

NoBuild == [status |-> "none", release |-> NoRelease]

Init ==
    /\ build = NoBuild
    /\ result = "pending"
    /\ shown = NoRelease
    /\ promoted = NoRelease

\* The build request reaches the rack; whether the command hears of the
\* new build or fails (a lost answer, an empty id) is its own business.
Create ==
    /\ build.status = "none" /\ result = "pending"
    /\ build' = [status |-> "created", release |-> NoRelease]
    /\ result' \in {"pending", "error"}
    /\ UNCHANGED <<shown, promoted>>

\* Any remote call the command makes may fail, and the command ends.
Fail ==
    /\ result = "pending"
    /\ result' = "error"
    /\ UNCHANGED <<build, shown, promoted>>

\* Polling sees the terminal status and the command reports it.
Finish ==
    /\ result = "pending" /\ build.status \in Terminal
    /\ \/ /\ build.status = "complete" /\ result' = "ok"
          /\ shown' = build.release
          /\ promoted' \in {NoRelease, build.release}
       \/ /\ build.status \in {"error", "failed"} /\ result' = "failed"
          /\ UNCHANGED <<shown, promoted>>
       \/ /\ build.status = "timeout" /\ result' = "timedOut"
          /\ UNCHANGED <<shown, promoted>>
    /\ UNCHANGED build

\* The rack runs the build, whatever the command does meanwhile.
Start ==
    /\ build.status = "created"
    /\ build' = [build EXCEPT !.status = "building"]
    /\ UNCHANGED <<result, shown, promoted>>

End ==
    /\ build.status = "building"
    /\ \/ \E r \in Releases : build' = [status |-> "complete", release |-> r]
       \/ \E s \in Terminal \ {"complete"} : build' = [build EXCEPT !.status = s]
    /\ UNCHANGED <<result, shown, promoted>>

Next == Create \/ Fail \/ Finish \/ Start \/ End

Spec == Init /\ [][Next]_vars

=============================================================================
