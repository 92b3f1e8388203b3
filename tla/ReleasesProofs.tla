--------------------------- MODULE ReleasesProofs ---------------------------
(***************************************************************************)
(* Proofs about Releases for every set of images, generated ids and      *)
(* concurrent promote requests.                                           *)
(***************************************************************************)
EXTENDS Releases, FiniteSetTheorems, TLAPS

\* TypeOK with what UpdateStack needs of a busy worker: the release it
\* promotes is an id (it is appended to the parameters).
TInv ==
    /\ TypeOK
    /\ \A w \in Workers : wpc[w] # "idle" => wrel[w] \in Ids

\* PromotedReleaseValid with what the pending promotes carry: a worker
\* holding a rendered template promotes a valid release, and every
\* Release value a worker read from the live stack names a valid release.
FormValid ==
    \A w \in Workers : wform[w] => wrel[w] \in Ids /\ Valid(table[wrel[w]])

LiveValid ==
    \A w \in Workers : \A i \in 1 .. Len(wlive[w]) : Valid(table[wlive[w][i]])

IInv == TInv /\ PromotedReleaseValid /\ FormValid /\ LiveValid

\* The clock starts after the releases the builds wrote, within MaxTime.
LEMMA InitClock == Cardinality(DOMAIN InitCreated) + 1 \in Times
  BY ReleasesAssumptions, FS_CardinalityType DEF Times

LEMMA InitTInv == Init => TInv
<1> SUFFICES ASSUME Init PROVE TInv
  OBVIOUS
<1>1. table \in [Ids -> Record \cup {NoItem}]
  BY DEF Init, InitTables
<1>2. birth \in [Ids -> Times]
  <2>1. \A id \in DOMAIN InitCreated : InitCreated[id] \in Times
    BY ReleasesAssumptions, FS_CardinalityType DEF Times
  <2>2. QED
    BY <2>1, ReleasesAssumptions DEF Init, Times
<1>3. clock \in Times
  BY InitClock DEF Init
<1>4. stack \in Stack
  BY DEF Init, Stack
<1>5. listed \subseteq Ids /\ request \in Seq(Ids) /\ panicked \in BOOLEAN
  <2>1. listed = {} /\ request = <<>> /\ panicked = FALSE
    BY Zenon DEF Init
  <2>2. listed \subseteq Ids /\ request \in Seq(Ids)
    BY <2>1
  <2>3. QED
    BY Zenon, <2>1, <2>2
<1>8. wpc \in [Workers -> {"idle", "show", "describe", "update"}]
  BY DEF Init
<1>9. wrel \in [Workers -> Ids \cup {Absent}]
  BY DEF Init
<1>10. wform \in [Workers -> BOOLEAN]
  BY DEF Init
<1>11. wlive \in [Workers -> Seq(Ids)]
  BY DEF Init
<1>6. \A w \in Workers : wpc[w] = "idle"
  BY DEF Init
<1>7. QED
  BY <1>1, <1>2, <1>3, <1>4, <1>5, <1>6, <1>8, <1>9, <1>10, <1>11
     DEF TInv, TypeOK

\* The promoter's variables of worker w keep their types when w goes idle.
LEMMA FinishType ==
    ASSUME NEW w \in Workers, TInv, Finish(w)
    PROVE  /\ wpc' \in [Workers -> {"idle", "show", "describe", "update"}]
           /\ wrel' \in [Workers -> Ids \cup {Absent}]
           /\ wform' \in [Workers -> BOOLEAN]
           /\ wlive' \in [Workers -> Seq(Ids)]
           /\ \A v \in Workers : wpc'[v] # "idle" => wrel'[v] \in Ids
  BY DEF Finish, TInv, TypeOK

LEMMA TInvStep == TInv /\ [Next]_vars => TInv'
<1> SUFFICES ASSUME TInv, [Next]_vars PROVE TInv'
  OBVIOUS
<1> USE DEF TInv, TypeOK
<1>1. CASE ReleaseList
  <2>1. Newest(IndexItems, CreatedOf) \subseteq Ids
    BY DEF Newest, IndexItems
  <2>2. QED
    BY <1>1, <2>1 DEF ReleaseList
<1>2. CASE ReleaseCreate
  <2>1. PICK a \in Amis, m \in BOOLEAN :
            /\ table' = [table EXCEPT ![a] =
                           [ami |-> a, created |-> Absent, app |-> FALSE,
                            manifest |-> m, createdAt |-> TRUE]]
            /\ birth' = [birth EXCEPT ![a] = clock]
    BY Zenon, <1>2 DEF ReleaseCreate
  <2>2. table' \in [Ids -> Record \cup {NoItem}]
    BY <2>1 DEF Record, Ids
  <2>3. birth' \in [Ids -> Times] /\ clock' \in Times
    BY <1>2, <2>1, ReleasesAssumptions DEF ReleaseCreate, Ids, Times
  <2>4. QED
    BY <1>2, <2>2, <2>3 DEF ReleaseCreate
<1>3. CASE ReleaseCopy
  <2>1. PICK src \in Ids, new \in RIds :
            /\ table[src] # NoItem
            /\ table' = [table EXCEPT ![new] =
                           [table[src] EXCEPT !.created =
                               IF @ = Absent THEN Absent ELSE clock]]
            /\ birth' = [birth EXCEPT ![new] = clock]
    BY Zenon, <1>3 DEF ReleaseCopy
  <2> DEFINE old == table[src]
  <2>2. old \in Record
    BY Zenon, <2>1
  <2>3. [old EXCEPT !.created = IF @ = Absent THEN Absent ELSE clock] \in Record
    BY Zenon, <2>2 DEF Record
  <2>4. table' \in [Ids -> Record \cup {NoItem}]
    BY Zenon, <2>1, <2>3 DEF Ids
  <2>5. birth' \in [Ids -> Times] /\ clock' \in Times
    <3>1. clock < MaxTime /\ clock' = clock + 1
      BY Zenon, <1>3 DEF ReleaseCopy
    <3>2. birth' = [birth EXCEPT ![new] = clock]
      BY Zenon, <2>1
    <3>3. QED
      BY <3>1, <3>2, ReleasesAssumptions DEF Ids, Times
  <2>6. QED
    BY <1>3, <2>4, <2>5 DEF ReleaseCopy
<1>4. CASE StackSettles
  <2>1. stack' \in Stack
    BY Zenon, <1>4 DEF StackSettles, Stack
  <2>2. QED
    BY Zenon, <1>4, <2>1 DEF StackSettles
<1>5. ASSUME NEW w \in Workers, releaseFormation(w) PROVE TInv'
  <2>1. PICK r \in Ids :
          \/ /\ Valid(table[r]) /\ ~table[r].manifest
             /\ panicked' = TRUE
             /\ UNCHANGED <<wpc, wrel, wform>>
          \/ /\ wrel' = [wrel EXCEPT ![w] = r]
             /\ wpc' = [wpc EXCEPT ![w] = "show"]
             /\ \/ wform' = [wform EXCEPT ![w] = FALSE]
                \/ /\ Valid(table[r]) /\ table[r].manifest
                   /\ wform' = [wform EXCEPT ![w] = TRUE]
             /\ UNCHANGED panicked
    BY Zenon, <1>5 DEF releaseFormation
  <2>2. /\ wpc' \in [Workers -> {"idle", "show", "describe", "update"}]
        /\ wrel' \in [Workers -> Ids \cup {Absent}]
        /\ wform' \in [Workers -> BOOLEAN]
        /\ panicked' \in BOOLEAN
        /\ \A v \in Workers : wpc'[v] # "idle" => wrel'[v] \in Ids
    BY Zenon, <2>1
  <2>3. QED
    BY <1>5, <2>2 DEF releaseFormation
<1>6. ASSUME NEW w \in Workers, AppShow(w) PROVE TInv'
  <2>1. CASE panicked' = TRUE /\ Finish(w)
    BY Zenon, <1>6, <2>1, FinishType DEF AppShow
  <2>2. CASE wpc' = [wpc EXCEPT ![w] = "describe"]
             /\ UNCHANGED <<wrel, wform, wlive, panicked>>
    BY <1>6, <2>2 DEF AppShow
  <2>3. QED
    BY Zenon, <1>6, <2>1, <2>2 DEF AppShow
<1>7. ASSUME NEW w \in Workers, DescribeStacks(w) PROVE TInv'
  <2>1. CASE Finish(w)
    BY Zenon, <1>7, <2>1, FinishType DEF DescribeStacks
  <2>2. CASE /\ wlive' = [wlive EXCEPT ![w] =
                            IF stack.release = Absent THEN <<>>
                                                       ELSE <<stack.release>>]
             /\ wpc' = [wpc EXCEPT ![w] = "update"]
             /\ UNCHANGED <<wrel, wform>>
    <3>1. wlive' \in [Workers -> Seq(Ids)]
      BY <2>2 DEF Stack
    <3>2. QED
      BY <1>7, <2>2, <3>1 DEF DescribeStacks
  <2>3. QED
    BY <1>7, <2>1, <2>2 DEF DescribeStacks
<1>8. ASSUME NEW w \in Workers, UpdateStack(w) PROVE TInv'
  <2>1. request' \in Seq(Ids)
    BY <1>8 DEF UpdateStack
  <2>2. stack' \in Stack
    BY <1>8, <2>1 DEF UpdateStack, Stack
  <2>3. QED
    BY Zenon, <1>8, <2>1, <2>2, FinishType DEF UpdateStack
<1>9. CASE UNCHANGED vars
  BY <1>9 DEF vars
<1>10. QED
  BY Zenon, <1>1, <1>2, <1>3, <1>4, <1>5, <1>6, <1>7, <1>8, <1>9 DEF Next

\* Every step keeps every variable of the store and the promoters in its
\* type.
THEOREM TypeCorrect == Spec => []TypeOK
<1>1. TInv => TypeOK
  BY DEF TInv
<1>2. QED
  BY InitTInv, TInvStep, <1>1, PTL DEF Spec

-----------------------------------------------------------------------------
(* PromotedReleaseValid.  releaseFormation's "invalid ami" error is only  *)
(* printed, so what keeps the stack pointing at valid releases is that a  *)
(* worker holds a template only for a valid release, that the Release    *)
(* values it read from the stack were valid, and that a valid record     *)
(* stays valid: ReleaseCreate writes an image, and ReleaseCopy writes     *)
(* only under an id that holds nothing.                                   *)

\* No step takes the image away from a stored release.
LEMMA ValidStable ==
    ASSUME TInv, [Next]_vars, NEW r \in Ids, Valid(table[r])
    PROVE  Valid(table'[r])
<1> USE DEF TInv, TypeOK, Valid
<1>1. CASE ReleaseCreate
  <2>1. PICK a \in Amis, m \in BOOLEAN :
            table' = [table EXCEPT ![a] =
                        [ami |-> a, created |-> Absent, app |-> FALSE,
                         manifest |-> m, createdAt |-> TRUE]]
    BY Zenon, <1>1 DEF ReleaseCreate
  <2>2. a # Absent
    BY ReleasesAssumptions DEF Ids
  <2>3. CASE r = a
    <3>1. table'[r] \in Record
      BY <2>1, <2>3 DEF Ids, Record
    <3>2. QED
      BY Zenon, <2>1, <2>2, <2>3, <3>1, ReleasesAssumptions DEF Ids
  <2>4. CASE r # a
    BY <2>1, <2>4 DEF Ids
  <2>5. QED
    BY <2>3, <2>4
<1>2. CASE ReleaseCopy
  <2>1. PICK src \in Ids, new \in RIds :
            /\ table[new] = NoItem
            /\ table' = [table EXCEPT ![new] =
                           [table[src] EXCEPT !.created =
                               IF @ = Absent THEN Absent ELSE clock]]
    BY Zenon, <1>2 DEF ReleaseCopy
  <2>2. r # new
    BY Zenon, <2>1
  <2>3. QED
    BY Zenon, <2>1, <2>2 DEF Ids
<1>3. CASE UNCHANGED table
  BY <1>3
<1>4. QED
  BY Zenon, <1>1, <1>2, <1>3 DEF Next, vars, ReleaseList, StackSettles,
     releaseFormation, AppShow, DescribeStacks, UpdateStack

LEMMA InitIInv == Init => IInv
<1> SUFFICES ASSUME Init PROVE IInv
  OBVIOUS
<1>1. PromotedReleaseValid
  <2>1. PICK r \in {Absent} \cup {id \in Ids : Valid(table[id])} :
            stack = [status |-> "complete", release |-> r, prev |-> r]
    BY Zenon DEF Init
  <2>2. QED
    BY <2>1 DEF PromotedReleaseValid
<1>2. FormValid /\ LiveValid
  <2>1. wform = [w \in Workers |-> FALSE] /\ wlive = [w \in Workers |-> <<>>]
    BY DEF Init
  <2>2. QED
    BY <2>1 DEF FormValid, LiveValid
<1>3. QED
  BY <1>1, <1>2, InitTInv DEF IInv

\* A step that leaves the stack alone and changes the promote state of at
\* most worker w keeps IInv when what w now holds is valid.
LEMMA WorkerFrame ==
    ASSUME IInv, TInv', NEW w \in Workers,
           \A r \in Ids : Valid(table[r]) => Valid(table'[r]),
           UNCHANGED stack,
           \A v \in Workers \ {w} : UNCHANGED <<wrel[v], wform[v], wlive[v]>>,
           wform'[w] => wrel'[w] \in Ids /\ Valid(table'[wrel'[w]]),
           \A i \in 1 .. Len(wlive'[w]) : Valid(table'[wlive'[w][i]])
    PROVE  IInv'
<1> USE DEF TInv, TypeOK
<1>1. PromotedReleaseValid'
  BY DEF IInv, PromotedReleaseValid, Stack
<1>2. FormValid'
  BY Zenon DEF IInv, FormValid
<1>3. LiveValid'
  <2> SUFFICES ASSUME NEW v \in Workers, NEW i \in 1 .. Len(wlive'[v])
               PROVE  Valid(table'[wlive'[v][i]])
    BY DEF LiveValid
  <2>1. CASE v = w
    BY <2>1
  <2>2. CASE v # w
    <3>1. wlive'[v] = wlive[v]
      BY <2>2
    <3>2. wlive[v][i] \in Ids
      BY <3>1 DEF IInv
    <3>3. Valid(table[wlive[v][i]])
      BY <3>1 DEF IInv, LiveValid
    <3>4. QED
      BY <3>1, <3>2, <3>3
  <2>3. QED
    BY <2>1, <2>2
<1>4. QED
  BY <1>1, <1>2, <1>3 DEF IInv

\* A promote that returns keeps IInv.
LEMMA FinishFrame ==
    ASSUME IInv, TInv', NEW w \in Workers,
           \A r \in Ids : Valid(table[r]) => Valid(table'[r]),
           UNCHANGED stack, Finish(w)
    PROVE  IInv'
<1>1. \A v \in Workers \ {w} : UNCHANGED <<wrel[v], wform[v], wlive[v]>>
  BY DEF Finish, IInv, TInv, TypeOK
<1>2. wform'[w] = FALSE /\ wlive'[w] = <<>>
  BY DEF Finish, IInv, TInv, TypeOK
<1>3. QED
  BY <1>1, <1>2, WorkerFrame

LEMMA IInvStep == IInv /\ [Next]_vars => IInv'
<1> SUFFICES ASSUME IInv, [Next]_vars PROVE IInv'
  OBVIOUS
<1>0. TInv'
  BY TInvStep DEF IInv
<1>s. \A r \in Ids : Valid(table[r]) => Valid(table'[r])
  BY ValidStable DEF IInv
<1>1. CASE UNCHANGED <<stack, wrel, wform, wlive>>
  <2>1. PromotedReleaseValid'
    BY <1>1, <1>s DEF IInv, TInv, TypeOK, PromotedReleaseValid, Stack
  <2>2. FormValid'
    BY <1>1, <1>s DEF IInv, FormValid
  <2>3. LiveValid'
    BY <1>1, <1>s DEF IInv, TInv, TypeOK, LiveValid
  <2>4. QED
    BY <1>0, <2>1, <2>2, <2>3 DEF IInv
<1>2. CASE StackSettles
  <2>1. UNCHANGED <<table, wrel, wform, wlive>>
    BY Zenon, <1>2 DEF StackSettles
  <2>0. stack = [status |-> stack.status, release |-> stack.release,
                 prev |-> stack.prev]
    BY DEF IInv, TInv, TypeOK, Stack
  <2>2. /\ stack'.release \in {stack.release, stack.prev}
        /\ stack'.prev \in {stack.release, stack.prev}
    BY Zenon, <1>2, <2>0 DEF StackSettles
  <2>3a. PromotedReleaseValid'
    BY <2>1, <2>2 DEF IInv, PromotedReleaseValid
  <2>3. FormValid' /\ LiveValid'
    BY <2>1 DEF IInv, FormValid, LiveValid
  <2>4. QED
    BY <1>0, <2>3a, <2>3 DEF IInv
<1>3. ASSUME NEW w \in Workers, releaseFormation(w) PROVE IInv'
  <2>1. UNCHANGED <<stack, wlive>>
    BY <1>3 DEF releaseFormation
  <2>2. \A v \in Workers \ {w} : UNCHANGED <<wrel[v], wform[v]>>
    BY <1>3 DEF releaseFormation, IInv, TInv, TypeOK
  <2>3. wform'[w] => wrel'[w] \in Ids /\ Valid(table'[wrel'[w]])
    <3>1. PICK r \in Ids :
            \/ /\ UNCHANGED <<wrel, wform>>
            \/ /\ wrel' = [wrel EXCEPT ![w] = r]
               /\ \/ wform' = [wform EXCEPT ![w] = FALSE]
                  \/ /\ Valid(table[r])
                     /\ wform' = [wform EXCEPT ![w] = TRUE]
      BY <1>3 DEF releaseFormation
    <3>2. UNCHANGED table
      BY <1>3 DEF releaseFormation
    <3>3. QED
      BY <3>1, <3>2 DEF IInv, FormValid, TInv, TypeOK
  <2>4. \A i \in 1 .. Len(wlive'[w]) : Valid(table'[wlive'[w][i]])
    BY <2>1, <1>s DEF IInv, LiveValid, TInv, TypeOK
  <2>5. QED
    BY <1>0, <1>s, <2>1, <2>2, <2>3, <2>4, WorkerFrame
<1>4. ASSUME NEW w \in Workers, AppShow(w) PROVE IInv'
  <2>1. CASE Finish(w)
    <3>1. UNCHANGED <<stack, table>>
      BY <1>4 DEF AppShow
    <3>2. QED
      BY <1>0, <1>s, <2>1, <3>1, FinishFrame
  <2>4. CASE UNCHANGED <<wrel, wform, wlive>>
    BY <1>1, <1>4, <2>4 DEF AppShow
  <2>5. QED
    BY <1>4, <2>1, <2>4 DEF AppShow
<1>5. ASSUME NEW w \in Workers, DescribeStacks(w) PROVE IInv'
  <2>1. UNCHANGED <<stack, table>>
    BY <1>5 DEF DescribeStacks
  <2>2. CASE Finish(w)
    BY <1>0, <1>s, <2>1, <2>2, FinishFrame
  <2>3. CASE /\ wlive' = [wlive EXCEPT ![w] =
                            IF stack.release = Absent THEN <<>>
                                                       ELSE <<stack.release>>]
             /\ UNCHANGED <<wrel, wform>>
    <3>1. \A i \in 1 .. Len(wlive'[w]) : Valid(table'[wlive'[w][i]])
      BY <2>1, <2>3 DEF IInv, PromotedReleaseValid, TInv, TypeOK
    <3>2. QED
      BY <1>0, <1>s, <2>1, <2>3, <3>1, WorkerFrame DEF IInv, FormValid
  <2>4. QED
    BY <1>5, <2>2, <2>3 DEF DescribeStacks
<1>6. ASSUME NEW w \in Workers, UpdateStack(w) PROVE IInv'
  <2>1. UNCHANGED table /\ Finish(w)
    BY <1>6 DEF UpdateStack
  <2>2. CASE UNCHANGED stack
    BY <1>0, <1>s, <2>1, <2>2, FinishFrame
  <2>3. CASE /\ wform[w]
             /\ \E v \in {request'[i] : i \in 1 .. Len(request')} :
                   stack' = [status |-> "updating", release |-> v,
                             prev |-> stack.release]
    <3>1. PICK v \in {request'[i] : i \in 1 .. Len(request')} :
                stack' = [status |-> "updating", release |-> v,
                          prev |-> stack.release]
      BY Zenon, <2>3
    <3>2. request' = Append(wlive[w], wrel[w])
      BY <1>6 DEF UpdateStack
    <3>3. wrel[w] \in Ids /\ Valid(table[wrel[w]])
      BY <2>3 DEF IInv, FormValid
    <3>4. \A i \in 1 .. Len(wlive[w]) : Valid(table[wlive[w][i]])
      BY DEF IInv, LiveValid
    <3>5. \A i \in 1 .. Len(request') : Valid(table[request'[i]])
      BY <3>2, <3>3, <3>4 DEF IInv, TInv, TypeOK
    <3>6. Valid(table'[v])
      BY <2>1, <3>1, <3>5
    <3>7. PromotedReleaseValid'
      BY <2>1, <3>1, <3>6 DEF IInv, PromotedReleaseValid
    <3>8. FormValid' /\ LiveValid'
      BY <2>1 DEF Finish, IInv, FormValid, LiveValid, TInv, TypeOK
    <3>9. QED
      BY <1>0, <3>7, <3>8 DEF IInv
  <2>4. QED
    BY <1>6, <2>2, <2>3 DEF UpdateStack
<1>7. QED
  BY Zenon, <1>1, <1>2, <1>3, <1>4, <1>5, <1>6 DEF Next, vars, ReleaseList,
     ReleaseCreate, ReleaseCopy

\* ReleasePromote: with any number of concurrent promotes, creates and
\* copies, the stack's Release parameter and the release a rollback
\* returns to always name a stored release that has an image.
THEOREM PromotedReleaseValidInvariant == Spec => []PromotedReleaseValid
<1>1. IInv => PromotedReleaseValid
  BY DEF IInv
<1>2. QED
  BY InitIInv, IInvStep, <1>1, PTL DEF Spec

=============================================================================
