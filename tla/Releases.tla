----------------------------- MODULE Releases -----------------------------
(***************************************************************************)
(* The release store and promoter of one app (the provider's releases.go, *)
(* src/unnamed/part_000 lines 1-145): the app's DynamoDB releases table   *)
(* (ReleaseList, ReleaseCreate, ReleaseCopy) and ReleasePromote, which    *)
(* renders the app template and updates the app's CloudFormation stack   *)
(* with its live parameters plus Release = the promoted release.          *)
(*                                                                         *)
(* Every call is one API request; requests run concurrently.  List,       *)
(* Create and Copy are a single read or write of the table and are atomic *)
(* steps; a failed one changes nothing and is left out.  ReleasePromote   *)
(* makes four calls (GetItem/appParams/template, AppShow, DescribeStacks, *)
(* UpdateStack) and is a sequence of steps of a worker.  The table's and *)
(* the stack's behaviour are not in src/ and follow spec.md 4.5, 4.6 and *)
(* 6: a query on the app.created index returns the items that have both   *)
(* attributes, newest first; UpdateStack is refused while an update is in *)
(* progress and without a template body, and an accepted update later    *)
(* completes or rolls back.                                               *)
(*                                                                         *)
(* A record is abstracted to the attributes the code reads: ami, created, *)
(* whether it has app, manifest and created-at.  Time is the counter      *)
(* clock; birth is a history variable: when each record was written.     *)
(***************************************************************************)
EXTENDS Naturals, Sequences, FiniteSets

CONSTANTS
    Amis,         \* image ids; ReleaseCreate stores a release under its ami
    RIds,         \* ids generateId("R", 9) may return
    Workers,      \* API requests that may run ReleasePromote concurrently
    InitCreated,  \* releases the builds wrote before: id -> created time
    PageSize,     \* q.AddLimit(5)
    MaxTime,      \* bound on the clock
    Absent,       \* a missing attribute or parameter
    NoItem        \* no item under that key

Ids == Amis \cup RIds
Times == 0 .. MaxTime

Record == [ami : Amis \cup {Absent}, created : Times \cup {Absent},
           app : BOOLEAN, manifest : BOOLEAN, createdAt : BOOLEAN]

ASSUME ReleasesAssumptions ==
    /\ Amis \cap RIds = {}
    /\ DOMAIN InitCreated \subseteq RIds
    /\ InitCreated \in [DOMAIN InitCreated -> 1 .. Cardinality(DOMAIN InitCreated)]
    /\ \A i, j \in DOMAIN InitCreated : InitCreated[i] = InitCreated[j] => i = j
    /\ IsFiniteSet(DOMAIN InitCreated) /\ MaxTime \in Nat
    /\ Cardinality(DOMAIN InitCreated) < MaxTime
    /\ PageSize \in Nat \ {0}
    /\ Absent \notin Ids \cup Times /\ NoItem \notin Ids \cup Record

\* A release promote can render a template for.
Valid(item) == item # NoItem /\ item.ami # Absent

VARIABLES
    table,     \* the releases table: id -> record
    birth,     \* history: clock value when the item at id was written
    clock,     \* time.Now()
    listed,    \* the ids the last ReleaseList returned
    stack,     \* the app stack: status, Release parameter, and the one before
    request,   \* Release values of the last UpdateStack request, in order
    wpc,       \* ReleasePromote step of each worker
    wrel,      \* release a worker promotes
    wform,     \* the worker's releaseFormation returned a template
    wlive,     \* Release values among the live parameters it described
    panicked   \* some request dereferenced a nil pointer

vars == <<table, birth, clock, listed, stack, request, wpc, wrel, wform, wlive,
          panicked>>

Stack == [status : {"complete", "updating"}, release : Ids \cup {Absent},
          prev : Ids \cup {Absent}]

TypeOK ==
    /\ table \in [Ids -> Record \cup {NoItem}]
    /\ birth \in [Ids -> Times]
    /\ clock \in Times
    /\ listed \subseteq Ids
    /\ stack \in Stack
    /\ request \in Seq(Ids)
    /\ wpc \in [Workers -> {"idle", "show", "describe", "update"}]
    /\ wrel \in [Workers -> Ids \cup {Absent}]
    /\ wform \in [Workers -> BOOLEAN]
    /\ wlive \in [Workers -> Seq(Ids)]
    /\ panicked \in BOOLEAN

\* Releases written by builds: app and created set, ami possibly missing.
InitTables ==
    {t \in [Ids -> Record \cup {NoItem}] :
        \A id \in Ids :
            IF id \in DOMAIN InitCreated
            THEN /\ t[id] # NoItem
                 /\ t[id].created = InitCreated[id]
                 /\ t[id].app /\ ~t[id].createdAt
            ELSE t[id] = NoItem}

Init ==
    /\ table \in InitTables
    /\ birth = [id \in Ids |-> IF id \in DOMAIN InitCreated
                               THEN InitCreated[id] ELSE 0]
    /\ clock = Cardinality(DOMAIN InitCreated) + 1
    /\ listed = {}
    /\ \E r \in {Absent} \cup {id \in Ids : Valid(table[id])} :
          stack = [status |-> "complete", release |-> r, prev |-> r]
    /\ request = <<>>
    /\ wpc = [w \in Workers |-> "idle"]
    /\ wrel = [w \in Workers |-> Absent]
    /\ wform = [w \in Workers |-> FALSE]
    /\ wlive = [w \in Workers |-> <<>>]
    /\ panicked = FALSE

\* A worker that is idle again after its promote returned.
Finish(w) ==
    /\ wpc' = [wpc EXCEPT ![w] = "idle"]
    /\ wrel' = [wrel EXCEPT ![w] = Absent]
    /\ wform' = [wform EXCEPT ![w] = FALSE]
    /\ wlive' = [wlive EXCEPT ![w] = <<>>]

-----------------------------------------------------------------------------
(* The release store.                                                      *)

\* The items the app.created index holds: those with both attributes.
IndexItems == {id \in Ids : table[id] # NoItem /\ table[id].app
                            /\ table[id].created # Absent}

\* The PageSize items of S with the largest key[id] (keys are distinct).
Newest(S, key) ==
    {id \in S : Cardinality({j \in S : key[j] > key[id]}) < PageSize}

\* The created attribute of every indexed item, as time.Parse reads it.
CreatedOf == [id \in IndexItems |-> table[id].created]

\* ReleaseList: query app.created descending with limit PageSize; every
\* created value is one the code formatted, so time.Parse succeeds.
ReleaseList ==
    /\ listed' = Newest(IndexItems, CreatedOf)
    /\ UNCHANGED <<table, birth, clock, stack, request, wpc, wrel, wform, wlive,
                   panicked>>

\* ReleaseCreate: PutItem(ami, "", attributes) stores the release under the
\* key id = ami, with "created-at" = "now" and the options (a manifest).
ReleaseCreate ==
    /\ clock < MaxTime
    /\ \E a \in Amis, m \in BOOLEAN :
          /\ table' = [table EXCEPT ![a] =
                         [ami |-> a, created |-> Absent, app |-> FALSE,
                          manifest |-> m, createdAt |-> TRUE]]
          /\ birth' = [birth EXCEPT ![a] = clock]
    /\ clock' = clock + 1
    /\ UNCHANGED <<listed, stack, request, wpc, wrel, wform, wlive, panicked>>

\* ReleaseCopy: GetItem(release), then every attribute is carried over
\* except id (a fresh generateId("R", 9)) and created (time.Now()), which
\* is replaced only when the source has it.
ReleaseCopy ==
    /\ clock < MaxTime
    /\ \E src \in Ids, new \in RIds :
          /\ table[src] # NoItem
          /\ table[new] = NoItem
          /\ table' = [table EXCEPT ![new] =
                         [table[src] EXCEPT !.created =
                             IF @ = Absent THEN Absent ELSE clock]]
          /\ birth' = [birth EXCEPT ![new] = clock]
    /\ clock' = clock + 1
    /\ UNCHANGED <<listed, stack, request, wpc, wrel, wform, wlive, panicked>>

-----------------------------------------------------------------------------
(* ReleasePromote, one worker per request.                                *)

\* Mutant of releaseFormation: the "invalid ami" check is missing.
releaseFormationNoAmiCheck(w) ==
    /\ wpc[w] = "idle"
    /\ \E r \in Ids :
          \/ /\ table[r] # NoItem /\ ~table[r].manifest
             /\ panicked' = TRUE
             /\ UNCHANGED <<wpc, wrel, wform>>
          \/ /\ wrel' = [wrel EXCEPT ![w] = r]
             /\ wpc' = [wpc EXCEPT ![w] = "show"]
             /\ \/ wform' = [wform EXCEPT ![w] = FALSE]
                \/ /\ table[r] # NoItem /\ table[r].manifest
                   /\ wform' = [wform EXCEPT ![w] = TRUE]
             /\ UNCHANGED panicked
    /\ UNCHANGED <<table, birth, clock, listed, stack, request, wlive>>

\* releaseFormation: GetItem, "invalid ami" for an empty ami, appParams,
\* NewManifest(drelease["manifest"].Value) - a nil pointer dereference
\* when the item has no manifest - and buildTemplate.  ReleasePromote
\* prints an error of releaseFormation and carries on with formation "".
releaseFormation(w) ==
    /\ wpc[w] = "idle"
    /\ \E r \in Ids :
          \/ /\ Valid(table[r]) /\ ~table[r].manifest
             /\ panicked' = TRUE
             /\ UNCHANGED <<wpc, wrel, wform>>
          \/ /\ wrel' = [wrel EXCEPT ![w] = r]
             /\ wpc' = [wpc EXCEPT ![w] = "show"]
             /\ \/ wform' = [wform EXCEPT ![w] = FALSE]
                \/ /\ Valid(table[r]) /\ table[r].manifest
                   /\ wform' = [wform EXCEPT ![w] = TRUE]
             /\ UNCHANGED panicked
    /\ UNCHANGED <<table, birth, clock, listed, stack, request, wlive>>

\* AppShow: a.Repository is assigned before err is checked, so a failing
\* AppShow dereferences a nil *App.
AppShow(w) ==
    /\ wpc[w] = "show"
    /\ \/ panicked' = TRUE /\ Finish(w)
       \/ wpc' = [wpc EXCEPT ![w] = "describe"]
          /\ UNCHANGED <<wrel, wform, wlive, panicked>>
    /\ UNCHANGED <<table, birth, clock, listed, stack, request>>

\* Mutant of DescribeStacks: a stack without a Release parameter is read
\* as having an empty one.
DescribeStacksEmptyRelease(w) ==
    /\ wpc[w] = "describe"
    /\ \/ Finish(w)
       \/ /\ wlive' = [wlive EXCEPT ![w] = <<stack.release>>]
          /\ wpc' = [wpc EXCEPT ![w] = "update"]
          /\ UNCHANGED <<wrel, wform>>
    /\ UNCHANGED <<table, birth, clock, listed, stack, request, panicked>>

\* DescribeStacks: the live parameters, among them Release if it is set.
DescribeStacks(w) ==
    /\ wpc[w] = "describe"
    /\ \/ Finish(w)
       \/ /\ wlive' = [wlive EXCEPT ![w] =
                         IF stack.release = Absent THEN <<>>
                                                    ELSE <<stack.release>>]
          /\ wpc' = [wpc EXCEPT ![w] = "update"]
          /\ UNCHANGED <<wrel, wform>>
    /\ UNCHANGED <<table, birth, clock, listed, stack, request, panicked>>

\* UpdateStack with TemplateBody formation and Parameters = the live
\* parameters with Release = wrel appended.  CloudFormation refuses it
\* (an update in progress, no template, ...) or starts the update; which
\* of two Release values it keeps is not specified.
UpdateStack(w) ==
    /\ wpc[w] = "update"
    /\ request' = Append(wlive[w], wrel[w])
    /\ \/ UNCHANGED stack
       \/ /\ wform[w] /\ stack.status = "complete"
          /\ \E v \in {request'[i] : i \in 1 .. Len(request')} :
                stack' = [status |-> "updating", release |-> v,
                          prev |-> stack.release]
    /\ Finish(w)
    /\ UNCHANGED <<table, birth, clock, listed, panicked>>

\* CloudFormation completes the update or rolls it back.
StackSettles ==
    /\ stack.status = "updating"
    /\ \/ stack' = [stack EXCEPT !.status = "complete", !.prev = stack.release]
       \/ stack' = [stack EXCEPT !.status = "complete", !.release = stack.prev]
    /\ UNCHANGED <<table, birth, clock, listed, request, wpc, wrel, wform, wlive,
                   panicked>>

Next ==
    \/ ReleaseList \/ ReleaseCreate \/ ReleaseCopy \/ StackSettles
    \/ \E w \in Workers :
          releaseFormation(w) \/ AppShow(w) \/ DescribeStacks(w) \/ UpdateStack(w)

Spec == Init /\ [][Next]_vars

-----------------------------------------------------------------------------
(* Properties.                                                             *)

\* ReleasePromote/releaseFormation: the stack's Release parameter (and the
\* one a rollback returns to) always names a stored release that has an
\* image: releaseFormation's "invalid ami" error is ignored, so this rests
\* on UpdateStack refusing the empty template that follows it.
PromotedReleaseValid ==
    \A r \in {stack.release, stack.prev} \ {Absent} : Valid(table[r])

\* spec.md 4.5: ReleaseList returns the PageSize most recent releases of
\* the app (the store always sets the creation timestamp).
ListShowsNewest ==
    [][listed' # listed =>
         listed' = Newest({id \in Ids : table[id] # NoItem}, birth)]_vars

\* spec.md 4.6 and 9: the update's parameter set is the live set with
\* Release overridden, so it names Release once.
SingleReleaseParameter == Len(request) <= 1

\* spec.md 7: every failure of a promote is a typed error; no request
\* crashes on a nil pointer.
PromoteNeverPanics == ~panicked

=============================================================================
