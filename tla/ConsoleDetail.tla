-------------------------- MODULE ConsoleDetail --------------------------
(***************************************************************************)
(* The console's task detail page beside the task center.                  *)
(*                                                                         *)
(* The page reads a task, its result and its risk summary by three GETs at *)
(* a time, each served at a moment of its own, and composes them.  The     *)
(* task center is here what its clients may rely on, TaskLifecycle: that   *)
(* the three carry one status at any moment is ReadsAgree of TaskCenter.   *)
(*                                                                         *)
(* React keeps the page, and its state, when the URL moves from one task   *)
(* to another; the effect of the former task is cleaned up, its requests   *)
(* are aborted, but their promise is fulfilled all the same.               *)
(*                                                                         *)
(* A GET brings a status here; which payloads carry it through the two     *)
(* normalisers is the matter of Contracts.                                 *)
(***************************************************************************)
EXTENDS TaskLifecycle, Contracts

CONSTANTS
    MockTasks,  \* the task ids the console has mocks of: no backend knows them
    Troubles,   \* what may become of a GET besides being served
    MaxVisits   \* bound: how many times a task page is opened

\* The backend cannot be reached, or answers what the contract does not allow.
ASSUME TroublesAssumption == Troubles \subseteq {"unreachable", "invalid"}
ASSUME MocksAssumption == MockTasks \cap Requests = {}
ASSUME VisitsAssumption == MaxVisits \in Nat \ {0}

VARIABLES
    route,      \* the task the URL names, or NoTask on any other page
    loads,      \* what each run of the page's effect fetches
    opened,     \* how many there have been
    detail,     \* the page's state: what it shows,
    loading     \* and whether it shows that it is waiting

consoleVars == <<route, loads, opened, detail, loading>>
allVars == <<lifecycleVars, consoleVars>>

---------------------------------------------------------------------------
(* The three GETs and what the api client makes of their answers *)

Tasks == Requests \cup MockTasks
NoTask == "no task"

ASSUME NoTaskAssumption == NoTask \notin Tasks

Parts == {"task", "result", "riskSummary"}

\* What a GET is answered: the status the part carries, or why there is none.
Failures == {"notFound", "unreachable", "invalid"}
Served == Statuses \ {"absent"}
GetAnswers == {"waiting"} \cup Served \cup Failures

\* requestApiDataWithStatus: a 404 is "unavailable" as well.
RequestStatus(a) ==
    IF a \in Served THEN "ok" ELSE IF a = "invalid" THEN "invalid" ELSE "unavailable"

\* What the backend answers for a task at this moment.
Read(id) ==
    IF id \in Requests /\ status[id] # "absent" THEN status[id] ELSE "notFound"

\* The task, the answers to its three GETs, whether the effect is still the
\* page's, and the status the task had when the effect ran.
Loads ==
    [ id : Tasks, answers : [Parts -> GetAnswers], isActive : BOOLEAN, since : Statuses ]
NoLoad ==
    [ id |-> NoTask, answers |-> [p \in Parts |-> "waiting"], isActive |-> FALSE,
      since |-> "absent" ]

Sources == {"api", "degraded", "integration-error", "mock"}
Details == [id : Tasks, source : Sources, parts : [Parts -> Served \cup {"mock"}]]
NoDetail == [id |-> NoTask]

(* getTaskDetail: a part that is missing is made from the task; without a  *)
(* task the mocks are shown, and without mocks nothing.                    *)
Compose(id, answers) ==
    LET request == [p \in Parts |-> RequestStatus(answers[p])]
    IN  IF request["task"] = "ok"
        THEN [ id |-> id,
               source |-> IF \A p \in Parts : request[p] = "ok" THEN "api" ELSE "degraded",
               parts |-> [p \in Parts |->
                   IF request[p] = "ok" THEN answers[p] ELSE answers["task"]] ]
        ELSE IF id \in MockTasks
        THEN [ id |-> id,
               source |-> IF \E p \in Parts : request[p] = "invalid"
                          THEN "integration-error" ELSE "mock",
               parts |-> [p \in Parts |-> "mock"] ]
        ELSE NoDetail

---------------------------------------------------------------------------
(* The actions *)

ConsoleInit ==
    /\ LifecycleInit
    /\ route = NoTask
    /\ loads = [l \in 1..MaxVisits |-> NoLoad]
    /\ opened = 0
    /\ detail = NoDetail
    /\ loading = TRUE

\* Cleaning up: the effect is no longer the page's, and its GETs are aborted.
Aborted(load) ==
    [ load EXCEPT !.isActive = FALSE,
                  !.answers = [p \in Parts |->
                      IF load.id # NoTask /\ @[p] = "waiting" THEN "unreachable" ELSE @[p]] ]

Deactivated == [l \in 1..MaxVisits |-> Aborted(loads[l])]

\* Mutant: answers already fetched for the same task are used again.
FetchingFromCache(id) ==
    LET known(p) == {loads[l].answers[p] : l \in {k \in 1..opened : loads[k].id = id}}
                        \ {"waiting"}
    IN  [ id |-> id, isActive |-> TRUE,
          answers |-> [p \in Parts |->
              IF known(p) = {} THEN "waiting" ELSE CHOOSE a \in known(p) : TRUE],
          since |-> IF id \in Requests THEN status[id] ELSE "absent" ]

\* The three GETs an effect sends out.
Fetching(id) ==
    [ id |-> id, isActive |-> TRUE, answers |-> [p \in Parts |-> "waiting"],
      since |-> IF id \in Requests THEN status[id] ELSE "absent" ]

\* From another page: the page is mounted with fresh state.  From the page of
\* another task: it keeps its state, and does not show that it is waiting.
Open(id) ==
    /\ route # id
    /\ opened < MaxVisits
    /\ route' = id
    /\ opened' = opened + 1
    /\ loads' = [Deactivated EXCEPT ![opened + 1] = Fetching(id)]
    /\ IF route = NoTask
       THEN detail' = NoDetail /\ loading' = TRUE
       ELSE UNCHANGED <<detail, loading>>
    /\ UNCHANGED lifecycleVars

\* The page is unmounted and its state is lost.
Leave ==
    /\ route # NoTask
    /\ route' = NoTask
    /\ loads' = Deactivated
    /\ detail' = NoDetail
    /\ loading' = TRUE
    /\ UNCHANGED <<opened, lifecycleVars>>

\* A GET is answered, or something becomes of it.
AnswerGet(l, p) ==
    /\ loads[l].isActive
    /\ loads[l].answers[p] = "waiting"
    /\ \E a \in {Read(loads[l].id)} \cup Troubles :
        loads' = [loads EXCEPT ![l].answers[p] = a]
    /\ UNCHANGED <<route, opened, detail, loading, lifecycleVars>>

Complete(l) == loads[l].id # NoTask /\ \A p \in Parts : loads[l].answers[p] # "waiting"

\* Mutant: whatever has been fetched is shown, whoever asked for it.
ShowAny(l) ==
    /\ Complete(l)
    /\ route # NoTask
    /\ detail' = Compose(loads[l].id, loads[l].answers)
    /\ loading' = FALSE
    /\ loads' = [loads EXCEPT ![l] = NoLoad]
    /\ UNCHANGED <<route, opened, lifecycleVars>>

\* Mutant: without a task the promise is rejected, and nobody catches it.
ShowTaskOnly(l) ==
    /\ Complete(l)
    /\ IF loads[l].isActive /\ RequestStatus(loads[l].answers["task"]) = "ok"
       THEN detail' = Compose(loads[l].id, loads[l].answers) /\ loading' = FALSE
       ELSE UNCHANGED <<detail, loading>>
    /\ loads' = [loads EXCEPT ![l] = NoLoad]
    /\ UNCHANGED <<route, opened, lifecycleVars>>

\* All three are in: the page shows them, if the effect is still its own.
Show(l) ==
    /\ Complete(l)
    /\ IF loads[l].isActive
       THEN detail' = Compose(loads[l].id, loads[l].answers) /\ loading' = FALSE
       ELSE UNCHANGED <<detail, loading>>
    /\ loads' = [loads EXCEPT ![l] = NoLoad]
    /\ UNCHANGED <<route, opened, lifecycleVars>>

Backend == LifecycleNext /\ UNCHANGED consoleVars

ConsoleNext ==
    \/ Backend
    \/ Leave
    \/ \E id \in Tasks : Open(id)
    \/ \E l \in 1..MaxVisits : Show(l) \/ \E p \in Parts : AnswerGet(l, p)

ConsoleSpec == ConsoleInit /\ [][ConsoleNext]_allVars

\* The server serves every GET, or the browser gives it up.
FairConsoleSpec ==
    /\ ConsoleSpec
    /\ \A l \in 1..MaxVisits :
        WF_allVars(Show(l)) /\ \A p \in Parts : WF_allVars(AnswerGet(l, p))

---------------------------------------------------------------------------
(* Properties *)

ConsoleTypeOK ==
    /\ LifecycleTypeOK
    /\ route \in Tasks \cup {NoTask}
    /\ loads \in [1..MaxVisits -> Loads \cup {NoLoad}]
    /\ opened \in 0..MaxVisits
    /\ detail \in Details \cup {NoDetail}
    /\ loading \in BOOLEAN

\* How far a task has got: a status that is read later is never lower.
Rank(s) == CASE s = "absent" -> 0 [] s = "pending" -> 1 [] s \in Settled -> 2

ActiveLoads == {l \in 1..MaxVisits : loads[l].isActive}

(* A page that waits for nothing shows the task its URL names, or that     *)
(* there is none: the late answer for a task that has been left is dropped *)
(* (the isActive flag of the effect, TaskDetailPage).                      *)
PageShowsItsTask ==
    /\ ActiveLoads = {} /\ route # NoTask => ~loading /\ detail.id \in {route, NoTask}
    /\ \A l \in ActiveLoads : loads[l].id = route
    /\ \A l, other \in ActiveLoads : l = other

(* What a GET of a load has brought is never older than the visit that     *)
(* sent it nor ahead of the task center; so a task whose POST was answered *)
(* before is shown as it is for good, and its three parts agree.  What is  *)
(* on the page meanwhile, left from an earlier visit, is not newer than    *)
(* the visit (getTaskDetail, the finality of TaskLifecycle).               *)
AnswersAreOfTheVisit ==
    /\ ConsoleTypeOK
    /\ \A l \in 1..MaxVisits : loads[l].id \in Requests =>
        /\ Rank(loads[l].since) <= Rank(status[loads[l].id])
        /\ loads[l].since \in Settled => status[loads[l].id] = loads[l].since
    /\ \A l \in 1..MaxVisits, p \in Parts :
        loads[l].answers[p] \in Served =>
            /\ loads[l].id \in Requests
            /\ Rank(loads[l].since) <= Rank(loads[l].answers[p])
            /\ Rank(loads[l].answers[p]) <= Rank(status[loads[l].id])
            /\ loads[l].since \in Settled => loads[l].answers[p] = status[loads[l].id]
    /\ detail.id \in Requests =>
        \A p \in Parts :
            /\ detail.parts[p] \in Served
            /\ Rank(detail.parts[p]) <= Rank(status[detail.id])
            /\ \A l \in ActiveLoads : loads[l].id = detail.id =>
                  Rank(detail.parts[p]) <= Rank(loads[l].since)

(* A page that shows a task never goes back in the task's life, whichever  *)
(* way the visits to it overlap (the effect's cleanup in TaskDetailPage).  *)
PartsNeverGoBack ==
    [][ detail # NoDetail /\ detail'.id = detail.id /\ detail.id \in Requests =>
          \A p \in Parts : Rank(detail.parts[p]) <= Rank(detail'.parts[p]) ]_allVars

(* The inductive invariant is what the two properties on states say.       *)
ConsoleInv == PageShowsItsTask /\ AnswersAreOfTheVisit

(* What the backend lets pass the console can show: no task, context or    *)
(* result that it serves is "invalid" (Contracts).  It does not depend on  *)
(* the state, so it is looked at where every behaviour begins.             *)
PayloadsAreReadable == ConsoleInit => ConsoleReadsTheBackend

(* The page stops showing that it is waiting, or is left: whatever happens *)
(* to the three GETs, their promise is fulfilled (requestApiDataWithStatus *)
(* catches everything).                                                    *)
LoadingEnds == loading /\ route # NoTask ~> ~loading \/ route = NoTask

---------------------------------------------------------------------------
(* What the documents say and the code does not do: each is violated.      *)

(* docs/api-contract.md:1367: "contract-invalid responses must stay        *)
(* visible".  An invalid task that has no mock is shown as one that is not *)
(* available yet.                                                          *)
InvalidStaysVisible ==
    \A l \in ActiveLoads : Complete(l) /\ loads[l].answers["task"] = "invalid" =>
        Compose(loads[l].id, loads[l].answers) # NoDetail

===========================================================================
