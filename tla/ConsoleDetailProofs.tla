------------------------ MODULE ConsoleDetailProofs ------------------------
(***************************************************************************)
(* Proofs about ConsoleDetail, for any tasks, mocks, troubles and number   *)
(* of visits.                                                              *)
(***************************************************************************)
EXTENDS ConsoleDetail, ContractsProofs

---------------------------------------------------------------------------
(* What the task center promises about a task that is read                 *)

\* The ranks of the statuses.
LEMMA Ranks ==
    /\ Rank("absent") = 0 /\ Rank("pending") = 1
    /\ \A s \in Settled : Rank(s) = 2
    /\ \A s \in Statuses : Rank(s) \in 0..2
    /\ \A s \in Statuses : Rank(s) = 2 => s \in Settled
<1>1. Rank("absent") = 0 /\ Rank("pending") = 1
  BY DEF Rank, Settled
<1>2. \A s \in Settled : Rank(s) = 2
  BY DEF Rank, Settled
<1> QED
  BY <1>1, <1>2 DEF Statuses

\* A step of the task center takes no task back, and none that is settled anywhere.
LEMMA StatusMovesOn ==
    ASSUME LifecycleTypeOK, LifecycleNext
    PROVE  /\ LifecycleTypeOK'
           /\ \A r \in Requests : /\ Rank(status[r]) <= Rank(status'[r])
                                  /\ status[r] \in Settled => status'[r] = status[r]
<1>1. PICK r \in Requests : \/ Refuse(r) \/ Publish(r) \/ PublishAndAnswer(r)
                            \/ SettleAndAnswer(r) \/ Abandon(r)
  BY DEF LifecycleNext
<1>2. LifecycleTypeOK'
  BY <1>1 DEF LifecycleTypeOK, Refuse, Publish, PublishAndAnswer, SettleAndAnswer, Abandon,
              Statuses, Answers, Settled
<1>3. \A s \in Requests : \/ status'[s] = status[s]
                          \/ status[s] = "absent" /\ status'[s] \in Statuses
                          \/ status[s] = "pending" /\ status'[s] \in Settled
  BY <1>1 DEF LifecycleTypeOK, Refuse, Publish, PublishAndAnswer, SettleAndAnswer, Abandon,
              Statuses, Settled
<1>4. \A s \in Requests : status[s] \in Statuses
  BY DEF LifecycleTypeOK
<1>5. "absent" \notin Settled /\ "pending" \notin Settled
  BY DEF Settled
<1> QED
  BY <1>2, <1>3, <1>4, <1>5, Ranks

\* What a GET may be answered: the status of the task, or no status at all.
LEMMA ReadIs ==
    ASSUME LifecycleTypeOK, NEW id, NEW a \in {Read(id)} \cup Troubles
    PROVE  /\ a \in GetAnswers
           /\ a # "waiting"
           /\ a \in Served => id \in Requests /\ a = status[id]
<1>1. \A t \in Troubles \cup {"notFound"} :
        t \in Failures /\ t \notin Served /\ t # "waiting"
  BY TroublesAssumption DEF Failures, Served, Statuses, Settled
<1>2. CASE a \in Troubles \cup {"notFound"}
  BY <1>1, <1>2 DEF GetAnswers
<1>3. CASE a \notin Troubles \cup {"notFound"}
  <2>1. id \in Requests /\ status[id] # "absent" /\ a = status[id]
    BY <1>3 DEF Read
  <2>2. a \in Served
    BY <2>1 DEF LifecycleTypeOK, Served
  <2>3. "waiting" \notin Served
    BY DEF Served, Statuses, Settled
  <2> QED
    BY <2>1, <2>2, <2>3 DEF GetAnswers
<1> QED
  BY <1>2, <1>3

---------------------------------------------------------------------------
(* The loads                                                               *)

\* Aborting a load leaves what it is for and what it was served.
LEMMA AbortedIs ==
    ASSUME NEW load \in Loads \cup {NoLoad}
    PROVE  /\ Aborted(load) \in Loads \cup {NoLoad}
           /\ Aborted(load).id = load.id
           /\ Aborted(load).since = load.since
           /\ ~Aborted(load).isActive
           /\ \A p \in Parts : Aborted(load).answers[p] \in Served =>
                                 Aborted(load).answers[p] = load.answers[p]
<1>1. "unreachable" \in GetAnswers /\ "unreachable" \notin Served /\ "waiting" \in GetAnswers
  BY DEF GetAnswers, Failures, Served, Statuses, Settled
<1>2. CASE load = NoLoad
  <2>1. load.id = NoTask /\ load.isActive = FALSE
        /\ load.answers = [p \in Parts |-> "waiting"]
    BY <1>2 DEF NoLoad
  <2>2. Aborted(load) = [load EXCEPT !.isActive = FALSE,
                                     !.answers = [p \in Parts |-> "waiting"]]
    BY <2>1 DEF Aborted
  <2>3. Aborted(load) = NoLoad
    BY <1>2, <2>2 DEF NoLoad
  <2> QED
    BY <1>2, <2>1, <2>3
<1>3. CASE load \in Loads
  <2> DEFINE answers == [p \in Parts |->
                IF load.id # NoTask /\ load.answers[p] = "waiting"
                THEN "unreachable" ELSE load.answers[p]]
  <2>1. answers \in [Parts -> GetAnswers]
    BY <1>1, <1>3 DEF Loads
  <2>2. Aborted(load) = [load EXCEPT !.isActive = FALSE, !.answers = answers]
    BY DEF Aborted
  <2>3. \A p \in Parts : answers[p] \in Served => answers[p] = load.answers[p]
    BY <1>1
  <2> HIDE DEF answers
  <2>4. Aborted(load) = [id |-> load.id, answers |-> answers, isActive |-> FALSE,
                         since |-> load.since]
    BY <1>3, <2>2 DEF Loads
  <2> QED
    BY <1>3, <2>1, <2>3, <2>4 DEF Loads
<1> QED
  BY <1>2, <1>3

\* An effect that starts has been answered nothing.
LEMMA FetchingIs ==
    ASSUME LifecycleTypeOK, NEW id \in Tasks
    PROVE  /\ Fetching(id) \in Loads
           /\ Fetching(id).id = id
           /\ Fetching(id).isActive
           /\ \A p \in Parts : Fetching(id).answers[p] \notin Served
           /\ id \in Requests => Fetching(id).since = status[id]
<1>1. "waiting" \in GetAnswers /\ "waiting" \notin Served /\ "absent" \in Statuses
  BY DEF GetAnswers, Served, Statuses, Settled
<1>2. (IF id \in Requests THEN status[id] ELSE "absent") \in Statuses
  BY <1>1 DEF LifecycleTypeOK
<1> QED
  BY <1>1, <1>2 DEF Fetching, Loads

\* What is composed is for its task, of what was served.
LEMMA ComposeIs ==
    ASSUME NEW load \in Loads,
           \A p \in Parts : load.answers[p] \in Served => load.id \in Requests
    PROVE  LET d == Compose(load.id, load.answers)
           IN  /\ d \in Details \cup {NoDetail}
               /\ d.id \in {load.id, NoTask}
               /\ d.id \in Requests =>
                    \A p \in Parts : \E q \in Parts :
                      load.answers[q] \in Served /\ d.parts[p] = load.answers[q]
<1> DEFINE d == Compose(load.id, load.answers)
           ok(p) == RequestStatus(load.answers[p]) = "ok"
<1>1. \A p \in Parts : ok(p) <=> load.answers[p] \in Served
  BY DEF RequestStatus
<1>2. "task" \in Parts /\ load.id \in Tasks
  BY DEF Parts, Loads
<1>3. CASE ok("task")
  <2> DEFINE parts == [p \in Parts |-> IF ok(p) THEN load.answers[p]
                                                ELSE load.answers["task"]]
             source == IF \A p \in Parts : ok(p) THEN "api" ELSE "degraded"
  <2>1. d = [id |-> load.id, source |-> source, parts |-> parts]
    BY <1>2, <1>3 DEF Compose
  <2>2. \A p \in Parts : \E q \in Parts : load.answers[q] \in Served
                                          /\ parts[p] = load.answers[q]
    BY <1>1, <1>2, <1>3
  <2>3. source \in Sources /\ parts \in [Parts -> Served \cup {"mock"}]
    BY <2>2 DEF Sources
  <2> HIDE DEF parts, source, ok, d
  <2>4. d \in Details
    BY <1>2, <2>1, <2>3 DEF Details
  <2> QED
    BY <2>1, <2>2, <2>4 DEF d
<1>4. CASE ~ok("task") /\ load.id \in MockTasks
  <2> DEFINE source == IF \E p \in Parts : RequestStatus(load.answers[p]) = "invalid"
                       THEN "integration-error" ELSE "mock"
  <2>1. d = [id |-> load.id, source |-> source, parts |-> [p \in Parts |-> "mock"]]
    BY <1>2, <1>4 DEF Compose
  <2>2. source \in Sources
    BY DEF Sources
  <2> HIDE DEF source, ok, d
  <2>3. d \in Details /\ d.id = load.id
    BY <1>2, <2>1, <2>2 DEF Details
  <2>4. load.id \notin Requests
    BY <1>4, MocksAssumption
  <2> QED
    BY <2>3, <2>4 DEF d
<1>5. CASE ~ok("task") /\ load.id \notin MockTasks
  <2>1. d = NoDetail
    BY <1>2, <1>5 DEF Compose
  <2>2. NoDetail.id = NoTask /\ NoTask \notin Requests
    BY NoTaskAssumption DEF NoDetail, Tasks
  <2> QED
    BY <2>1, <2>2
<1> QED
  BY <1>3, <1>4, <1>5

---------------------------------------------------------------------------
(* The invariant                                                           *)

\* What the invariant says of one load, and of what is on the page.
AnswersFit(load) ==
    \A p \in Parts : load.answers[p] \in Served =>
        /\ load.id \in Requests
        /\ Rank(load.since) <= Rank(load.answers[p])
        /\ Rank(load.answers[p]) <= Rank(status[load.id])
        /\ load.since \in Settled => load.answers[p] = status[load.id]

SinceFits(load) ==
    load.id \in Requests =>
        /\ Rank(load.since) <= Rank(status[load.id])
        /\ load.since \in Settled => status[load.id] = load.since

DetailFits ==
    detail.id \in Requests =>
        \A p \in Parts : /\ detail.parts[p] \in Served
                         /\ Rank(detail.parts[p]) <= Rank(status[detail.id])

DetailIsOlder(load) ==
    load.isActive /\ load.id = detail.id /\ detail.id \in Requests =>
        \A p \in Parts : Rank(detail.parts[p]) <= Rank(load.since)

LoadFits(load) == AnswersFit(load) /\ SinceFits(load) /\ DetailIsOlder(load)

\* The invariant, load by load.
LEMMA InvIs ==
    ConsoleInv <=>
        /\ PageShowsItsTask
        /\ ConsoleTypeOK
        /\ \A l \in 1..MaxVisits : LoadFits(loads[l])
        /\ DetailFits
BY DEF ConsoleInv, AnswersAreOfTheVisit, LoadFits, AnswersFit, SinceFits, DetailFits,
       DetailIsOlder, ActiveLoads

\* NoLoad is no effect of the page, and has been answered nothing.
LEMMA NoLoadIs ==
    /\ ~NoLoad.isActive /\ NoLoad.id = NoTask /\ NoTask \notin Requests
    /\ \A p \in Parts : NoLoad.answers[p] \notin Served
BY NoTaskAssumption DEF NoLoad, Served, Statuses, Settled, Tasks

LEMMA ConsoleInitially == ConsoleInit => ConsoleInv
<1> SUFFICES ASSUME ConsoleInit PROVE ConsoleInv
  OBVIOUS
<1>1. \A l \in 1..MaxVisits : loads[l] = NoLoad
  BY DEF ConsoleInit
<1>2. detail.id = NoTask /\ NoTask \notin Requests
  BY NoTaskAssumption DEF ConsoleInit, NoDetail, Tasks
<1>3. ConsoleTypeOK
  BY VisitsAssumption
     DEF ConsoleInit, LifecycleInit, ConsoleTypeOK, LifecycleTypeOK, Statuses, Answers
<1>4. PageShowsItsTask
  BY <1>1, NoLoadIs DEF ConsoleInit, PageShowsItsTask, ActiveLoads
<1> QED
  BY <1>1, <1>2, <1>3, <1>4, NoLoadIs, InvIs
     DEF LoadFits, AnswersFit, SinceFits, DetailFits, DetailIsOlder

\* A load fits when its task has moved on, too.
LEMMA BackendKeeps ==
    ASSUME ConsoleInv, Backend
    PROVE  ConsoleInv'
<1>1. /\ PageShowsItsTask /\ ConsoleTypeOK /\ DetailFits
      /\ \A l \in 1..MaxVisits : LoadFits(loads[l])
  BY InvIs
<1>2. UNCHANGED consoleVars /\ LifecycleTypeOK /\ LifecycleNext
  BY <1>1 DEF Backend, ConsoleTypeOK
<1>3. /\ LifecycleTypeOK'
      /\ \A r \in Requests : /\ Rank(status[r]) <= Rank(status'[r])
                             /\ status[r] \in Settled => status'[r] = status[r]
  BY <1>2, StatusMovesOn
<1>4. \A r \in Requests : Rank(status[r]) \in 0..2 /\ Rank(status'[r]) \in 0..2
  BY <1>2, <1>3, Ranks DEF LifecycleTypeOK
<1>5. \A s \in Served : Rank(s) \in 0..2
  BY Ranks DEF Served
<1>6. ConsoleTypeOK' /\ PageShowsItsTask'
  BY <1>1, <1>2, <1>3 DEF ConsoleTypeOK, PageShowsItsTask, ActiveLoads, consoleVars
<1>7. DetailFits'
  BY <1>1, <1>2, <1>3, <1>4, <1>5 DEF DetailFits, consoleVars
<1>8. ASSUME NEW l \in 1..MaxVisits
      PROVE  LoadFits(loads[l])'
  <2>1. loads' = loads /\ detail' = detail
    BY <1>2 DEF consoleVars
  <2>2. AnswersFit(loads[l]) /\ SinceFits(loads[l]) /\ DetailIsOlder(loads[l])
    BY <1>1 DEF LoadFits
  <2>3. DetailIsOlder(loads[l])'
    BY <2>1, <2>2 DEF DetailIsOlder
  <2>4. ASSUME loads[l].id \in Requests
        PROVE  /\ Rank(loads[l].since) <= Rank(status'[loads[l].id])
               /\ loads[l].since \in Settled => status'[loads[l].id] = loads[l].since
               /\ Rank(status[loads[l].id]) <= Rank(status'[loads[l].id])
    <3>1. loads[l] \in Loads
      BY <1>1, <2>4, NoLoadIs DEF ConsoleTypeOK
    <3>2. Rank(loads[l].since) \in 0..2
      BY <3>1, Ranks DEF Loads
    <3> QED
      BY <1>3, <1>4, <2>2, <2>4, <3>2 DEF SinceFits
  <2>5. ASSUME NEW p \in Parts, loads[l].answers[p] \in Served
        PROVE  /\ loads[l].id \in Requests
               /\ Rank(loads[l].since) <= Rank(loads[l].answers[p])
               /\ Rank(loads[l].answers[p]) <= Rank(status'[loads[l].id])
               /\ loads[l].since \in Settled =>
                    loads[l].answers[p] = status'[loads[l].id]
    <3>1. /\ loads[l].id \in Requests
          /\ Rank(loads[l].since) <= Rank(loads[l].answers[p])
          /\ Rank(loads[l].answers[p]) <= Rank(status[loads[l].id])
          /\ loads[l].since \in Settled =>
               loads[l].answers[p] = status[loads[l].id]
      BY <2>2, <2>5 DEF AnswersFit
    <3>2. Rank(loads[l].answers[p]) <= Rank(status'[loads[l].id])
      BY <1>4, <1>5, <2>4, <2>5, <3>1
    <3> QED
      BY <2>2, <2>4, <3>1, <3>2 DEF SinceFits
  <2> QED
    BY <2>1, <2>3, <2>4, <2>5 DEF LoadFits, AnswersFit, SinceFits
<1> QED
  BY <1>6, <1>7, <1>8 DEF ConsoleInv, AnswersAreOfTheVisit, LoadFits, AnswersFit,
     SinceFits, DetailFits, DetailIsOlder, ActiveLoads

\* Cleaning up: no effect is the page's any more, and what was served fits as before.
LEMMA DeactivatedIs ==
    ASSUME ConsoleInv, NEW l \in 1..MaxVisits
    PROVE  /\ Deactivated[l] \in Loads \cup {NoLoad}
           /\ ~Deactivated[l].isActive
           /\ AnswersFit(Deactivated[l])
           /\ SinceFits(Deactivated[l])
<1>1. loads[l] \in Loads \cup {NoLoad} /\ AnswersFit(loads[l]) /\ SinceFits(loads[l])
  BY InvIs DEF ConsoleTypeOK, LoadFits
<1>2. Deactivated[l] = Aborted(loads[l])
  BY DEF Deactivated
<1>3. AnswersFit(Deactivated[l])
  BY <1>1, <1>2, AbortedIs DEF AnswersFit
<1>4. SinceFits(Deactivated[l])
  BY <1>1, <1>2, AbortedIs DEF SinceFits
<1> QED
  BY <1>1, <1>2, <1>3, <1>4, AbortedIs

LEMMA OpenKeeps ==
    ASSUME ConsoleInv, NEW id \in Tasks, Open(id)
    PROVE  ConsoleInv'
<1> DEFINE new == opened + 1
<1>1. ConsoleTypeOK /\ DetailFits /\ LifecycleTypeOK
  BY InvIs DEF ConsoleTypeOK
<1>2. new \in 1..MaxVisits /\ opened' = new /\ route' = id /\ UNCHANGED lifecycleVars
  BY <1>1, VisitsAssumption DEF Open, ConsoleTypeOK
<1>3. /\ loads' = [Deactivated EXCEPT ![new] = Fetching(id)]
      /\ \/ detail' = NoDetail /\ loading' = TRUE
         \/ UNCHANGED <<detail, loading>>
  BY DEF Open
<1>4. DOMAIN Deactivated = 1..MaxVisits
  BY DEF Deactivated
<1> HIDE DEF new
<1>5. loads'[new] = Fetching(id) /\ DOMAIN loads' = 1..MaxVisits
      /\ \A l \in 1..MaxVisits : l # new => loads'[l] = Deactivated[l]
  BY <1>2, <1>3, <1>4
<1>7. \A l \in 1..MaxVisits : loads'[l].isActive <=> l = new
  BY <1>1, <1>5, FetchingIs, DeactivatedIs
<1>8. detail' \in Details \cup {NoDetail} /\ loading' \in BOOLEAN
  BY <1>1, <1>3 DEF ConsoleTypeOK
<1>9. ConsoleTypeOK'
  <2>1. loads' \in [1..MaxVisits -> Loads \cup {NoLoad}]
    <3>1. \A l \in 1..MaxVisits : Deactivated[l] \in Loads \cup {NoLoad}
      BY DeactivatedIs
    <3>2. Deactivated \in [1..MaxVisits -> Loads \cup {NoLoad}]
      BY <3>1 DEF Deactivated
    <3>3. Fetching(id) \in Loads \cup {NoLoad}
      BY <1>1, FetchingIs
    <3> QED
      BY <1>3, <3>2, <3>3
  <2>2. LifecycleTypeOK'
    BY <1>1, <1>2 DEF LifecycleTypeOK, lifecycleVars
  <2>3. opened' \in 0..MaxVisits
    BY <1>2
  <2> QED
    BY <1>2, <1>8, <2>1, <2>2, <2>3 DEF ConsoleTypeOK
<1>10. PageShowsItsTask'
  BY <1>1, <1>2, <1>5, <1>7, FetchingIs DEF PageShowsItsTask, ActiveLoads
<1>11. NoDetail.id \notin Requests
  BY NoTaskAssumption DEF NoDetail, Tasks
<1>12. detail'.id \in Requests => detail' = detail
  BY <1>3, <1>11
<1>13. DetailFits'
  BY <1>1, <1>2, <1>12 DEF DetailFits, lifecycleVars
<1>14. ASSUME NEW l \in 1..MaxVisits
       PROVE  LoadFits(loads[l])'
  <2>1. status' = status
    BY <1>2 DEF lifecycleVars
  <2>2. CASE l = new
    <3>1. AnswersFit(loads[l])'
      BY <1>1, <1>5, <2>2, FetchingIs DEF AnswersFit
    <3>2. ASSUME loads'[l].id = detail'.id, detail'.id \in Requests, NEW p \in Parts
          PROVE  Rank(detail'.parts[p]) <= Rank(loads'[l].since)
      <4>1. loads'[l].since = status[detail.id] /\ detail' = detail
        BY <1>1, <1>5, <1>12, <2>2, <3>2, FetchingIs
      <4> QED
        BY <1>1, <3>2, <4>1 DEF DetailFits
    <3>3. SinceFits(loads[l])'
      <4>1. ASSUME id \in Requests PROVE Rank(status[id]) \in 0..2
        BY <1>1, <4>1, Ranks DEF LifecycleTypeOK
      <4> QED
        BY <1>1, <1>5, <2>1, <2>2, <4>1, FetchingIs DEF SinceFits
    <3> QED
      BY <3>1, <3>2, <3>3 DEF LoadFits, DetailIsOlder
  <2>3. CASE l # new
    <3>1. /\ loads'[l] = Deactivated[l] /\ ~Deactivated[l].isActive
          /\ AnswersFit(Deactivated[l]) /\ SinceFits(Deactivated[l])
      BY <1>5, <2>3, DeactivatedIs
    <3> QED
      BY <2>1, <3>1 DEF LoadFits, AnswersFit, SinceFits, DetailIsOlder
  <2> QED
    BY <2>2, <2>3
<1> QED
  BY <1>9, <1>10, <1>13, <1>14 DEF ConsoleInv, AnswersAreOfTheVisit, LoadFits, AnswersFit,
     SinceFits, DetailFits, DetailIsOlder, ActiveLoads

LEMMA LeaveKeeps ==
    ASSUME ConsoleInv, Leave
    PROVE  ConsoleInv'
<1>1. ConsoleTypeOK
  BY InvIs
<1>2. /\ route' = NoTask /\ loads' = Deactivated /\ detail' = NoDetail /\ loading' = TRUE
      /\ UNCHANGED <<opened, lifecycleVars>>
  BY DEF Leave
<1>3. NoDetail.id \notin Requests
  BY NoTaskAssumption DEF NoDetail, Tasks
<1>4. \A l \in 1..MaxVisits : /\ loads'[l] \in Loads \cup {NoLoad}
                              /\ ~loads'[l].isActive
                              /\ AnswersFit(Deactivated[l])
                              /\ SinceFits(Deactivated[l])
  BY <1>2, DeactivatedIs
<1>5. loads' \in [1..MaxVisits -> Loads \cup {NoLoad}]
  BY <1>2, <1>4 DEF Deactivated
<1>6. ConsoleTypeOK'
  BY <1>1, <1>2, <1>5 DEF ConsoleTypeOK, LifecycleTypeOK, lifecycleVars
<1>7. PageShowsItsTask'
  BY <1>2, <1>4 DEF PageShowsItsTask, ActiveLoads
<1>8. DetailFits'
  BY <1>2, <1>3 DEF DetailFits
<1>9. \A l \in 1..MaxVisits : LoadFits(loads[l])'
  BY <1>2, <1>4 DEF LoadFits, AnswersFit, SinceFits, DetailIsOlder, lifecycleVars
<1> QED
  BY <1>6, <1>7, <1>8, <1>9 DEF ConsoleInv, AnswersAreOfTheVisit, LoadFits, AnswersFit,
     SinceFits, DetailFits, DetailIsOlder, ActiveLoads

LEMMA AnswerGetKeeps ==
    ASSUME ConsoleInv, NEW l \in 1..MaxVisits, NEW p \in Parts, AnswerGet(l, p)
    PROVE  ConsoleInv'
<1>1. /\ ConsoleTypeOK /\ PageShowsItsTask /\ DetailFits /\ LifecycleTypeOK
      /\ \A k \in 1..MaxVisits : AnswersFit(loads[k]) /\ SinceFits(loads[k])
                                  /\ DetailIsOlder(loads[k])
  BY InvIs DEF ConsoleTypeOK, LoadFits
<1>2. loads[l] \in Loads
  BY <1>1, NoLoadIs DEF AnswerGet, ConsoleTypeOK
<1>3. PICK a \in {Read(loads[l].id)} \cup Troubles :
        loads' = [loads EXCEPT ![l].answers[p] = a]
  BY DEF AnswerGet
<1>4. /\ a \in GetAnswers
      /\ a \in Served => loads[l].id \in Requests /\ a = status[loads[l].id]
  BY <1>1, ReadIs
<1>5. UNCHANGED <<route, opened, detail, loading, status, answer>>
  BY DEF AnswerGet, lifecycleVars
<1>6. \A k \in 1..MaxVisits :
        /\ loads'[k] \in Loads \cup {NoLoad}
        /\ loads'[k].id = loads[k].id /\ loads'[k].since = loads[k].since
        /\ loads'[k].isActive = loads[k].isActive
        /\ \A q \in Parts : loads'[k].answers[q] = IF k = l /\ q = p THEN a
                                                   ELSE loads[k].answers[q]
  <2>1. loads \in [1..MaxVisits -> Loads \cup {NoLoad}]
    BY <1>1 DEF ConsoleTypeOK
  <2>2. loads'[l] = [loads[l] EXCEPT !.answers[p] = a]
        /\ \A k \in 1..MaxVisits : k # l => loads'[k] = loads[k]
    BY <1>3, <2>1
  <2>3. loads'[l] \in Loads
    BY <1>2, <1>4, <2>2 DEF Loads
  <2>4. /\ loads'[l].id = loads[l].id /\ loads'[l].since = loads[l].since
        /\ loads'[l].isActive = loads[l].isActive
        /\ \A q \in Parts : loads'[l].answers[q] = IF q = p THEN a ELSE loads[l].answers[q]
    BY <1>2, <2>2 DEF Loads
  <2> QED
    BY <2>1, <2>2, <2>3, <2>4
<1>7. loads' \in [1..MaxVisits -> Loads \cup {NoLoad}]
  BY <1>1, <1>3, <1>6 DEF ConsoleTypeOK
<1>8. ConsoleTypeOK'
  BY <1>1, <1>5, <1>7 DEF ConsoleTypeOK, LifecycleTypeOK
<1>9. PageShowsItsTask'
  BY <1>1, <1>5, <1>6 DEF PageShowsItsTask, ActiveLoads
<1>10. DetailFits'
  BY <1>1, <1>5 DEF DetailFits
<1>11. ASSUME NEW k \in 1..MaxVisits
       PROVE  LoadFits(loads[k])'
  <2>1. DetailIsOlder(loads[k])' /\ SinceFits(loads[k])'
    BY <1>1, <1>5, <1>6 DEF DetailIsOlder, SinceFits
  <2>2. CASE k # l
    BY <1>1, <1>5, <1>6, <2>1, <2>2 DEF LoadFits, AnswersFit
  <2>3. CASE k = l
    <3>1. ASSUME a \in Served
          PROVE  /\ loads[l].id \in Requests
                 /\ Rank(loads[l].since) <= Rank(a)
                 /\ Rank(a) <= Rank(status[loads[l].id])
                 /\ loads[l].since \in Settled => a = status[loads[l].id]
      <4>1. loads[l].id \in Requests /\ a = status[loads[l].id]
        BY <1>4, <3>1
      <4>2. Rank(a) \in 0..2
        BY <1>1, <4>1, Ranks DEF LifecycleTypeOK
      <4>3. Rank(loads[l].since) <= Rank(a)
        BY <1>1, <4>1 DEF SinceFits
      <4> QED
        BY <4>1, <4>2, <4>3
    <3>2. AnswersFit(loads[k])'
      BY <1>1, <1>5, <1>6, <2>3, <3>1 DEF AnswersFit
    <3> QED
      BY <2>1, <3>2 DEF LoadFits
  <2> QED
    BY <2>2, <2>3
<1> QED
  BY <1>8, <1>9, <1>10, <1>11 DEF ConsoleInv, AnswersAreOfTheVisit, LoadFits, AnswersFit,
     SinceFits, DetailFits, DetailIsOlder, ActiveLoads

\* The load that is shown is over; the others are not the page's if it was.
LEMMA ShownLoads ==
    ASSUME ConsoleInv, NEW l \in 1..MaxVisits, Show(l)
    PROVE  /\ loads[l] \in Loads
           /\ loads' \in [1..MaxVisits -> Loads \cup {NoLoad}]
           /\ loads'[l] = NoLoad
           /\ \A k \in 1..MaxVisits : k # l => loads'[k] = loads[k]
           /\ loads[l].isActive => \A k \in 1..MaxVisits : ~loads'[k].isActive
<1>1. loads \in [1..MaxVisits -> Loads \cup {NoLoad}]
  BY InvIs DEF ConsoleTypeOK
<1>2. loads[l] \in Loads
  BY <1>1, NoLoadIs DEF Show, Complete
<1>3. loads' = [loads EXCEPT ![l] = NoLoad]
  BY DEF Show
<1>4. loads'[l] = NoLoad /\ \A k \in 1..MaxVisits : k # l => loads'[k] = loads[k]
  BY <1>1, <1>3
<1>5. loads' \in [1..MaxVisits -> Loads \cup {NoLoad}]
  BY <1>1, <1>3
<1>6. loads[l].isActive => \A k \in 1..MaxVisits : ~loads'[k].isActive
  BY <1>4, InvIs, NoLoadIs DEF PageShowsItsTask, ActiveLoads
<1> QED
  BY <1>2, <1>4, <1>5, <1>6

\* What an effect of the page shows is the task's, as its GETs were served.
LEMMA ShownDetail ==
    ASSUME ConsoleInv, NEW l \in 1..MaxVisits, Show(l), loads[l].isActive
    PROVE  /\ detail' \in Details \cup {NoDetail}
           /\ loading' = FALSE
           /\ detail'.id \in {route, NoTask}
           /\ detail'.id \in Requests =>
                /\ loads[l].id = detail'.id
                /\ \A p \in Parts : /\ detail'.parts[p] \in Served
                                     /\ Rank(loads[l].since) <= Rank(detail'.parts[p])
                                     /\ Rank(detail'.parts[p]) <= Rank(status[detail'.id])
<1>1. AnswersFit(loads[l]) /\ loads[l] \in Loads
  BY InvIs, ShownLoads DEF LoadFits
<1>2. detail' = Compose(loads[l].id, loads[l].answers) /\ loading' = FALSE
  BY DEF Show
<1>3. loads[l].id = route
  BY InvIs DEF PageShowsItsTask, ActiveLoads
<1>4. /\ detail' \in Details \cup {NoDetail}
      /\ detail'.id \in {loads[l].id, NoTask}
      /\ detail'.id \in Requests =>
           \A p \in Parts : \E q \in Parts :
             loads[l].answers[q] \in Served /\ detail'.parts[p] = loads[l].answers[q]
  BY <1>1, <1>2, ComposeIs DEF AnswersFit
<1>5. detail'.id \in Requests => detail'.id = loads[l].id
  BY <1>4, NoLoadIs
<1> QED
  BY <1>1, <1>2, <1>3, <1>4, <1>5 DEF AnswersFit

LEMMA ShowKeeps ==
    ASSUME ConsoleInv, NEW l \in 1..MaxVisits, Show(l)
    PROVE  ConsoleInv'
<1>1. /\ ConsoleTypeOK /\ PageShowsItsTask /\ DetailFits
      /\ \A k \in 1..MaxVisits : LoadFits(loads[k])
  BY InvIs
<1>2. /\ loads' \in [1..MaxVisits -> Loads \cup {NoLoad}]
      /\ loads'[l] = NoLoad
      /\ \A k \in 1..MaxVisits : k # l => loads'[k] = loads[k]
      /\ loads[l].isActive => \A k \in 1..MaxVisits : ~loads'[k].isActive
  BY ShownLoads
<1>3. UNCHANGED <<route, opened, status, answer>>
  BY DEF Show, lifecycleVars
<1>4. ~loads[l].isActive => UNCHANGED <<detail, loading>>
  BY DEF Show
<1>5. detail' \in Details \cup {NoDetail} /\ loading' \in BOOLEAN
  BY <1>1, <1>4, ShownDetail DEF ConsoleTypeOK
<1>6. ConsoleTypeOK'
  BY <1>1, <1>2, <1>3, <1>5 DEF ConsoleTypeOK, LifecycleTypeOK
<1>7. PageShowsItsTask'
  <2>1. CASE loads[l].isActive
    BY <1>2, <1>3, <2>1, ShownDetail DEF PageShowsItsTask, ActiveLoads
  <2>2. CASE ~loads[l].isActive
    <3>1. \A k \in 1..MaxVisits : loads'[k].isActive <=> loads[k].isActive
      BY <1>2, <2>2, NoLoadIs
    <3>2. ActiveLoads' = ActiveLoads /\ \A k \in ActiveLoads : loads'[k] = loads[k]
      BY <1>2, <2>2, <3>1 DEF ActiveLoads
    <3> QED
      BY <1>1, <1>3, <1>4, <2>2, <3>2 DEF PageShowsItsTask
  <2> QED
    BY <2>1, <2>2
<1>8. DetailFits'
  BY <1>1, <1>3, <1>4, ShownDetail DEF DetailFits
<1>9. ASSUME NEW k \in 1..MaxVisits
      PROVE  LoadFits(loads[k])'
  <2>1. AnswersFit(loads[k])' /\ SinceFits(loads[k])'
    BY <1>1, <1>2, <1>3, NoLoadIs DEF LoadFits, AnswersFit, SinceFits
  <2>2. DetailIsOlder(loads[k])'
    BY <1>1, <1>2, <1>4, NoLoadIs DEF LoadFits, DetailIsOlder
  <2> QED
    BY <2>1, <2>2 DEF LoadFits
<1> QED
  BY <1>6, <1>7, <1>8, <1>9 DEF ConsoleInv, AnswersAreOfTheVisit, LoadFits, AnswersFit,
     SinceFits, DetailFits, DetailIsOlder, ActiveLoads

LEMMA ConsoleStep == ConsoleInv /\ [ConsoleNext]_allVars => ConsoleInv'
<1> SUFFICES ASSUME ConsoleInv, [ConsoleNext]_allVars PROVE ConsoleInv'
  OBVIOUS
<1>1. CASE Backend
  BY <1>1, BackendKeeps
<1>2. CASE Leave
  BY <1>2, LeaveKeeps
<1>3. ASSUME NEW id \in Tasks, Open(id) PROVE ConsoleInv'
  BY <1>3, OpenKeeps
<1>4. ASSUME NEW l \in 1..MaxVisits, Show(l) PROVE ConsoleInv'
  BY <1>4, ShowKeeps
<1>5. ASSUME NEW l \in 1..MaxVisits, NEW p \in Parts, AnswerGet(l, p) PROVE ConsoleInv'
  BY <1>5, AnswerGetKeeps
<1>6. CASE UNCHANGED allVars
  BY <1>6 DEF allVars, lifecycleVars, consoleVars, ConsoleInv, PageShowsItsTask,
              AnswersAreOfTheVisit, ConsoleTypeOK, LifecycleTypeOK, ActiveLoads
<1> QED
  BY <1>1, <1>2, <1>3, <1>4, <1>5, <1>6 DEF ConsoleNext

---------------------------------------------------------------------------
(* The results                                                             *)

\* The page, its effects and the task center fit together in every state.
THEOREM ConsoleInductive == ConsoleSpec => []ConsoleInv
BY ConsoleInitially, ConsoleStep, PTL DEF ConsoleSpec

\* A page that waits for nothing shows the task its URL names, whatever answers are late.
THEOREM PageAlwaysShowsItsTask == ConsoleSpec => []PageShowsItsTask
<1>1. ConsoleInv => PageShowsItsTask
  BY DEF ConsoleInv
<1> QED
  BY <1>1, ConsoleInductive, PTL

\* No GET of a visit brings an older task than the visit found, nor a newer one than there is.
THEOREM AnswersStayOfTheVisit == ConsoleSpec => []AnswersAreOfTheVisit
<1>1. ConsoleInv => AnswersAreOfTheVisit
  BY DEF ConsoleInv
<1> QED
  BY <1>1, ConsoleInductive, PTL

\* What the page shows of a task gives way to nothing older: only Show composes it anew.
LEMMA DetailMovesOn ==
    ASSUME ConsoleInv, [ConsoleNext]_allVars,
           detail # NoDetail, detail'.id = detail.id, detail.id \in Requests, NEW p \in Parts
    PROVE  Rank(detail.parts[p]) <= Rank(detail'.parts[p])
<1>1. /\ detail.parts[p] \in Served /\ Rank(detail.parts[p]) \in 0..2
      /\ \A l \in 1..MaxVisits : LoadFits(loads[l])
  BY InvIs, Ranks DEF DetailFits, Served
<1>2. NoDetail.id \notin Requests
  BY NoLoadIs DEF NoDetail
<1>3. CASE detail' = detail
  BY <1>1, <1>3
<1>4. ASSUME NEW l \in 1..MaxVisits, Show(l), loads[l].isActive
      PROVE  Rank(detail.parts[p]) <= Rank(detail'.parts[p])
  <2>1. loads[l].id = detail.id /\ detail'.parts[p] \in Served
        /\ Rank(loads[l].since) <= Rank(detail'.parts[p])
    BY <1>4, ShownDetail
  <2>2. Rank(detail.parts[p]) <= Rank(loads[l].since)
    BY <1>1, <1>4, <2>1 DEF LoadFits, DetailIsOlder
  <2>3. loads[l].since \in Statuses
    BY <1>4, ShownLoads DEF Loads
  <2>4. Rank(loads[l].since) \in 0..2 /\ Rank(detail'.parts[p]) \in 0..2
    BY <2>1, <2>3, Ranks DEF Served
  <2> QED
    BY <1>1, <2>1, <2>2, <2>4
<1>5. CASE detail' = NoDetail
  BY <1>2, <1>5
<1>6. \/ detail' = detail
      \/ detail' = NoDetail
      \/ \E l \in 1..MaxVisits : Show(l) /\ loads[l].isActive
  BY DEF ConsoleNext, Backend, Leave, Open, AnswerGet, Show, allVars, consoleVars
<1> QED
  BY <1>3, <1>4, <1>5, <1>6

\* A page that shows a task never goes back in its life, however visits to it overlap.
THEOREM PageNeverGoesBack == ConsoleSpec => PartsNeverGoBack
<1>1. ConsoleInv /\ [ConsoleNext]_allVars =>
        [ detail # NoDetail /\ detail'.id = detail.id /\ detail.id \in Requests =>
            \A p \in Parts : Rank(detail.parts[p]) <= Rank(detail'.parts[p]) ]_allVars
  BY DetailMovesOn
<1> QED
  BY <1>1, ConsoleInductive, PTL DEF ConsoleSpec, PartsNeverGoBack

\* Whatever the backend lets pass as a task, a context or a result, the console can read.
THEOREM PayloadsAlwaysReadable == PayloadsAreReadable
BY PayloadsMatch DEF PayloadsAreReadable
===========================================================================
