--------------------------- MODULE TaskSubmission ---------------------------
(***************************************************************************)
(* runFofaApiTaskScan and runFofaTaskBatchReport: two command line tools   *)
(* that are clients of the backend.  The first asks FOFA for a listing of  *)
(* assets and posts one asset scan after another, each awaited; the second *)
(* reads the result and the risk summary of each task it is given.         *)
(*                                                                         *)
(* The first ends with the names of all its tasks or with an exception     *)
(* that names none.  A client that gives up does not stop its scan, and    *)
(* the backend, which keeps its records in memory, may be restarted.       *)
(***************************************************************************)
EXTENDS Naturals, Sequences, FiniteSets, Functions

CONSTANTS
  Listings,     \* what FOFA may list: sequences of rows
  MaxAttempts,  \* how often the user tries to submit
  MaxRestarts   \* how often the backend is restarted

\* A row is an asset with the address a scan needs, or without, or no array at all.
Shapes == {"addressed", "unaddressed", "malformed"}

Rows == [shape : Shapes, asset : Nat \ {0}]

ASSUME ListingsAssumption == Listings \subseteq Seq(Rows)
ASSUME SubmissionBounds == MaxAttempts \in Nat /\ MaxRestarts \in Nat

VARIABLES
  attempt,    \* the number of the submission
  phase,      \* its next step; idle if nothing is submitted
  listing,    \* the records it has read
  tasks,      \* taskResults: the task of each record so far
  issued,     \* how many ids the backend has issued; ids are their numbers
  running,    \* the scans whose engines work
  answer,     \* the task named by the response on its way, 0 if there is none
  store,      \* [id -> record]: the repository of the backend
  restarts,   \* how often the backend was restarted
  thrown,     \* history: the attempts that ended with an exception
  reporting,  \* the next step of the report
  got,        \* the result read last
  report      \* the entries made so far

submitter == <<attempt, phase, listing, tasks, thrown>>
backend   == <<issued, running, answer, store, restarts>>
reporter  == <<reporting, got, report>>
submissionVars == <<submitter, backend, reporter>>

-----------------------------------------------------------------------------
(* A static analysis is in the store from the start, and the report is     *)
(* asked for it, too: unlike a scan it can be read before it is settled.   *)

Analysis == 0

Record(scan, status, findings) ==
  [asset |-> scan.asset, attempt |-> scan.attempt, status |-> status,
   findings |-> findings]

PendingAnalysis == Record([asset |-> 0, attempt |-> 0], "pending", 0)

\* What an engine may leave: a failed task has no findings.
Outcomes == {<<"finished", 0>>, <<"finished", 1>>, <<"failed", 0>>}

\* The ids the report is asked for.
Asked == <<Analysis>> \o [i \in 1 .. Len(tasks) |-> tasks[i].id]

SubmissionInit ==
  /\ attempt = 1 /\ phase \in {"idle", "listing"} /\ listing = <<>> /\ tasks = <<>>
  /\ issued = 0 /\ running = {} /\ answer = 0
  /\ store = [id \in {Analysis} |-> PendingAnalysis]
  /\ restarts = 0 /\ thrown = {}
  /\ reporting = "idle" /\ got = PendingAnalysis /\ report = <<>>

-----------------------------------------------------------------------------
(* The submission.                                                         *)

Throw == /\ phase' = "thrown"
         /\ thrown' = thrown \cup {attempt}
         /\ UNCHANGED <<attempt, listing, tasks>>

\* FOFA answers.  All rows are normalised before the first task is posted.
ReadListing ==
  /\ phase = "listing"
  /\ \E rows \in Listings :
       IF \E i \in DOMAIN rows : rows[i].shape = "malformed"
         THEN Throw
         ELSE /\ listing' = rows
              /\ phase' = "posting"
              /\ UNCHANGED <<attempt, tasks, thrown>>
  /\ UNCHANGED <<backend, reporter>>

\* FOFA cannot be reached, refuses, reports an error, or answers with no JSON.
ListingFails == phase = "listing" /\ Throw /\ UNCHANGED <<backend, reporter>>

Row == listing[Len(tasks) + 1]

MorePosts == phase = "posting" /\ Len(tasks) < Len(listing)

\* Mutant: the POST is not awaited.
PostUnawaited ==
  /\ MorePosts /\ Row.shape = "addressed"
  /\ issued' = issued + 1
  /\ running' = running \cup {[id |-> issued', asset |-> Row.asset, attempt |-> attempt]}
  /\ tasks' = Append(tasks, [id |-> issued', asset |-> Row.asset])
  /\ UNCHANGED <<attempt, phase, listing, thrown, answer, store, restarts, reporter>>

\* The POST arrives, and the backend starts an engine before it answers.
PostTask ==
  /\ MorePosts /\ Row.shape = "addressed"
  /\ issued' = issued + 1
  /\ running' = running \cup {[id |-> issued', asset |-> Row.asset, attempt |-> attempt]}
  /\ phase' = "waiting"
  /\ UNCHANGED <<attempt, listing, tasks, thrown, answer, store, restarts, reporter>>

\* buildTargetUrl throws in the middle of the loop.
RowUnusable == /\ MorePosts /\ Row.shape = "unaddressed"
               /\ Throw /\ UNCHANGED <<backend, reporter>>

\* The POST fails, or is answered by an error or an invalid shell.
PostRefused == /\ MorePosts /\ Row.shape = "addressed"
               /\ Throw /\ UNCHANGED <<backend, reporter>>

\* The answer names the task.
ReadAnswer ==
  /\ phase = "waiting" /\ answer # 0
  /\ tasks' = Append(tasks, [id |-> answer, asset |-> Row.asset])
  /\ phase' = "posting"
  /\ answer' = 0
  /\ UNCHANGED <<attempt, listing, thrown, issued, running, store, restarts, reporter>>

\* Mutant: the record is posted again.
PostAgain ==
  /\ phase = "waiting"
  /\ phase' = "posting"
  /\ answer' = 0
  /\ UNCHANGED <<attempt, listing, tasks, thrown, issued, running, store, restarts, reporter>>

\* The connection breaks, or fetch has waited too long.  The scan goes on.
GiveUp == /\ phase = "waiting" /\ Throw
          /\ answer' = 0
          /\ UNCHANGED <<issued, running, store, restarts, reporter>>

ReturnTasks == /\ phase = "posting" /\ Len(tasks) = Len(listing)
               /\ phase' = "returned"
               /\ UNCHANGED <<attempt, listing, tasks, thrown, backend, reporter>>

\* The user tries again: nothing remembers what was submitted before.
TryAgain == /\ phase = "thrown" /\ attempt < MaxAttempts
            /\ attempt' = attempt + 1
            /\ phase' = "listing" /\ listing' = <<>> /\ tasks' = <<>>
            /\ UNCHANGED <<thrown, backend, reporter>>

-----------------------------------------------------------------------------
(* The backend, as far as its clients can tell.                            *)

\* The record of a scan is stored as a whole when its engine ends, and answered.
EndScan(scan) ==
  /\ scan \in running
  /\ running' = running \ {scan}
  /\ \E o \in Outcomes :
       store' = [id \in DOMAIN store \cup {scan.id} |->
                   IF id = scan.id THEN Record(scan, o[1], o[2]) ELSE store[id]]
  /\ answer' = IF phase = "waiting" /\ scan.id = issued THEN scan.id ELSE answer
  /\ UNCHANGED <<issued, restarts, submitter, reporter>>

\* The static analysis is settled by its own engine.
SettleAnalysis ==
  /\ phase # "idle"
  /\ Analysis \in DOMAIN store /\ store[Analysis].status = "pending"
  /\ \E o \in Outcomes :
       store' = [store EXCEPT ![Analysis].status = o[1], ![Analysis].findings = o[2]]
  /\ UNCHANGED <<issued, running, answer, restarts, submitter, reporter>>

\* Records, scans and open connections are gone; an answer may have been sent.
Restart ==
  /\ phase # "idle" /\ restarts < MaxRestarts
  /\ restarts' = restarts + 1
  /\ store' = [id \in {} |-> PendingAnalysis]
  /\ running' = {}
  /\ answer' \in {answer, 0}
  /\ UNCHANGED <<issued, submitter, reporter>>

-----------------------------------------------------------------------------
(* The report.                                                             *)

StartReport == /\ phase = "returned" /\ reporting = "idle"
               /\ reporting' = "result"
               /\ UNCHANGED <<got, report, submitter, backend>>

NextId == Asked[Len(report) + 1]

MoreReads == reporting \in {"result", "risk summary"} /\ Len(report) < Len(Asked)

ReadResult == /\ MoreReads /\ reporting = "result" /\ NextId \in DOMAIN store
              /\ got' = store[NextId]
              /\ reporting' = "risk summary"
              /\ UNCHANGED <<report, submitter, backend>>

\* Mutant: the result goes first.
StatusOfResult(summary, result) == result.status

\* The risk summary, which was read later, goes before the result.
StatusOf(summary, result) == summary.status

ReadRiskSummary ==
  /\ MoreReads /\ reporting = "risk summary" /\ NextId \in DOMAIN store
  /\ report' = Append(report, [id |-> NextId, findings |-> got.findings,
                               status |-> StatusOf(store[NextId], got)])
  /\ reporting' = "result"
  /\ UNCHANGED <<got, submitter, backend>>

\* One GET that fails, or a task that is unknown, ends the whole report.
ReportThrows == /\ MoreReads
                /\ reporting' = "thrown"
                /\ UNCHANGED <<got, report, submitter, backend>>

ReturnReport == /\ reporting = "result" /\ Len(report) = Len(Asked)
                /\ reporting' = "returned"
                /\ UNCHANGED <<got, report, submitter, backend>>
-----------------------------------------------------------------------------
SubmissionRests ==
  /\ phase \in {"idle", "returned", "thrown"} /\ reporting \in {"idle", "returned", "thrown"}

Submit == \/ ReadListing \/ ListingFails \/ PostTask \/ RowUnusable \/ PostRefused
          \/ ReadAnswer \/ GiveUp \/ ReturnTasks

Report == ReadResult \/ ReadRiskSummary \/ ReportThrows \/ ReturnReport

SubmissionNext == \/ Submit \/ TryAgain \/ StartReport \/ Report
                  \/ \E scan \in running : EndScan(scan)
                  \/ SettleAnalysis \/ Restart

\* A tool that was started goes on by itself: each of its calls ends, if only by the
\* timeout of fetch.  Nothing is asked of engines, which may hang.
SubmissionFairness == WF_submissionVars(Submit) /\ WF_submissionVars(Report)

-----------------------------------------------------------------------------
(* Properties.                                                             *)

Statuses == {"pending", "finished", "failed"}
Records == [asset : Nat, attempt : Nat, status : Statuses, findings : 0 .. 1]
Scans == [id : Nat \ {0}, asset : Nat \ {0}, attempt : Nat \ {0}]
TaskResults == [id : Nat \ {0}, asset : Nat \ {0}]
ReportEntries == [id : Nat, findings : 0 .. 1, status : Statuses]
Named == {tasks[i].id : i \in DOMAIN tasks}

SubmissionTypeOK ==
  /\ attempt \in Nat \ {0}
  /\ phase \in {"idle", "listing", "posting", "waiting", "returned", "thrown"}
  /\ listing \in Seq(Rows) /\ tasks \in Seq(TaskResults)
  /\ issued \in Nat /\ answer \in Nat /\ restarts \in Nat
  /\ running \subseteq Scans /\ thrown \subseteq 1 .. attempt
  /\ store \in [DOMAIN store -> Records] /\ DOMAIN store \subseteq Nat
  /\ reporting \in {"idle", "result", "risk summary", "returned", "thrown"}
  /\ got \in Records
  /\ report \in Seq(ReportEntries)

\* The record of a scan is in the store, unless a restart has taken it.
Kept(id, asset) ==
  IF id \in DOMAIN store
    THEN store[id].asset = asset /\ store[id].attempt = attempt
    ELSE restarts > 0

\* A submission that returns names one task for each record that it read, in their
\* order: a scan of that asset, which is in the store unless the backend was restarted.
SubmissionNamesItsTasks ==
  phase = "returned" =>
    /\ Len(tasks) = Len(listing)
    /\ \A i, j \in DOMAIN tasks : tasks[i].id = tasks[j].id => i = j
    /\ \A i \in DOMAIN tasks : /\ tasks[i].asset = listing[i].asset
                               /\ Kept(tasks[i].id, tasks[i].asset)

\* An entry of the report has the status its task has at that moment.  Its findings may
\* be those of an earlier one, but for scans both are of one record.
EntryFitsStore ==
  LET entry == report'[Len(report')]
      record == store[entry.id]
  IN  /\ entry.id = Asked[Len(report')]
      /\ entry.status = record.status
      /\ \/ entry.findings = record.findings
         \/ entry.id = Analysis /\ entry.findings = 0
ReportTellsStore == [][report' # report => EntryFitsStore]_submissionVars

\* The submission ends whatever hangs, and so does a report that was started.
SubmissionEnds == /\ phase = "listing" ~> phase \in {"returned", "thrown"}
                  /\ reporting = "result" ~> reporting \in {"returned", "thrown"}

-----------------------------------------------------------------------------
(* Why they hold.                                                          *)

\* Ids are issued once, so a scan that was lost is not mistaken for a later one.
IdsAreIssuedOnce ==
  /\ \A scan \in running : scan.id <= issued /\ scan.id \notin DOMAIN store
  /\ \A scan, other \in running : scan.id = other.id => scan = other
  /\ \A id \in DOMAIN store : id <= issued
  /\ \A i \in DOMAIN tasks : /\ tasks[i].id <= issued
                             /\ \A scan \in running : scan.id # tasks[i].id
                             /\ \A j \in DOMAIN tasks : j < i => tasks[j].id < tasks[i].id

TasksFitListing ==
  /\ phase \in {"idle", "listing"} => tasks = <<>>
  /\ Len(tasks) <= Len(listing)
  /\ \A i \in DOMAIN tasks : /\ tasks[i].asset = listing[i].asset
                             /\ Kept(tasks[i].id, tasks[i].asset)
  /\ phase = "returned" => Len(tasks) = Len(listing)

\* The scan that is waited for works, was stored, or is lost with a restart; no other
\* has its id.
WaitsForItsScan ==
  /\ answer # 0 => phase = "waiting" /\ answer = issued
  /\ answer # 0 => \A scan \in running : scan.id # issued
  /\ phase = "waiting" =>
       /\ Len(tasks) < Len(listing) /\ issued > 0 /\ issued \notin Named
       /\ (\E scan \in running : scan.id = issued) \/ Kept(issued, Row.asset)
       /\ \A scan \in running : scan.id = issued =>
            scan.asset = Row.asset /\ scan.attempt = attempt

\* A scan that nobody can name, running or stored, is the one that is waited for or
\* belongs to an attempt that ended with an exception: neither a retry nor a timeout
\* leaves a second task of a submission that returns.
LostTasksAreOfThrownAttempts ==
  LET lost(id, of) == id \notin Named => \/ of \in thrown
                                         \/ of = attempt /\ phase = "waiting" /\ id = issued
  IN  /\ \A scan \in running : lost(scan.id, scan.attempt)
      /\ \A id \in DOMAIN store \ {Analysis} : lost(id, store[id].attempt)
      /\ attempt \in thrown <=> phase = "thrown"

\* What was read last is the record, or an earlier state of the analysis, which has no
\* findings before it is settled.
ReadsAreOfRecords ==
  /\ Analysis \in DOMAIN store /\ store[Analysis].status = "pending" =>
       store[Analysis].findings = 0
  /\ IF reporting = "idle" THEN report = <<>> ELSE phase = "returned"
  /\ Len(report) <= Len(Asked)
  /\ reporting = "risk summary" =>
       /\ Len(report) < Len(Asked)
       /\ NextId \in DOMAIN store =>
            \/ got.findings = store[NextId].findings
            \/ NextId = Analysis /\ got.findings = 0

SubmissionInv == /\ SubmissionTypeOK /\ IdsAreIssuedOnce /\ TasksFitListing
                 /\ WaitsForItsScan /\ LostTasksAreOfThrownAttempts /\ ReadsAreOfRecords
=============================================================================
