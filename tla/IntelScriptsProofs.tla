-------------------------- MODULE IntelScriptsProofs --------------------------
(***************************************************************************)
(* Proofs about the tools that IntelScripts runs: the submission of tasks  *)
(* and the report on them, for any listings and any number of attempts and *)
(* restarts; the verification of ports, for task files of any length; and  *)
(* the six steps, for any export and any limit; each however its commands  *)
(* and the file system may fail.                                           *)
(***************************************************************************)
EXTENDS IntelScripts, FiniteSetTheorems, WellFoundedInduction, TLAPS

\* A step of one of the tools is a step of it and none of the others.
LEMMA ScriptsStep ==
  [Next]_scriptVars => /\ [SubmissionNext]_submissionVars
                       /\ [VerificationNext]_verificationVars
                       /\ [SixStepNext]_sixStepVars
BY DEF Next, Stop, scriptVars

-----------------------------------------------------------------------------
(***************************************************************************)
(* TaskSubmission                                                          *)
(***************************************************************************)

-----------------------------------------------------------------------------
(* A sequence with one more element.                                       *)

LEMMA OneMoreAtEnd ==
  ASSUME NEW S, NEW s \in Seq(S), NEW e \in S, NEW t, t = Append(s, e)
  PROVE  t \in Seq(S) /\ Len(s) \in Nat /\ Len(t) = Len(s) + 1 /\ t[Len(t)] = e
OBVIOUS

-----------------------------------------------------------------------------
(* What the report is asked for, and what is kept.                         *)

\* The types of single variables.
LEMMA TypesAre ==
  ASSUME SubmissionTypeOK
  PROVE  /\ attempt \in Nat \ {0} /\ thrown \subseteq 1 .. attempt
         /\ issued \in Nat /\ answer \in Nat /\ restarts \in Nat
         /\ Len(listing) \in Nat /\ DOMAIN listing = 1 .. Len(listing)
         /\ Len(tasks) \in Nat /\ DOMAIN tasks = 1 .. Len(tasks)
         /\ \A i \in DOMAIN tasks : tasks[i] \in TaskResults /\ tasks[i].id \in Nat \ {0}
         /\ \A scan \in running : scan \in Scans /\ scan.id \in Nat \ {0}
         /\ DOMAIN store \subseteq Nat
         /\ Len(report) \in Nat
<1>1. /\ listing \in Seq(Rows) /\ tasks \in Seq(TaskResults) /\ report \in Seq(ReportEntries)
      /\ running \subseteq Scans /\ DOMAIN store \subseteq Nat
      /\ attempt \in Nat \ {0} /\ thrown \subseteq 1 .. attempt
      /\ issued \in Nat /\ answer \in Nat /\ restarts \in Nat
  BY DEF SubmissionTypeOK
<1>2. /\ Len(listing) \in Nat /\ DOMAIN listing = 1 .. Len(listing)
      /\ Len(tasks) \in Nat /\ DOMAIN tasks = 1 .. Len(tasks)
      /\ Len(report) \in Nat /\ \A i \in DOMAIN tasks : tasks[i] \in TaskResults
  BY <1>1
<1>3. \A task \in TaskResults : task.id \in Nat \ {0}
  BY DEF TaskResults
<1>4. \A scan \in Scans : scan.id \in Nat \ {0}
  BY DEF Scans
<1> QED
  BY <1>1, <1>2, <1>3, <1>4

\* First the analysis, then the tasks of the submission.
LEMMA AskedIs ==
  ASSUME SubmissionTypeOK
  PROVE  /\ Asked \in Seq(Nat)
         /\ Len(Asked) = Len(tasks) + 1
         /\ \A i \in 1 .. Len(Asked) :
              Asked[i] = Analysis \/ \E j \in DOMAIN tasks : Asked[i] = tasks[j].id
<1> DEFINE ids == [i \in 1 .. Len(tasks) |-> tasks[i].id]
<1>1. tasks \in Seq(TaskResults)
  BY DEF SubmissionTypeOK
<1>2. \A task \in TaskResults : task.id \in Nat
  BY DEF TaskResults
<1>9. DOMAIN tasks = 1 .. Len(tasks) /\ Len(tasks) \in Nat
      /\ \A i \in 1 .. Len(tasks) : tasks[i] \in TaskResults
  BY <1>1
<1>3. ids \in Seq(Nat) /\ Len(ids) = Len(tasks) /\ \A i \in 1 .. Len(tasks) : ids[i] = tasks[i].id
  BY <1>2, <1>9
<1> HIDE DEF ids
<1>4. Asked = <<Analysis>> \o ids
  BY DEF Asked, ids
<1>5. /\ Asked \in Seq(Nat) /\ Len(Asked) = Len(tasks) + 1
      /\ Asked[1] = Analysis /\ \A i \in 2 .. Len(Asked) : Asked[i] = ids[i - 1]
  BY <1>3, <1>4, <1>9 DEF Analysis
<1>6. ASSUME NEW i \in 2 .. Len(Asked)
      PROVE  i - 1 \in DOMAIN tasks /\ Asked[i] = tasks[i - 1].id
  <2>1. i - 1 \in 1 .. Len(tasks)
    BY <1>5, <1>9
  <2> QED
    BY <1>3, <1>5, <1>9, <2>1
<1>7. \A i \in 1 .. Len(Asked) : i = 1 \/ i \in 2 .. Len(Asked)
  BY <1>5, <1>9
<1> QED
  BY <1>5, <1>6, <1>7

\* The next record, while there are more.
LEMMA RowIs ==
  ASSUME SubmissionTypeOK, Len(tasks) < Len(listing)
  PROVE  Row \in Rows /\ Row.asset \in Nat \ {0} /\ Row = listing[Len(tasks) + 1]
<1>1. listing \in Seq(Rows) /\ tasks \in Seq(TaskResults)
  BY DEF SubmissionTypeOK
<1>2. Len(tasks) + 1 \in 1 .. Len(listing)
  BY <1>1
<1>3. Row = listing[Len(tasks) + 1] /\ Row \in Rows
  BY <1>1, <1>2 DEF Row
<1> QED
  BY <1>3 DEF Rows

\* One more task at the end.
LEMMA OneMoreTask ==
  ASSUME SubmissionTypeOK, NEW id \in Nat \ {0}, NEW asset \in Nat \ {0},
         tasks' = Append(tasks, [id |-> id, asset |-> asset])
  PROVE  /\ tasks' \in Seq(TaskResults)
         /\ Len(tasks) \in Nat /\ DOMAIN tasks = 1 .. Len(tasks)
         /\ Len(tasks') = Len(tasks) + 1 /\ DOMAIN tasks' = 1 .. (Len(tasks) + 1)
         /\ tasks'[Len(tasks) + 1] = [id |-> id, asset |-> asset]
         /\ \A i \in DOMAIN tasks : tasks'[i] = tasks[i]
<1> DEFINE task == [id |-> id, asset |-> asset]
<1>1. task \in TaskResults /\ tasks' = Append(tasks, task)
  BY DEF TaskResults
<1>2. tasks \in Seq(TaskResults)
  BY DEF SubmissionTypeOK
<1> HIDE DEF task
<1>3. tasks'[Len(tasks) + 1] = task
  BY <1>1, <1>2
<1> QED
  BY <1>1, <1>2, <1>3 DEF task

-----------------------------------------------------------------------------
(* The invariant.                                                          *)

LEMMA SubmissionStarts == SubmissionInit => SubmissionInv
<1> SUFFICES ASSUME SubmissionInit PROVE SubmissionInv
  OBVIOUS
<1>1. /\ DOMAIN store = {Analysis} /\ store[Analysis] = PendingAnalysis
      /\ store = [id \in {Analysis} |-> PendingAnalysis]
  BY DEF SubmissionInit
<1>2. PendingAnalysis \in Records /\ PendingAnalysis.findings = 0
  BY DEF PendingAnalysis, Record, Records, Statuses
<1>3. SubmissionTypeOK
  BY <1>1, <1>2 DEF SubmissionInit, SubmissionTypeOK, Analysis
<1>4. Len(Asked) = 1
  BY <1>3, AskedIs DEF SubmissionInit
<1> QED
  BY <1>1, <1>2, <1>3, <1>4
     DEF SubmissionInit, SubmissionInv, IdsAreIssuedOnce, TasksFitListing, WaitsForItsScan,
         LostTasksAreOfThrownAttempts, ReadsAreOfRecords, Analysis

\* An attempt that ends with an exception leaves its tasks and its scans behind.
LEMMA ThrowKeeps ==
  ASSUME SubmissionInv, Throw, phase \in {"listing", "posting", "waiting"},
         answer' = 0, UNCHANGED <<issued, running, store, restarts, reporter>>
  PROVE  SubmissionInv'
<1>1. /\ phase' = "thrown" /\ thrown' = thrown \cup {attempt}
      /\ UNCHANGED <<attempt, listing, tasks, reporting, got, report>>
  BY DEF Throw, reporter
<1>2. /\ SubmissionTypeOK /\ IdsAreIssuedOnce /\ TasksFitListing
      /\ WaitsForItsScan /\ LostTasksAreOfThrownAttempts /\ ReadsAreOfRecords
  BY DEF SubmissionInv
<1>3. SubmissionTypeOK'
  <2>1. attempt \in Nat \ {0} /\ thrown \subseteq 1 .. attempt
    BY <1>2 DEF SubmissionTypeOK
  <2>2. thrown' \subseteq 1 .. attempt
    BY <1>1, <2>1
  <2> QED
    BY <1>1, <1>2, <2>2 DEF SubmissionTypeOK
<1>4. IdsAreIssuedOnce'
  BY <1>1, <1>2 DEF IdsAreIssuedOnce
<1>5. TasksFitListing'
  BY <1>1, <1>2 DEF TasksFitListing, Kept
<1>6. WaitsForItsScan'
  BY <1>1 DEF WaitsForItsScan
<1>7. LostTasksAreOfThrownAttempts'
  BY <1>1, <1>2 DEF LostTasksAreOfThrownAttempts, Named
<1>8. ReadsAreOfRecords'
  BY <1>1, <1>2 DEF ReadsAreOfRecords, Asked, NextId
<1> QED
  BY <1>3, <1>4, <1>5, <1>6, <1>7, <1>8 DEF SubmissionInv

\* FOFA's answer is read, or the loop is over.
LEMMA ListingKeeps ==
  ASSUME SubmissionInv, ReadListing \/ ReturnTasks, ~Throw
  PROVE  SubmissionInv'
<1>1. /\ UNCHANGED <<attempt, tasks, thrown, issued, running, answer, store, restarts,
                     reporting, got, report>>
      /\ \/ phase = "listing" /\ phase' = "posting" /\ listing' \in Listings
         \/ /\ phase = "posting" /\ phase' = "returned" /\ listing' = listing
            /\ Len(tasks) = Len(listing)
  BY DEF ReadListing, ReturnTasks, backend, reporter
<1>2. /\ SubmissionTypeOK /\ IdsAreIssuedOnce /\ TasksFitListing
      /\ WaitsForItsScan /\ LostTasksAreOfThrownAttempts /\ ReadsAreOfRecords
  BY DEF SubmissionInv
<1>3. SubmissionTypeOK'
  BY <1>1, <1>2, ListingsAssumption DEF SubmissionTypeOK
<1>4. IdsAreIssuedOnce'
  BY <1>1, <1>2 DEF IdsAreIssuedOnce
<1>5. TasksFitListing'
  BY <1>1, <1>2 DEF TasksFitListing, Kept
<1>6. WaitsForItsScan'
  BY <1>1, <1>2 DEF WaitsForItsScan
<1>7. LostTasksAreOfThrownAttempts'
  BY <1>1, <1>2 DEF LostTasksAreOfThrownAttempts, Named
<1>8. ReadsAreOfRecords'
  BY <1>1, <1>2 DEF ReadsAreOfRecords, Asked, NextId
<1> QED
  BY <1>3, <1>4, <1>5, <1>6, <1>7, <1>8 DEF SubmissionInv

\* The id of a new scan is none that was issued before.
LEMMA PostTaskKeeps ==
  ASSUME SubmissionInv, PostTask
  PROVE  SubmissionInv'
<1> DEFINE scan == [id |-> issued + 1, asset |-> Row.asset, attempt |-> attempt]
<1>1. /\ phase = "posting" /\ Len(tasks) < Len(listing)
      /\ issued' = issued + 1 /\ running' = running \cup {scan} /\ phase' = "waiting"
      /\ UNCHANGED <<attempt, listing, tasks, thrown, answer, store, restarts,
                     reporting, got, report>>
  BY DEF PostTask, MorePosts, reporter
<1>2. /\ SubmissionTypeOK /\ IdsAreIssuedOnce /\ TasksFitListing
      /\ WaitsForItsScan /\ LostTasksAreOfThrownAttempts /\ ReadsAreOfRecords
  BY DEF SubmissionInv
<1>3. /\ scan \in Scans /\ issued \in Nat
      /\ scan.id = issued + 1 /\ scan.asset = Row.asset /\ scan.attempt = attempt
  <2>1. issued + 1 \in Nat \ {0} /\ Row.asset \in Nat \ {0} /\ attempt \in Nat \ {0}
    BY <1>1, <1>2, RowIs, TypesAre
  <2> QED
    BY <2>1, <1>2, TypesAre DEF Scans
<1> HIDE DEF scan
<1>4. /\ \A other \in running : other.id \in Nat /\ other.id <= issued
      /\ DOMAIN store \subseteq Nat /\ \A id \in DOMAIN store : id <= issued
      /\ \A i \in DOMAIN tasks : tasks[i].id \in Nat /\ tasks[i].id <= issued
  BY <1>2, TypesAre DEF IdsAreIssuedOnce
<1>5. SubmissionTypeOK'
  <2>1. running' \subseteq Scans /\ issued' \in Nat
    BY <1>1, <1>2, <1>3, TypesAre
  <2> QED
    BY <1>1, <1>2, <2>1 DEF SubmissionTypeOK
<1>6. IdsAreIssuedOnce'
  BY <1>1, <1>2, <1>3, <1>4 DEF IdsAreIssuedOnce
<1>7. TasksFitListing'
  BY <1>1, <1>2 DEF TasksFitListing, Kept
<1>8. WaitsForItsScan'
  <2>1. issued + 1 \notin Named
    BY <1>3, <1>4 DEF Named
  <2>2. Row' = Row /\ Named' = Named
    BY <1>1 DEF Row, Named
  <2>3. answer = 0
    BY <1>1, <1>2 DEF WaitsForItsScan
  <2> QED
    BY <1>1, <1>3, <1>4, <2>1, <2>2, <2>3 DEF WaitsForItsScan
<1>9. LostTasksAreOfThrownAttempts'
  BY <1>1, <1>2, <1>3 DEF LostTasksAreOfThrownAttempts, Named
<1>10. ReadsAreOfRecords'
  BY <1>1, <1>2 DEF ReadsAreOfRecords, Asked, NextId
<1> QED
  BY <1>5, <1>6, <1>7, <1>8, <1>9, <1>10 DEF SubmissionInv

\* The task that is named is the one that was posted for the record.
LEMMA ReadAnswerKeeps ==
  ASSUME SubmissionInv, ReadAnswer
  PROVE  SubmissionInv'
<1>1. /\ phase = "waiting" /\ answer # 0 /\ phase' = "posting" /\ answer' = 0
      /\ tasks' = Append(tasks, [id |-> answer, asset |-> Row.asset])
      /\ UNCHANGED <<attempt, listing, thrown, issued, running, store, restarts,
                     reporting, got, report>>
  BY DEF ReadAnswer, reporter
<1>2. /\ SubmissionTypeOK /\ IdsAreIssuedOnce /\ TasksFitListing
      /\ WaitsForItsScan /\ LostTasksAreOfThrownAttempts /\ ReadsAreOfRecords
  BY DEF SubmissionInv
<1>3. /\ answer = issued /\ issued \in Nat \ {0} /\ issued \notin Named
      /\ Len(tasks) < Len(listing) /\ Kept(issued, Row.asset)
      /\ \A scan \in running : scan.id # issued
  BY <1>1, <1>2 DEF WaitsForItsScan, SubmissionTypeOK
<1>4. Row.asset \in Nat \ {0} /\ Row = listing[Len(tasks) + 1]
  BY <1>2, <1>3, RowIs
<1>5. /\ tasks' \in Seq(TaskResults)
      /\ Len(tasks) \in Nat /\ DOMAIN tasks = 1 .. Len(tasks)
      /\ Len(tasks') = Len(tasks) + 1 /\ DOMAIN tasks' = 1 .. (Len(tasks) + 1)
      /\ tasks'[Len(tasks) + 1] = [id |-> issued, asset |-> Row.asset]
      /\ \A i \in DOMAIN tasks : tasks'[i] = tasks[i]
  BY <1>1, <1>2, <1>3, <1>4, OneMoreTask
<1>6. \A i \in DOMAIN tasks' : i \in DOMAIN tasks \/ i = Len(tasks) + 1
  BY <1>5
<1>7. \A i \in DOMAIN tasks : /\ tasks[i].id \in Nat /\ tasks[i].id < issued
                             /\ i < Len(tasks) + 1
  <2>1. \A i \in DOMAIN tasks : tasks[i].id <= issued /\ tasks[i].id # issued
    BY <1>2, <1>3 DEF IdsAreIssuedOnce, Named
  <2> QED
    BY <1>2, <1>3, <1>5, <2>1, TypesAre
<1>8. SubmissionTypeOK'
  BY <1>1, <1>2, <1>5 DEF SubmissionTypeOK
<1>9. IdsAreIssuedOnce'
  <2>1. \A scan \in running' : scan.id <= issued' /\ scan.id \notin DOMAIN store'
    BY <1>1, <1>2 DEF IdsAreIssuedOnce
  <2>2. /\ \A scan, other \in running' : scan.id = other.id => scan = other
        /\ \A id \in DOMAIN store' : id <= issued'
    BY <1>1, <1>2 DEF IdsAreIssuedOnce
  <2>3. ASSUME NEW i \in DOMAIN tasks'
        PROVE  /\ tasks'[i].id <= issued
               /\ \A scan \in running : scan.id # tasks'[i].id
               /\ \A j \in DOMAIN tasks' : j < i => tasks'[j].id < tasks'[i].id
    <3>1. CASE i \in DOMAIN tasks
      <4>1. \A j \in DOMAIN tasks' : j < i => j \in DOMAIN tasks
        BY <1>5, <1>6, <1>7, <3>1
      <4> QED
        BY <1>2, <1>5, <3>1, <4>1 DEF IdsAreIssuedOnce
    <3>2. CASE i = Len(tasks) + 1
      <4>1. tasks'[i].id = issued
        BY <1>5, <3>2
      <4>2. \A j \in DOMAIN tasks' : j < i => j \in DOMAIN tasks
        BY <1>5, <1>6, <3>2
      <4> QED
        BY <1>3, <1>5, <1>7, <4>1, <4>2
    <3> QED
      BY <1>6, <3>1, <3>2
  <2> QED
    BY <1>1, <2>1, <2>2, <2>3 DEF IdsAreIssuedOnce
<1>10. TasksFitListing'
  <2>1. ASSUME NEW i \in DOMAIN tasks'
        PROVE  tasks'[i].asset = listing[i].asset /\ Kept(tasks[i].id, tasks[i].asset)'
    <3>1. CASE i \in DOMAIN tasks
      <4>1. tasks[i].asset = listing[i].asset /\ Kept(tasks[i].id, tasks[i].asset)
        BY <1>2, <3>1 DEF TasksFitListing
      <4> QED
        BY <1>1, <1>5, <3>1, <4>1 DEF Kept
    <3>2. CASE i = Len(tasks) + 1
      <4>1. tasks'[i].id = issued /\ tasks'[i].asset = Row.asset
        BY <1>5, <3>2
      <4> QED
        BY <1>1, <1>3, <1>4, <3>2, <4>1 DEF Kept
    <3> QED
      BY <1>6, <3>1, <3>2
  <2>2. Len(tasks) + 1 <= Len(listing)
    BY <1>2, <1>3, TypesAre
  <2> QED
    BY <1>1, <1>5, <2>1, <2>2 DEF TasksFitListing
<1>11. WaitsForItsScan'
  BY <1>1 DEF WaitsForItsScan
<1>12. LostTasksAreOfThrownAttempts'
  <2>1. Named \subseteq Named' /\ issued \in Named'
    BY <1>5 DEF Named
  <2> QED
    BY <1>1, <1>2, <2>1 DEF LostTasksAreOfThrownAttempts
<1>13. ReadsAreOfRecords'
  <2>1. reporting = "idle" /\ reporting' = "idle" /\ report' = report
    BY <1>1, <1>2 DEF ReadsAreOfRecords
  <2>2. Len(Asked) = Len(tasks) + 1 /\ Len(Asked)' = Len(tasks') + 1
    BY <1>2, <1>5, AskedIs DEF Asked, Analysis
  <2> QED
    BY <1>1, <1>2, <1>5, <2>1, <2>2, TypesAre DEF ReadsAreOfRecords
<1> QED
  BY <1>8, <1>9, <1>10, <1>11, <1>12, <1>13 DEF SubmissionInv

\* Another attempt: what the last one has left is lost, and counted so.
LEMMA TryAgainKeeps ==
  ASSUME SubmissionInv, TryAgain
  PROVE  SubmissionInv'
<1>1. /\ phase = "thrown" /\ phase' = "listing" /\ attempt' = attempt + 1
      /\ listing' = <<>> /\ tasks' = <<>>
      /\ UNCHANGED <<thrown, issued, running, answer, store, restarts, reporting, got, report>>
  BY DEF TryAgain, backend, reporter
<1>2. /\ SubmissionTypeOK /\ IdsAreIssuedOnce /\ TasksFitListing
      /\ WaitsForItsScan /\ LostTasksAreOfThrownAttempts /\ ReadsAreOfRecords
  BY DEF SubmissionInv
<1>3. /\ attempt \in Nat \ {0} /\ thrown \subseteq 1 .. attempt
      /\ Len(tasks') = 0 /\ Len(listing') = 0 /\ DOMAIN tasks' = {}
  BY <1>1, <1>2, TypesAre
<1>4. SubmissionTypeOK'
  <2>1. attempt' \in Nat \ {0} /\ thrown' \subseteq 1 .. attempt'
    BY <1>1, <1>3
  <2>2. listing' \in Seq(Rows) /\ tasks' \in Seq(TaskResults)
    BY <1>1
  <2> QED
    BY <1>1, <1>2, <2>1, <2>2 DEF SubmissionTypeOK
<1>5. IdsAreIssuedOnce'
  BY <1>1, <1>2, <1>3 DEF IdsAreIssuedOnce
<1>6. TasksFitListing'
  BY <1>1, <1>3 DEF TasksFitListing
<1>7. WaitsForItsScan'
  BY <1>1, <1>2 DEF WaitsForItsScan
<1>8. LostTasksAreOfThrownAttempts'
  <2>1. attempt \in thrown /\ attempt' \notin thrown'
    BY <1>1, <1>2, <1>3 DEF LostTasksAreOfThrownAttempts
  <2>2. \A scan \in running : scan.attempt \in thrown
    BY <1>1, <1>2 DEF LostTasksAreOfThrownAttempts, IdsAreIssuedOnce, Named
  <2>3. ASSUME NEW id \in DOMAIN store \ {Analysis}
        PROVE  store[id].attempt \in thrown
    <3>1. CASE id \in Named
      <4>1. PICK i \in DOMAIN tasks : id = tasks[i].id
        BY <3>1 DEF Named
      <4>2. store[id].attempt = attempt
        BY <1>2, <4>1 DEF TasksFitListing, Kept
      <4> QED
        BY <2>1, <4>2
    <3>2. CASE id \notin Named
      BY <1>1, <1>2, <3>2 DEF LostTasksAreOfThrownAttempts
    <3> QED
      BY <3>1, <3>2
  <2> QED
    BY <1>1, <2>1, <2>2, <2>3 DEF LostTasksAreOfThrownAttempts
<1>9. ReadsAreOfRecords'
  <2>1. reporting = "idle" /\ report = <<>>
    BY <1>1, <1>2 DEF ReadsAreOfRecords
  <2>2. Len(report') = 0 /\ Len(Asked)' = 1
    BY <1>1, <1>3, <2>1 DEF Asked
  <2> QED
    BY <1>1, <1>2, <2>1, <2>2 DEF ReadsAreOfRecords
<1> QED
  BY <1>4, <1>5, <1>6, <1>7, <1>8, <1>9 DEF SubmissionInv

\* The record of a scan that ends is new in the store.
LEMMA EndScanKeeps ==
  ASSUME SubmissionInv, NEW scan \in running, EndScan(scan)
  PROVE  SubmissionInv'
<1>1. PICK o \in Outcomes :
        store' = [id \in DOMAIN store \cup {scan.id} |->
                    IF id = scan.id THEN Record(scan, o[1], o[2]) ELSE store[id]]
  BY DEF EndScan
<1>2. /\ running' = running \ {scan}
      /\ answer' = IF phase = "waiting" /\ scan.id = issued THEN scan.id ELSE answer
      /\ UNCHANGED <<issued, restarts, attempt, phase, listing, tasks, thrown,
                     reporting, got, report>>
  BY DEF EndScan, submitter, reporter
<1>3. /\ SubmissionTypeOK /\ IdsAreIssuedOnce /\ TasksFitListing
      /\ WaitsForItsScan /\ LostTasksAreOfThrownAttempts /\ ReadsAreOfRecords
  BY DEF SubmissionInv
<1>4. /\ scan \in Scans /\ scan.id \in Nat \ {0} /\ scan.id <= issued
      /\ scan.id \notin DOMAIN store /\ issued \in Nat /\ DOMAIN store \subseteq Nat
      /\ \A other \in running : other.id = scan.id => other = scan
      /\ \A i \in DOMAIN tasks : tasks[i].id # scan.id
  BY <1>3, TypesAre DEF IdsAreIssuedOnce
<1>5. Record(scan, o[1], o[2]) \in Records /\ Record(scan, o[1], o[2]).asset = scan.asset
      /\ Record(scan, o[1], o[2]).attempt = scan.attempt
  BY <1>4 DEF Record, Records, Scans, Outcomes, Statuses
<1>6. /\ DOMAIN store' = DOMAIN store \cup {scan.id}
      /\ store'[scan.id] = Record(scan, o[1], o[2])
      /\ \A id \in DOMAIN store : store'[id] = store[id]
      /\ store' = [id \in DOMAIN store' |-> store'[id]]
  BY <1>1, <1>4
<1>7. SubmissionTypeOK'
  <2>1. store \in [DOMAIN store -> Records]
    BY <1>3 DEF SubmissionTypeOK
  <2>2. \A id \in DOMAIN store' : store'[id] \in Records
    BY <1>5, <1>6, <2>1
  <2>3. store' \in [DOMAIN store' -> Records] /\ DOMAIN store' \subseteq Nat
    BY <1>4, <1>6, <2>2
  <2>4. running' \subseteq Scans /\ answer' \in Nat
    BY <1>2, <1>3, <1>4 DEF SubmissionTypeOK
  <2> QED
    BY <1>2, <1>3, <2>3, <2>4 DEF SubmissionTypeOK
<1>8. IdsAreIssuedOnce'
  <2>1. \A other \in running' : other.id <= issued' /\ other.id \notin DOMAIN store'
    BY <1>2, <1>3, <1>4, <1>6 DEF IdsAreIssuedOnce
  <2>2. \A id \in DOMAIN store' : id <= issued'
    BY <1>2, <1>3, <1>4, <1>6 DEF IdsAreIssuedOnce
  <2> QED
    BY <1>2, <1>3, <2>1, <2>2 DEF IdsAreIssuedOnce
<1>9. \A id : id # scan.id => (id \in DOMAIN store' <=> id \in DOMAIN store)
                              /\ (id \in DOMAIN store => store'[id] = store[id])
  BY <1>6
<1>10. TasksFitListing'
  BY <1>2, <1>3, <1>4, <1>9 DEF TasksFitListing, Kept
<1>11. WaitsForItsScan'
  <2>1. Row' = Row /\ Named' = Named
    BY <1>2 DEF Row, Named
  <2>2. answer' # 0 => /\ phase' = "waiting" /\ answer' = issued'
                       /\ \A other \in running' : other.id # issued'
    BY <1>2, <1>3, <1>4 DEF WaitsForItsScan
  <2>3. ASSUME phase = "waiting"
        PROVE  (\E other \in running' : other.id = issued) \/ Kept(issued, Row.asset)'
    <3>1. CASE scan.id = issued
      <4>1. scan.asset = Row.asset /\ scan.attempt = attempt
        BY <1>3, <2>3, <3>1 DEF WaitsForItsScan
      <4> QED
        BY <1>2, <1>5, <1>6, <2>1, <3>1, <4>1 DEF Kept
    <3>2. CASE scan.id # issued
      <4>1. (\E other \in running : other.id = issued) \/ Kept(issued, Row.asset)
        BY <1>3, <2>3 DEF WaitsForItsScan
      <4> QED
        BY <1>2, <1>9, <2>1, <3>2, <4>1 DEF Kept
    <3> QED
      BY <3>1, <3>2
  <2> QED
    BY <1>2, <1>3, <2>1, <2>2, <2>3 DEF WaitsForItsScan
<1>12. LostTasksAreOfThrownAttempts'
  <2>1. Named' = Named
    BY <1>2 DEF Named
  <2>2. ASSUME NEW id \in DOMAIN store' \ {Analysis}, id \notin Named
        PROVE  \/ store'[id].attempt \in thrown
               \/ store'[id].attempt = attempt /\ phase = "waiting" /\ id = issued
    <3>1. CASE id = scan.id
      <4>1. store'[id].attempt = scan.attempt
        BY <1>5, <1>6, <3>1
      <4> QED
        BY <1>3, <2>2, <3>1, <4>1 DEF LostTasksAreOfThrownAttempts
    <3>2. CASE id # scan.id
      <4>1. id \in DOMAIN store \ {Analysis} /\ store'[id] = store[id]
        BY <1>9, <2>2, <3>2
      <4> QED
        BY <1>3, <2>2, <4>1 DEF LostTasksAreOfThrownAttempts
    <3> QED
      BY <3>1, <3>2
  <2>3. /\ \A other \in running' :
             other.id \notin Named =>
                \/ other.attempt \in thrown
                \/ other.attempt = attempt /\ phase = "waiting" /\ other.id = issued
        /\ attempt \in thrown <=> phase = "thrown"
    <3>1. running' \subseteq running
      BY <1>2
    <3> QED
      BY <1>3, <3>1 DEF LostTasksAreOfThrownAttempts
  <2> QED
    BY <1>2, <2>1, <2>2, <2>3 DEF LostTasksAreOfThrownAttempts
<1>13. ReadsAreOfRecords'
  <2>1. Asked' = Asked /\ NextId' = NextId
    BY <1>2 DEF Asked, NextId
  <2>2. Analysis # scan.id
    BY <1>4 DEF Analysis
  <2>3. ASSUME reporting = "risk summary"
        PROVE  NextId # scan.id
    <3>1. Len(report) + 1 \in 1 .. Len(Asked)
      <4>1. Len(report) < Len(Asked)
        BY <1>3, <2>3 DEF ReadsAreOfRecords
      <4> QED
        BY <1>3, <4>1, AskedIs, TypesAre
    <3>2. NextId = Analysis \/ \E j \in DOMAIN tasks : NextId = tasks[j].id
      BY <1>3, <3>1, AskedIs DEF NextId
    <3> QED
      BY <1>4, <2>2, <3>2
  <2> QED
    BY <1>2, <1>3, <1>9, <2>1, <2>2, <2>3 DEF ReadsAreOfRecords
<1> QED
  BY <1>7, <1>8, <1>10, <1>11, <1>12, <1>13 DEF SubmissionInv

\* The analysis is settled: it is no scan, and had no findings before.
LEMMA SettleKeeps ==
  ASSUME SubmissionInv, SettleAnalysis
  PROVE  SubmissionInv'
<1>1. /\ Analysis \in DOMAIN store /\ store[Analysis].status = "pending"
      /\ UNCHANGED <<issued, running, answer, restarts, attempt, phase, listing, tasks, thrown,
                     reporting, got, report>>
  BY DEF SettleAnalysis, submitter, reporter
<1>2. PICK o \in Outcomes :
        store' = [store EXCEPT ![Analysis].status = o[1], ![Analysis].findings = o[2]]
  BY DEF SettleAnalysis
<1>3. /\ SubmissionTypeOK /\ IdsAreIssuedOnce /\ TasksFitListing
      /\ WaitsForItsScan /\ LostTasksAreOfThrownAttempts /\ ReadsAreOfRecords
  BY DEF SubmissionInv
<1> DEFINE settled == [store[Analysis] EXCEPT !.status = o[1], !.findings = o[2]]
<1>4. store \in [DOMAIN store -> Records] /\ DOMAIN store \subseteq Nat
  BY <1>3 DEF SubmissionTypeOK
<1>5. store' = [store EXCEPT ![Analysis] = settled]
  BY <1>2
<1>6. settled \in Records /\ settled.status # "pending"
  <2>1. store[Analysis] \in Records
    BY <1>1, <1>4
  <2>2. o[1] \in {"finished", "failed"} /\ o[2] \in 0 .. 1
    BY DEF Outcomes
  <2> QED
    BY <2>1, <2>2 DEF Records, Statuses
<1> HIDE DEF settled
<1>7. /\ DOMAIN store' = DOMAIN store /\ store' \in [DOMAIN store' -> Records]
      /\ store'[Analysis] = settled
      /\ \A id \in DOMAIN store : id # Analysis => store'[id] = store[id]
  BY <1>1, <1>4, <1>5, <1>6
<1>8. \A id : id # Analysis /\ Kept(id, Row.asset) => Kept(id, Row.asset)'
  BY <1>1, <1>7 DEF Kept, Row
<1>9. SubmissionTypeOK'
  BY <1>1, <1>3, <1>4, <1>7 DEF SubmissionTypeOK
<1>10. IdsAreIssuedOnce'
  BY <1>1, <1>3, <1>7 DEF IdsAreIssuedOnce
<1>11. TasksFitListing'
  <2>1. \A i \in DOMAIN tasks : tasks[i].id # Analysis
    BY <1>3, TypesAre DEF Analysis
  <2> QED
    BY <1>1, <1>3, <1>7, <2>1 DEF TasksFitListing, Kept
<1>12. WaitsForItsScan'
  <2>1. Row' = Row /\ Named' = Named
    BY <1>1 DEF Row, Named
  <2>2. issued > 0 => issued # Analysis
    BY <1>3, TypesAre DEF Analysis
  <2> QED
    BY <1>1, <1>3, <1>7, <2>1, <2>2 DEF WaitsForItsScan, Kept
<1>13. LostTasksAreOfThrownAttempts'
  <2>1. Named' = Named
    BY <1>1 DEF Named
  <2> QED
    BY <1>1, <1>3, <1>7, <2>1 DEF LostTasksAreOfThrownAttempts
<1>14. ReadsAreOfRecords'
  <2>1. Asked' = Asked /\ NextId' = NextId
    BY <1>1 DEF Asked, NextId
  <2>2. store[Analysis].findings = 0
    BY <1>1, <1>3 DEF ReadsAreOfRecords
  <2> QED
    BY <1>1, <1>3, <1>6, <1>7, <2>1, <2>2 DEF ReadsAreOfRecords
<1> QED
  BY <1>9, <1>10, <1>11, <1>12, <1>13, <1>14 DEF SubmissionInv

\* After a restart nothing is kept, and nothing has to be.
LEMMA RestartKeeps ==
  ASSUME SubmissionInv, Restart
  PROVE  SubmissionInv'
<1>1. /\ restarts' = restarts + 1 /\ DOMAIN store' = {} /\ running' = {}
      /\ store' \in [{} -> Records] /\ answer' \in {answer, 0}
      /\ UNCHANGED <<issued, attempt, phase, listing, tasks, thrown, reporting, got, report>>
  BY DEF Restart, submitter, reporter
<1>2. /\ SubmissionTypeOK /\ IdsAreIssuedOnce /\ TasksFitListing
      /\ WaitsForItsScan /\ LostTasksAreOfThrownAttempts /\ ReadsAreOfRecords
  BY DEF SubmissionInv
<1>3. restarts' \in Nat /\ restarts' > 0 /\ answer' \in Nat
  BY <1>1, <1>2, TypesAre
<1>4. SubmissionTypeOK'
  BY <1>1, <1>2, <1>3 DEF SubmissionTypeOK
<1>5. IdsAreIssuedOnce'
  BY <1>1, <1>2 DEF IdsAreIssuedOnce
<1>6. TasksFitListing'
  BY <1>1, <1>2, <1>3 DEF TasksFitListing, Kept
<1>7. WaitsForItsScan'
  <2>1. Row' = Row /\ Named' = Named
    BY <1>1 DEF Row, Named
  <2> QED
    BY <1>1, <1>2, <1>3, <2>1 DEF WaitsForItsScan, Kept
<1>8. LostTasksAreOfThrownAttempts'
  BY <1>1, <1>2 DEF LostTasksAreOfThrownAttempts
<1>9. ReadsAreOfRecords'
  <2>1. Asked' = Asked
    BY <1>1 DEF Asked
  <2> QED
    BY <1>1, <1>2, <2>1 DEF ReadsAreOfRecords
<1> QED
  BY <1>4, <1>5, <1>6, <1>7, <1>8, <1>9 DEF SubmissionInv

\* What the report reads and notes concerns no one else.
LEMMA ReportKeeps ==
  ASSUME SubmissionInv, StartReport \/ Report
  PROVE  SubmissionInv'
<1>1. UNCHANGED <<attempt, phase, listing, tasks, thrown, issued, running, answer, store, restarts>>
  BY DEF StartReport, Report, ReadResult, ReadRiskSummary, ReportThrows, ReturnReport,
         submitter, backend
<1>2. /\ SubmissionTypeOK /\ IdsAreIssuedOnce /\ TasksFitListing
      /\ WaitsForItsScan /\ LostTasksAreOfThrownAttempts /\ ReadsAreOfRecords
  BY DEF SubmissionInv
<1>3. /\ IdsAreIssuedOnce' /\ TasksFitListing' /\ WaitsForItsScan'
      /\ LostTasksAreOfThrownAttempts'
  BY <1>1, <1>2 DEF IdsAreIssuedOnce, TasksFitListing, WaitsForItsScan, Kept, Row, Named,
                    LostTasksAreOfThrownAttempts
<1>4. Asked' = Asked
  BY <1>1 DEF Asked
<1>5. /\ store \in [DOMAIN store -> Records] /\ report \in Seq(ReportEntries) /\ got \in Records
      /\ Len(report) \in Nat /\ Len(Asked) \in Nat
      /\ reporting \in {"idle", "result", "risk summary", "returned", "thrown"}
  <2>1. Len(report) \in Nat /\ Len(tasks) + 1 \in Nat /\ Len(Asked) = Len(tasks) + 1
    BY <1>2, TypesAre, AskedIs
  <2>2. /\ store \in [DOMAIN store -> Records] /\ report \in Seq(ReportEntries)
        /\ got \in Records
        /\ reporting \in {"idle", "result", "risk summary", "returned", "thrown"}
    BY <1>2 DEF SubmissionTypeOK
  <2> QED
    BY <2>1, <2>2
<1>6. CASE ReadRiskSummary
  <2> DEFINE entry == [id |-> NextId, findings |-> got.findings,
                       status |-> StatusOf(store[NextId], got)]
  <2>1. /\ reporting = "risk summary" /\ NextId \in DOMAIN store
        /\ report' = Append(report, entry) /\ reporting' = "result" /\ got' = got
        /\ Len(report) < Len(Asked)
    BY <1>6 DEF ReadRiskSummary, MoreReads
  <2>2. entry \in ReportEntries
    <3>1. NextId \in Nat /\ store[NextId] \in Records
      BY <1>2, <1>5, <2>1, TypesAre
    <3> QED
      BY <1>5, <3>1 DEF ReportEntries, Records, StatusOf
  <2> HIDE DEF entry
  <2>3. report' \in Seq(ReportEntries) /\ Len(report') <= Len(Asked)
    <3>1. report' \in Seq(ReportEntries) /\ Len(report') = Len(report) + 1
      BY <1>5, <2>1, <2>2, OneMoreAtEnd
    <3>2. /\ Len(report) \in Nat /\ Len(Asked) \in Nat /\ Len(report) < Len(Asked)
      BY <1>5, <2>1
    <3>3. Len(report) + 1 <= Len(Asked)
      BY <3>2
    <3> QED
      BY <3>1, <3>3
  <2>4. SubmissionTypeOK'
    BY <1>1, <1>2, <2>1, <2>3 DEF SubmissionTypeOK
  <2>5. ReadsAreOfRecords'
    BY <1>1, <1>2, <1>4, <2>1, <2>3 DEF ReadsAreOfRecords
  <2> QED
    BY <1>3, <2>4, <2>5 DEF SubmissionInv
<1>7. CASE ~ReadRiskSummary
  <2>1. /\ report' = report
        /\ \/ /\ reporting = "result" /\ Len(report) < Len(Asked) /\ NextId \in DOMAIN store
              /\ got' = store[NextId] /\ reporting' = "risk summary"
           \/ /\ got' = got /\ reporting' \in {"result", "returned", "thrown"}
              /\ phase = "returned" \/ reporting # "idle"
    BY <1>7 DEF StartReport, Report, ReadResult, ReportThrows, ReturnReport, MoreReads
  <2>2. NextId' = NextId
    BY <1>4, <2>1 DEF NextId
  <2>3. got' \in Records
    BY <1>5, <2>1
  <2>4. SubmissionTypeOK'
    BY <1>1, <1>2, <2>1, <2>3 DEF SubmissionTypeOK
  <2>5. ReadsAreOfRecords'
    BY <1>1, <1>2, <1>4, <2>1, <2>2 DEF ReadsAreOfRecords
  <2> QED
    BY <1>3, <2>4, <2>5 DEF SubmissionInv
<1> QED
  BY <1>6, <1>7

LEMMA SubmissionStep == SubmissionInv /\ [SubmissionNext]_submissionVars => SubmissionInv'
<1> SUFFICES ASSUME SubmissionInv, [SubmissionNext]_submissionVars PROVE SubmissionInv'
  OBVIOUS
<1>1. ASSUME Throw, Submit PROVE SubmissionInv'
  <2>1. /\ phase \in {"listing", "posting", "waiting"}
        /\ UNCHANGED <<issued, running, store, restarts, reporter>>
        /\ answer' = 0 \/ (phase # "waiting" /\ answer' = answer)
    <3>1. phase' = "thrown"
      BY <1>1 DEF Throw
    <3>2. CASE ReadListing \/ ListingFails
      BY <3>2 DEF ReadListing, ListingFails, backend
    <3>3. CASE RowUnusable \/ PostRefused
      BY <3>3 DEF RowUnusable, PostRefused, MorePosts, backend
    <3>4. CASE GiveUp
      BY <3>4 DEF GiveUp
    <3>5. CASE PostTask \/ ReadAnswer \/ ReturnTasks
      BY <3>1, <3>5 DEF PostTask, ReadAnswer, ReturnTasks
    <3> QED
      BY <1>1, <3>2, <3>3, <3>4, <3>5 DEF Submit
  <2>2. answer' = 0
    BY <2>1 DEF SubmissionInv, WaitsForItsScan
  <2> QED
    BY <1>1, <2>1, <2>2, ThrowKeeps
<1>2. ASSUME ~Throw, Submit PROVE SubmissionInv'
  <2>1. ReadListing \/ ReturnTasks \/ PostTask \/ ReadAnswer
    BY <1>2 DEF Submit, ListingFails, RowUnusable, PostRefused, GiveUp
  <2> QED
    BY <1>2, <2>1, ListingKeeps, PostTaskKeeps, ReadAnswerKeeps
<1>3. CASE UNCHANGED submissionVars
  <2>1. UNCHANGED <<attempt, phase, listing, tasks, thrown, issued, running, answer, store,
                    restarts, reporting, report, got>>
    BY <1>3 DEF submissionVars, submitter, backend, reporter
  <2>2. SubmissionTypeOK'
    BY <2>1 DEF SubmissionInv, SubmissionTypeOK
  <2>3. IdsAreIssuedOnce' /\ WaitsForItsScan'
    <3>1. IdsAreIssuedOnce /\ WaitsForItsScan
      BY DEF SubmissionInv
    <3>2. IdsAreIssuedOnce'
      BY <2>1, <3>1 DEF IdsAreIssuedOnce
    <3>3. Row' = Row /\ Named' = Named /\ Kept(issued, Row.asset)' = Kept(issued, Row.asset)
      BY <2>1 DEF Row, Named, Kept
    <3>4. WaitsForItsScan'
      BY <2>1, <3>1, <3>3 DEF WaitsForItsScan
    <3> QED
      BY <3>2, <3>4
  <2>4. TasksFitListing'
    <3>1. \A id, asset : Kept(id, asset)' = Kept(id, asset)
      BY <2>1 DEF Kept
    <3> QED
      BY <2>1, <3>1 DEF SubmissionInv, TasksFitListing
  <2>5. LostTasksAreOfThrownAttempts' /\ ReadsAreOfRecords'
    BY <2>1 DEF SubmissionInv, LostTasksAreOfThrownAttempts, ReadsAreOfRecords, Named,
                Asked, NextId
  <2> QED
    BY <2>2, <2>3, <2>4, <2>5 DEF SubmissionInv
<1>4. ASSUME ~Submit, SubmissionNext PROVE SubmissionInv'
  BY <1>4, TryAgainKeeps, ReportKeeps, EndScanKeeps, SettleKeeps, RestartKeeps
     DEF SubmissionNext
<1> QED
  BY <1>1, <1>2, <1>3, <1>4

-----------------------------------------------------------------------------
(* The results.                                                            *)

\* The submission, the backend and the report fit together in every state.
THEOREM SubmissionInductive == Spec => []SubmissionInv
<1>1. Init => SubmissionInv
  BY SubmissionStarts DEF Init
<1> QED
  BY <1>1, ScriptsStep, SubmissionStep, PTL DEF Spec

\* Whatever timeouts, retries and restarts, a submission that returns names one task of
\* its own for each record.
THEOREM TasksAreNamed == Spec => []SubmissionNamesItsTasks
<1>1. SubmissionInv => SubmissionNamesItsTasks
  <2> SUFFICES ASSUME SubmissionInv, phase = "returned"
               PROVE  /\ Len(tasks) = Len(listing)
                      /\ \A i, j \in DOMAIN tasks : tasks[i].id = tasks[j].id => i = j
                      /\ \A i \in DOMAIN tasks : /\ tasks[i].asset = listing[i].asset
                                                /\ Kept(tasks[i].id, tasks[i].asset)
    BY DEF SubmissionNamesItsTasks
  <2>1. SubmissionTypeOK /\ IdsAreIssuedOnce /\ TasksFitListing
    BY DEF SubmissionInv
  <2>2. ASSUME NEW i \in DOMAIN tasks, NEW j \in DOMAIN tasks, tasks[i].id = tasks[j].id
        PROVE  i = j
    <3>1. i \in Nat /\ j \in Nat /\ tasks[i].id \in Nat /\ tasks[j].id \in Nat
      BY <2>1, TypesAre
    <3>2. ~ (i < j) /\ ~ (j < i)
      BY <2>1, <2>2, <3>1 DEF IdsAreIssuedOnce
    <3> QED
      BY <3>1, <3>2
  <2> QED
    BY <2>1, <2>2 DEF TasksFitListing
<1> QED
  BY <1>1, SubmissionInductive, PTL

\* An entry of the report has the status its task has when the entry is made, and
\* findings of the same record but for an analysis that was settled between two reads.
THEOREM ReportFitsStore == Spec => ReportTellsStore
<1>1. ASSUME SubmissionInv, [SubmissionNext]_submissionVars, report' # report
      PROVE  EntryFitsStore
  <2>1. ReadRiskSummary
    BY <1>1 DEF SubmissionNext, Submit, ReadListing, ListingFails, PostTask, RowUnusable,
                PostRefused, ReadAnswer, GiveUp, ReturnTasks, TryAgain, StartReport, Report,
                ReadResult, ReportThrows, ReturnReport, EndScan, SettleAnalysis, Restart,
                submissionVars, reporter
  <2> DEFINE entry == [id |-> NextId, findings |-> got.findings,
                       status |-> StatusOf(store[NextId], got)]
  <2>2. /\ report' = Append(report, entry) /\ NextId \in DOMAIN store
        /\ reporting = "risk summary"
    BY <2>1 DEF ReadRiskSummary
  <2>3. /\ entry.id = NextId /\ entry.findings = got.findings
        /\ entry.status = store[NextId].status
    BY DEF StatusOf
  <2> HIDE DEF entry
  <2>4. report \in Seq(ReportEntries)
    BY <1>1 DEF SubmissionInv, SubmissionTypeOK
  <2>5. Len(report') = Len(report) + 1 /\ report'[Len(report')] = entry
    <3>1. entry \in ReportEntries
      <4>1. SubmissionTypeOK /\ got \in Records /\ store \in [DOMAIN store -> Records]
        BY <1>1 DEF SubmissionInv, SubmissionTypeOK
      <4>2. NextId \in Nat /\ store[NextId] \in Records
        BY <2>2, <4>1, TypesAre
      <4> QED
        BY <4>1, <4>2 DEF entry, ReportEntries, Records, StatusOf
    <3>2. report' = Append(report, entry)
      BY <2>2
    <3> QED
      BY ONLY <2>4, <3>1, <3>2, OneMoreAtEnd
  <2>6. \/ got.findings = store[NextId].findings
        \/ NextId = Analysis /\ got.findings = 0
    <3>1. ReadsAreOfRecords
      BY <1>1 DEF SubmissionInv
    <3> QED
      BY <2>2, <3>1 DEF ReadsAreOfRecords
  <2> QED
    BY <2>3, <2>5, <2>6 DEF EntryFitsStore, NextId
<1>2. SubmissionInv /\ [Next]_scriptVars => [report' # report => EntryFitsStore]_submissionVars
  BY <1>1, ScriptsStep
<1> QED
  BY <1>2, SubmissionInductive, PTL DEF Spec, ReportTellsStore

-----------------------------------------------------------------------------
(***************************************************************************)
(* PortVerification                                                        *)
(***************************************************************************)

-----------------------------------------------------------------------------
(* Sequences and finite sets.                                              *)

LEMMA OneMoreInSequence ==
  ASSUME NEW S, NEW s \in Seq(S), NEW e \in S, NEW t, t = Append(s, e)
  PROVE  /\ t \in Seq(S) /\ Len(s) \in Nat /\ Len(t) = Len(s) + 1
         /\ DOMAIN t = DOMAIN s \cup {Len(s) + 1} /\ Len(s) + 1 \notin DOMAIN s
         /\ t[Len(s) + 1] = e /\ \A i \in DOMAIN s : t[i] = s[i]
<1>1. /\ t \in Seq(S) /\ Len(s) \in Nat /\ Len(t) = Len(s) + 1
      /\ DOMAIN s = 1 .. Len(s) /\ DOMAIN t = 1 .. Len(t)
  OBVIOUS
<1>2. t[Len(s) + 1] = e /\ \A i \in DOMAIN s : t[i] = s[i]
  BY <1>1
<1>3. DOMAIN t = DOMAIN s \cup {Len(s) + 1} /\ Len(s) + 1 \notin DOMAIN s
  BY <1>1
<1> QED
  BY <1>1, <1>2, <1>3

\* A set that an element was added to, or taken from.
LEMMA OneMoreElement ==
  ASSUME NEW S, IsFiniteSet(S), NEW x, x \notin S
  PROVE  Cardinality(S) \in Nat /\ Cardinality(S \cup {x}) = Cardinality(S) + 1
BY FS_AddElement, FS_CardinalityType

LEMMA OneLessElement ==
  ASSUME NEW S, IsFiniteSet(S), NEW x, x \in S
  PROVE  Cardinality(S) \in Nat /\ Cardinality(S \ {x}) = Cardinality(S) - 1
BY FS_RemoveElement, FS_CardinalityType

LEMMA TargetsAreCounted == ASSUME NEW file \in Seq(TaskKinds) PROVE Targets(file) \in Nat
<1>1. DOMAIN file = 1 .. Len(file) /\ Len(file) \in Nat
  OBVIOUS
<1>2. IsFiniteSet(DOMAIN file)
  BY <1>1, FS_Interval
<1>3. {i \in DOMAIN file : file[i] = "resolved"} \in SUBSET DOMAIN file
  OBVIOUS
<1>4. IsFiniteSet({i \in DOMAIN file : file[i] = "resolved"})
  BY <1>2, <1>3, FS_Subset
<1> QED
  BY <1>4, FS_CardinalityType DEF Targets

-----------------------------------------------------------------------------
(* The entries of the layers.                                              *)

\* The types of single variables.
LEMMA LoopTypes ==
  ASSUME VerificationTypeOK
  PROVE  /\ evidence \in Seq(EvidenceEntries) /\ Len(evidence) \in Nat
         /\ DOMAIN evidence = 1 .. Len(evidence)
         /\ \A t \in DOMAIN evidence : evidence[t] \in EvidenceEntries
         /\ Target \in Nat \ {0} /\ Target = Len(evidence) + 1 /\ Target \notin DOMAIN evidence
         /\ verified \in Seq(Nat) /\ Len(verified) \in Nat
         /\ DOMAIN verified = 1 .. Len(verified)
         /\ \A i \in DOMAIN verified : verified[i] \in Nat
         /\ targets \in Nat /\ counts \in Counters /\ naabu \in Exits
         /\ counts.naabuSuccess \in Nat /\ counts.nmapAttempted \in Nat /\ counts.failed \in Nat
         /\ looked \subseteq 1 .. targets /\ seenOpen \subseteq 1 .. targets
<1>1. /\ evidence \in Seq(EvidenceEntries) /\ verified \in Seq(Nat)
      /\ targets \in Nat /\ counts \in Counters /\ naabu \in Exits
      /\ looked \subseteq 1 .. targets /\ seenOpen \subseteq 1 .. targets
  BY DEF VerificationTypeOK
<1>2. /\ Len(evidence) \in Nat /\ DOMAIN evidence = 1 .. Len(evidence)
      /\ \A t \in DOMAIN evidence : evidence[t] \in EvidenceEntries
      /\ Len(verified) \in Nat /\ DOMAIN verified = 1 .. Len(verified)
      /\ \A i \in DOMAIN verified : verified[i] \in Nat
  BY <1>1
<1>3. /\ counts.naabuSuccess \in Nat /\ counts.nmapAttempted \in Nat /\ counts.failed \in Nat
  BY <1>1 DEF Counters
<1>4. Target = Len(evidence) + 1 /\ Target \in Nat \ {0} /\ Target \notin DOMAIN evidence
  BY <1>2 DEF Target
<1> QED
  BY <1>1, <1>2, <1>3, <1>4

\* The sets that are counted are finite.
LEMMA CountedSetsAreFinite ==
  ASSUME VerificationTypeOK
  PROVE  /\ IsFiniteSet(NaabuOk) /\ IsFiniteSet(NmapRun)
         /\ IsFiniteSet(Lost) /\ IsFiniteSet(seenOpen)
<1>1. IsFiniteSet(DOMAIN evidence) /\ IsFiniteSet(1 .. targets)
  BY LoopTypes, FS_Interval
<1>2. /\ NaabuOk \in SUBSET DOMAIN evidence /\ NmapRun \in SUBSET DOMAIN evidence
      /\ Lost \in SUBSET DOMAIN evidence /\ seenOpen \in SUBSET (1 .. targets)
  BY LoopTypes DEF NaabuOk, NmapRun, Lost
<1> QED
  BY <1>1, <1>2, FS_Subset

\* The target at hand gets its entry, the last one.
LEMMA FiledEntry ==
  ASSUME VerificationTypeOK, NEW exit \in Exits, NEW nmap \in NmapExits,
         FileEvidence(exit, nmap)
  PROVE  /\ evidence' \in Seq(EvidenceEntries) /\ Len(evidence') = Target
         /\ DOMAIN evidence' = DOMAIN evidence \cup {Target}
         /\ evidence'[Target].naabu = exit /\ evidence'[Target].nmap = nmap
         /\ \A t \in DOMAIN evidence : evidence'[t] = evidence[t]
<1>1. [naabu |-> exit, nmap |-> nmap] \in EvidenceEntries
  BY DEF EvidenceEntries
<1>2. PICK entry \in EvidenceEntries : /\ evidence' = Append(evidence, entry)
                                       /\ entry.naabu = exit /\ entry.nmap = nmap
  BY <1>1 DEF FileEvidence
<1>3. evidence \in Seq(EvidenceEntries) /\ Target = Len(evidence) + 1
  BY LoopTypes
<1>4. evidence' = Append(evidence, entry) /\ entry \in EvidenceEntries
  BY <1>2
<1>5. /\ evidence' \in Seq(EvidenceEntries) /\ Len(evidence') = Len(evidence) + 1
      /\ DOMAIN evidence' = DOMAIN evidence \cup {Len(evidence) + 1}
      /\ evidence'[Len(evidence) + 1] = entry
      /\ \A t \in DOMAIN evidence : evidence'[t] = evidence[t]
  BY <1>3, <1>4, OneMoreInSequence
<1> QED
  BY <1>2, <1>3, <1>5

\* Then naabu has succeeded for one target more, or not.
LEMMA FiledNaabu ==
  ASSUME VerificationTypeOK, NEW exit \in Exits, NEW nmap \in NmapExits,
         FileEvidence(exit, nmap)
  PROVE  /\ Cardinality(NaabuOk) \in Nat
         /\ Cardinality(NaabuOk') =
              IF exit = "ok" THEN Cardinality(NaabuOk) + 1 ELSE Cardinality(NaabuOk)
<1>1. /\ DOMAIN evidence' = DOMAIN evidence \cup {Target} /\ Target \notin DOMAIN evidence
      /\ evidence'[Target].naabu = exit
      /\ \A t \in DOMAIN evidence : evidence'[t] = evidence[t]
  BY FiledEntry, LoopTypes
<1>2. /\ NaabuOk' = IF exit = "ok" THEN NaabuOk \cup {Target}
                                           ELSE NaabuOk
      /\ Target \notin NaabuOk
  BY <1>1 DEF NaabuOk
<1>3. IsFiniteSet(NaabuOk)
  BY CountedSetsAreFinite
<1>4. Cardinality(NaabuOk) \in Nat
  BY <1>3, FS_CardinalityType
<1>5. exit = "ok" => Cardinality(NaabuOk') = Cardinality(NaabuOk) + 1
  BY <1>2, <1>3, OneMoreElement
<1> QED
  BY <1>2, <1>4, <1>5

\* One target more that nmap was run for, or not.
LEMMA FiledNmap ==
  ASSUME VerificationTypeOK, NEW exit \in Exits, NEW nmap \in NmapExits,
         FileEvidence(exit, nmap)
  PROVE  NmapRun' = IF nmap = "not run" THEN NmapRun
                                                 ELSE NmapRun \cup {Target}
<1>1. /\ DOMAIN evidence' = DOMAIN evidence \cup {Target} /\ Target \notin DOMAIN evidence
      /\ evidence'[Target].nmap = nmap
      /\ \A t \in DOMAIN evidence : evidence'[t] = evidence[t]
  BY FiledEntry, LoopTypes
<1> QED
  BY <1>1 DEF NmapRun

\* And one more that was lost, if nmap has failed and no sample is made of the target.
LEMMA FiledLost ==
  ASSUME VerificationTypeOK, NEW exit \in Exits, NEW nmap \in NmapExits,
         FileEvidence(exit, nmap), Range(verified) \subseteq DOMAIN evidence,
         Range(verified') = Range(verified) \/ nmap = "ok",
         Range(verified') \subseteq Range(verified) \cup {Target},
         Range(verified) \subseteq Range(verified')
  PROVE  /\ Cardinality(Lost) \in Nat
         /\ Cardinality(Lost') =
              IF nmap = "failed" THEN Cardinality(Lost) + 1 ELSE Cardinality(Lost)
<1>1. /\ DOMAIN evidence' = DOMAIN evidence \cup {Target} /\ Target \notin DOMAIN evidence
      /\ evidence'[Target].nmap = nmap
      /\ \A t \in DOMAIN evidence : evidence'[t] = evidence[t]
  BY FiledEntry, LoopTypes
<1>2. \A t \in DOMAIN evidence : t \in Range(verified') <=> t \in Range(verified)
  BY <1>1
<1>3. Target \notin Lost
  BY <1>1 DEF Lost
<1>4. CASE nmap = "failed"
  <2>1. Target \notin Range(verified')
    BY <1>1, <1>4
  <2>2. Lost' = Lost \cup {Target}
    BY <1>1, <1>2, <1>4, <2>1 DEF Lost
  <2> QED
    BY <1>3, <1>4, <2>2, CountedSetsAreFinite, OneMoreElement
<1>5. CASE nmap # "failed"
  <2>1. Lost' = Lost
    BY <1>1, <1>2, <1>5 DEF Lost
  <2>2. Cardinality(Lost) \in Nat
    BY CountedSetsAreFinite, FS_CardinalityType
  <2> QED
    BY <1>5, <2>1, <2>2
<1> QED
  BY <1>4, <1>5

\* One sample more, at the end of those that were made.
LEMMA OneMoreSample ==
  ASSUME VerificationTypeOK, NEW target \in Nat, Verified(target),
         \A i \in DOMAIN verified : verified[i] < target,
         \A i \in DOMAIN verified : i > 1 => verified[i - 1] < verified[i]
  PROVE  /\ verified' \in Seq(Nat) /\ Range(verified') = Range(verified) \cup {target}
         /\ \A i \in DOMAIN verified' : verified'[i] \in Range(verified) \cup {target}
         /\ \A i \in DOMAIN verified' : i > 1 => verified'[i - 1] < verified'[i]
<1>1. verified \in Seq(Nat) /\ verified' = Append(verified, target)
  BY LoopTypes DEF Verified
<1>2. /\ verified' \in Seq(Nat) /\ Len(verified) \in Nat /\ Len(verified') = Len(verified) + 1
      /\ DOMAIN verified' = DOMAIN verified \cup {Len(verified) + 1}
      /\ verified'[Len(verified) + 1] = target
      /\ \A i \in DOMAIN verified : verified'[i] = verified[i]
  BY <1>1, OneMoreInSequence
<1>3. \A i \in DOMAIN verified : verified[i] \in Range(verified)
  BY DEF Range
<1>4. Range(verified') = Range(verified) \cup {target}
  BY <1>2 DEF Range
<1>5. ASSUME NEW i \in DOMAIN verified', i > 1
      PROVE  verified'[i - 1] < verified'[i]
  <2>1. DOMAIN verified = 1 .. Len(verified)
    BY LoopTypes
  <2>2. i - 1 \in DOMAIN verified
    BY <1>2, <1>5, <2>1
  <2> QED
    BY <1>2, <1>5, <2>2
<1> QED
  BY <1>2, <1>3, <1>4, <1>5

\* A sample is of a target that nmap was run for, so it has an entry.
LEMMA SamplesHaveEntries ==
  ASSUME VerificationTypeOK, LoopInv
  PROVE  /\ Range(verified) \subseteq NmapRun /\ NmapRun \subseteq DOMAIN evidence
         /\ \A i \in DOMAIN verified : verified[i] \in NmapRun /\ verified[i] \in Nat
                                       /\ verified[i] <= Len(evidence)
<1>1. NmapRun \subseteq DOMAIN evidence
  BY DEF NmapRun
<1>2. \A i \in DOMAIN verified : verified[i] \in NmapRun
  BY DEF LoopInv
<1>3. Range(verified) \subseteq NmapRun
  BY <1>2 DEF Range
<1> QED
  BY <1>1, <1>2, <1>3, LoopTypes

-----------------------------------------------------------------------------
(* The invariant.                                                          *)

LEMMA VerificationStarts == VerificationInit => VerificationInv
<1> SUFFICES ASSUME VerificationInit PROVE VerificationInv
  OBVIOUS
<1>1. /\ step \in {"idle", "reading"} /\ targets = 0 /\ evidence = <<>> /\ verified = <<>>
      /\ skipNaabu = FALSE /\ naabu = "failed" /\ looked = {} /\ seenOpen = {} /\ writing = {}
      /\ options = [naabuTimed |-> TRUE, nmapTimed |-> TRUE, fallback |-> TRUE]
      /\ counts = [naabuSuccess |-> 0, nmapAttempted |-> 0, failed |-> 0]
      /\ files = [f \in Layers \cup {Summary} |-> "earlier"]
  BY DEF VerificationInit
<1>2. VerificationTypeOK
  <2>1. options \in Options /\ counts \in Counters
    BY <1>1 DEF Options, Counters
  <2>2. files \in [Layers \cup {Summary} -> Contents] /\ naabu \in Exits
    BY <1>1 DEF Contents, Exits
  <2>3. evidence \in Seq(EvidenceEntries) /\ verified \in Seq(Nat)
    BY <1>1
  <2> QED
    BY <1>1, <2>1, <2>2, <2>3 DEF VerificationTypeOK
<1>3. NaabuOk = {} /\ NmapRun = {} /\ Lost = {}
  BY <1>1 DEF NaabuOk, NmapRun, Lost
<1>4. LoopInv
  <2>1. Len(evidence) = 0 /\ DOMAIN evidence = {} /\ DOMAIN verified = {}
    BY <1>1
  <2>2. /\ step # "naabu" /\ step # "open check" /\ step # "nmap" /\ step # "probe"
        /\ step # "layers" /\ step # "summary" /\ step # "returned"
    BY <1>1
  <2>3. targets = 0 /\ seenOpen = NmapRun \cup {}
    BY <1>1, <1>3
  <2>4. ~InLoop
    BY <2>2 DEF InLoop
  <2>5. step \notin {"layers", "summary", "returned"}
    BY <2>2
  <2>6. Len(evidence) <= targets
    BY <2>1, <2>3
  <2>7. DOMAIN evidence \subseteq looked
    BY <2>1
  <2>8. seenOpen = NmapRun \cup (IF step = "nmap" THEN {Target} ELSE {})
    BY <2>2, <2>3
  <2>9. \A i \in DOMAIN verified : verified[i] \in NmapRun /\ (i > 1 => verified[i - 1] < verified[i])
    BY <2>1
  <2>10. step = "reading" => targets = 0
    BY <2>3
  <2> QED
    BY ONLY <2>10, <2>2, <2>4, <2>5, <2>6, <2>7, <2>8, <2>9 DEF LoopInv
<1>5. CountsInv
  BY <1>1, <1>3, FS_EmptySet DEF CountsInv, Uncounted
<1>6. FilesInv
  <2>1. \A f \in Layers \cup {Summary} : files[f] = "earlier"
    BY <1>1
  <2> QED
    BY <1>1, <2>1 DEF FilesInv, SummaryComesLast, InLoop
<1> QED
  BY <1>2, <1>4, <1>5, <1>6 DEF VerificationInv

\* Before the loop is over no file is touched.
LEMMA FilesWait ==
  ASSUME VerificationTypeOK, FilesInv, UNCHANGED output,
         step \in {"idle", "reading", "targets", "probe", "naabu", "open check", "nmap"},
         step' \in {"idle", "reading", "targets", "probe", "naabu", "open check", "nmap",
                    "failed"}
  PROVE  FilesInv'
<1>1. writing = {} /\ \A f \in DOMAIN files : files[f] = "earlier"
  BY DEF FilesInv, InLoop
<1>2. DOMAIN files = Layers \cup {Summary}
  BY DEF VerificationTypeOK
<1>3. writing' = writing /\ files' = files
  BY DEF output
<1>4. files'[Summary] = "earlier" /\ writing' = {} /\ \A f \in DOMAIN files' : files'[f] = "earlier"
  BY <1>1, <1>2, <1>3
<1>5. step' # "layers" /\ step' # "summary" /\ step' # "returned"
  OBVIOUS
<1>6. SummaryComesLast'
  BY <1>4, <1>5 DEF SummaryComesLast
<1> QED
  BY <1>4, <1>5, <1>6 DEF FilesInv

\* What there is to show of the loop after a step.
LEMMA LoopHolds ==
  ASSUME step' = "reading" => targets' = 0,
         Len(evidence') <= targets',
         step' \in {"naabu", "open check", "nmap"} => Target' <= targets',
         step' = "naabu" => ~skipNaabu',
         step' = "open check" => naabu' = "failed",
         step' = "probe" =>
           evidence' # <<>> /\ Len(evidence') \in NmapRun'
           /\ \A i \in DOMAIN verified' : verified'[i] < Len(evidence'),
         DOMAIN evidence' \subseteq looked',
         seenOpen' = NmapRun' \cup (IF step' = "nmap" THEN {Target'} ELSE {}),
         step' = "nmap" => Target' \in looked',
         \A i \in DOMAIN verified' : verified'[i] \in NmapRun',
         \A i \in DOMAIN verified' : i > 1 => verified'[i - 1] < verified'[i],
         step' \in {"layers", "summary", "returned"} => Len(evidence') = targets'
  PROVE  LoopInv'
BY DEF LoopInv, InLoop

\* Some tool is about to be run for the target at hand.
ToolStarts ==
  /\ step = "targets" \/ step = "naabu"
  /\ step' = "naabu" \/ step' = "open check"
  /\ Target <= targets
  /\ step' = "naabu" => ~skipNaabu'
  /\ step' = "open check" => naabu' = "failed"
  /\ skipNaabu' \in BOOLEAN /\ naabu' \in Exits
  /\ looked' = looked \/ looked' = looked \cup {Target}
  /\ UNCHANGED <<options, targets, evidence, verified, counts, output, seenOpen>>

LEMMA StartsKeep ==
  ASSUME VerificationTypeOK, LoopInv, CountsInv, ToolStarts
  PROVE  VerificationTypeOK' /\ LoopInv' /\ CountsInv'
<1>1. /\ options' = options /\ targets' = targets /\ evidence' = evidence
      /\ verified' = verified /\ counts' = counts /\ writing' = writing /\ files' = files
      /\ seenOpen' = seenOpen
  BY DEF ToolStarts, output
<1>2. Target' = Target /\ NmapRun' = NmapRun /\ NaabuOk' = NaabuOk /\ Lost' = Lost
  BY <1>1 DEF Target, NmapRun, NaabuOk, Lost
<1>3. /\ Target \in Nat \ {0} /\ targets \in Nat /\ looked \subseteq 1 .. targets
      /\ Target <= targets /\ (looked' = looked \/ looked' = looked \cup {Target})
  BY LoopTypes DEF ToolStarts
<1>4. looked' \subseteq 1 .. targets /\ looked \subseteq looked'
  <2>1. Target \in 1 .. targets
    BY <1>3
  <2> QED
    BY <1>3, <2>1
<1>5. VerificationTypeOK'
  <2>1. step' \in {"naabu", "open check"} /\ skipNaabu' \in BOOLEAN /\ naabu' \in Exits
    BY DEF ToolStarts
  <2> QED
    BY <1>1, <1>4, <2>1 DEF VerificationTypeOK
<1>6. /\ Len(evidence) <= targets /\ DOMAIN evidence \subseteq looked
      /\ \A i \in DOMAIN verified : verified[i] \in NmapRun
      /\ \A i \in DOMAIN verified : i > 1 => verified[i - 1] < verified[i]
  BY DEF LoopInv
<1>7. LoopInv'
  <2>1. seenOpen = NmapRun
    BY DEF LoopInv, ToolStarts
  <2>2. /\ step' = "naabu" => ~skipNaabu'
        /\ step' = "open check" => naabu' = "failed"
        /\ step' = "naabu" \/ step' = "open check"
    BY DEF ToolStarts
  <2>3. /\ step' \notin {"reading", "probe", "nmap"}
        /\ step' \notin {"layers", "summary", "returned"}
        /\ seenOpen' = NmapRun' \cup (IF step' = "nmap" THEN {Target'} ELSE {})
    BY <1>1, <1>2, <2>1, <2>2
  <2>4. Len(evidence') <= targets' /\ Target' <= targets' /\ DOMAIN evidence' \subseteq looked'
    BY <1>1, <1>2, <1>3, <1>4, <1>6
  <2> QED
    BY <1>1, <1>2, <1>6, <2>2, <2>3, <2>4, LoopHolds
<1>8. CountsInv'
  <2>1. step # "nmap" /\ step # "probe" /\ step' # "nmap" /\ step' # "probe"
    BY DEF ToolStarts
  <2> QED
    BY <1>1, <1>2, <2>1 DEF CountsInv, Uncounted
<1> QED
  BY <1>5, <1>7, <1>8

\* A tool has seen the port of the target at hand open, and nmap is next.
PortSeenOpen ==
  /\ step = "naabu" \/ step = "open check"
  /\ step' = "nmap"
  /\ skipNaabu' \in BOOLEAN /\ naabu' \in Exits
  /\ looked' = looked \cup {Target}
  /\ seenOpen' = seenOpen \cup {Target}
  /\ counts' \in Counters
  /\ counts'.naabuSuccess = IF naabu' = "ok" THEN counts.naabuSuccess + 1 ELSE counts.naabuSuccess
  /\ counts'.nmapAttempted = counts.nmapAttempted + 1
  /\ counts'.failed = counts.failed
  /\ UNCHANGED <<options, targets, evidence, verified, output>>

LEMMA OpensKeep ==
  ASSUME VerificationTypeOK, LoopInv, CountsInv, PortSeenOpen
  PROVE  VerificationTypeOK' /\ LoopInv' /\ CountsInv'
<1>1. /\ options' = options /\ targets' = targets /\ evidence' = evidence
      /\ verified' = verified /\ writing' = writing /\ files' = files
      /\ looked' = looked \cup {Target} /\ seenOpen' = seenOpen \cup {Target}
  BY DEF PortSeenOpen, output
<1>2. Target' = Target /\ NmapRun' = NmapRun /\ NaabuOk' = NaabuOk /\ Lost' = Lost
  BY <1>1 DEF Target, NmapRun, NaabuOk, Lost
<1>3. /\ Len(evidence) <= targets /\ DOMAIN evidence \subseteq looked
      /\ \A i \in DOMAIN verified : verified[i] \in NmapRun
      /\ \A i \in DOMAIN verified : i > 1 => verified[i - 1] < verified[i]
  BY DEF LoopInv
<1>4. seenOpen = NmapRun /\ Target <= targets
  BY DEF LoopInv, InLoop, PortSeenOpen
<1>5. /\ looked \subseteq 1 .. targets /\ seenOpen \subseteq 1 .. targets
      /\ targets \in Nat /\ Target \in Nat \ {0} /\ Target \notin DOMAIN evidence
      /\ counts.naabuSuccess \in Nat
  BY LoopTypes
<1>6. VerificationTypeOK'
  <2>1. looked' \subseteq 1 .. targets /\ seenOpen' \subseteq 1 .. targets
    BY <1>1, <1>4, <1>5
  <2>2. step' = "nmap" /\ skipNaabu' \in BOOLEAN /\ naabu' \in Exits /\ counts' \in Counters
    BY DEF PortSeenOpen
  <2> QED
    BY <1>1, <2>1, <2>2 DEF VerificationTypeOK
<1>7. LoopInv'
  <2>1. step' = "nmap"
    BY DEF PortSeenOpen
  <2>2. /\ step' \notin {"reading", "naabu", "open check", "probe"}
        /\ step' \notin {"layers", "summary", "returned"}
        /\ seenOpen' = NmapRun' \cup (IF step' = "nmap" THEN {Target'} ELSE {})
    BY <1>1, <1>2, <1>4, <2>1
  <2> QED
    BY <1>1, <1>2, <1>3, <1>4, <2>2, LoopHolds
<1>8. CountsInv'
  <2>1. Target \notin seenOpen
    BY <1>4, <1>5 DEF NmapRun
  <2>2. Cardinality(seenOpen') = Cardinality(seenOpen) + 1
    BY <1>1, <2>1, CountedSetsAreFinite, OneMoreElement
  <2>3. step # "nmap" /\ step # "probe" /\ step' = "nmap"
    BY DEF PortSeenOpen
  <2>4. /\ counts.naabuSuccess = Cardinality(NaabuOk) + 0
        /\ counts.nmapAttempted = Cardinality(seenOpen)
        /\ counts.failed + 0 = Cardinality(Lost)
    BY <2>3 DEF CountsInv, Uncounted
  <2>5. Cardinality(NaabuOk) \in Nat
    BY CountedSetsAreFinite, FS_CardinalityType
  <2>6. /\ counts'.naabuSuccess =
             IF naabu' = "ok" THEN counts.naabuSuccess + 1 ELSE counts.naabuSuccess
        /\ counts'.nmapAttempted = counts.nmapAttempted + 1
        /\ counts'.failed = counts.failed
    BY DEF PortSeenOpen
  <2>7. Uncounted' = 0
    BY <2>3 DEF Uncounted
  <2> QED
    BY <1>2, <2>2, <2>3, <2>4, <2>5, <2>6, <2>7 DEF CountsInv
<1> QED
  BY <1>6, <1>7, <1>8

\* The target at hand gets its entry; of an nmap that has succeeded there may be a sample.
\* What it lost is counted now, or after the endpoint was asked.
EntryFiled(exit, nmap) ==
  /\ FileEvidence(exit, nmap)
  /\ step' = "targets" \/ step' = "probe"
  /\ IF step = "nmap" THEN nmap # "not run" /\ exit = naabu /\ looked' = looked
     ELSE /\ step = "naabu" \/ step = "open check"
          /\ nmap = "not run" /\ step' = "targets" /\ looked' = looked \cup {Target}
  /\ \/ verified' = verified
     \/ nmap = "ok" /\ step' = "targets" /\ Verified(Target)
  /\ naabu' \in Exits
  /\ counts' \in Counters
  /\ counts'.naabuSuccess = IF step # "nmap" /\ exit = "ok" THEN counts.naabuSuccess + 1
                                                           ELSE counts.naabuSuccess
  /\ counts'.nmapAttempted = counts.nmapAttempted
  /\ counts'.failed = IF step' = "targets" /\ nmap = "failed" THEN counts.failed + 1
                                                             ELSE counts.failed
  /\ UNCHANGED <<options, targets, skipNaabu, output, seenOpen>>

\* What then holds of the samples.
LEMMA FiledSamples ==
  ASSUME VerificationTypeOK, LoopInv, NEW exit \in Exits, NEW nmap \in NmapExits,
         EntryFiled(exit, nmap)
  PROVE  /\ verified' \in Seq(Nat)
         /\ Range(verified) \subseteq Range(verified')
         /\ Range(verified') \subseteq Range(verified) \cup {Target}
         /\ Range(verified') = Range(verified) \/ nmap = "ok"
         /\ \A i \in DOMAIN verified' : verified'[i] \in NmapRun'
         /\ \A i \in DOMAIN verified' : i > 1 => verified'[i - 1] < verified'[i]
         /\ step' = "probe" => \A i \in DOMAIN verified' : verified'[i] < Len(evidence')
<1>1. /\ \A i \in DOMAIN verified : verified[i] \in NmapRun /\ verified[i] \in Nat
                                    /\ verified[i] <= Len(evidence)
      /\ \A i \in DOMAIN verified : verified[i] \in Range(verified)
      /\ Range(verified) \subseteq NmapRun
  BY SamplesHaveEntries DEF Range
<1>2. /\ Target = Len(evidence) + 1 /\ Target \in Nat /\ Len(evidence) \in Nat
      /\ verified \in Seq(Nat)
  BY LoopTypes
<1>3. \A i \in DOMAIN verified : i > 1 => verified[i - 1] < verified[i]
  BY DEF LoopInv
<1>4. FileEvidence(exit, nmap)
  BY DEF EntryFiled
<1>5. /\ NmapRun' = IF nmap = "not run" THEN NmapRun ELSE NmapRun \cup {Target}
      /\ Len(evidence') = Target
  BY <1>4, FiledNmap, FiledEntry
<1>6. \A i \in DOMAIN verified : verified[i] < Target
  BY <1>1, <1>2
<1>7. CASE verified' = verified
  BY <1>1, <1>2, <1>3, <1>5, <1>6, <1>7
<1>8. CASE nmap = "ok" /\ step' = "targets" /\ Verified(Target)
  <2>1. /\ verified' \in Seq(Nat) /\ Range(verified') = Range(verified) \cup {Target}
        /\ \A i \in DOMAIN verified' : verified'[i] \in Range(verified) \cup {Target}
        /\ \A i \in DOMAIN verified' : i > 1 => verified'[i - 1] < verified'[i]
    BY <1>2, <1>3, <1>6, <1>8, OneMoreSample
  <2>2. NmapRun' = NmapRun \cup {Target}
    BY <1>5, <1>8
  <2> QED
    BY <1>1, <1>8, <2>1, <2>2
<1> QED
  BY <1>7, <1>8 DEF EntryFiled

LEMMA FilesKeep ==
  ASSUME VerificationTypeOK, LoopInv, CountsInv, NEW exit \in Exits, NEW nmap \in NmapExits,
         EntryFiled(exit, nmap)
  PROVE  VerificationTypeOK' /\ LoopInv' /\ CountsInv'
<1>1. /\ FileEvidence(exit, nmap)
      /\ options' = options /\ targets' = targets /\ skipNaabu' = skipNaabu
      /\ writing' = writing /\ files' = files /\ seenOpen' = seenOpen
      /\ looked' = looked \/ looked' = looked \cup {Target}
  BY DEF EntryFiled, output
<1>2. /\ evidence' \in Seq(EvidenceEntries) /\ Len(evidence') = Target
      /\ DOMAIN evidence' = DOMAIN evidence \cup {Target}
      /\ evidence'[Target].nmap = nmap
  BY <1>1, FiledEntry
<1>3. /\ looked \subseteq 1 .. targets /\ seenOpen \subseteq 1 .. targets
      /\ targets \in Nat /\ Target \in Nat \ {0} /\ counts.naabuSuccess \in Nat
      /\ counts.failed \in Nat
  BY LoopTypes
<1>4. /\ Target <= targets /\ DOMAIN evidence \subseteq looked
  BY DEF LoopInv, InLoop, EntryFiled
<1>5. looked' \subseteq 1 .. targets
  <2>1. Target \in 1 .. targets
    BY <1>3, <1>4
  <2> QED
    BY <1>1, <1>3, <2>1
<1>6. Target \in looked' /\ looked \subseteq looked'
  <2>1. CASE step = "nmap"
    <3>1. Target \in looked
      BY <2>1 DEF LoopInv
    <3> QED
      BY <1>1, <3>1
  <2>2. CASE step # "nmap"
    BY <2>2 DEF EntryFiled
  <2> QED
    BY <2>1, <2>2
<1>7. VerificationTypeOK'
  <2>1. step' \in {"targets", "probe"} /\ naabu' \in Exits /\ counts' \in Counters
    BY DEF EntryFiled
  <2>2. verified' \in Seq(Nat)
    BY FiledSamples
  <2> QED
    BY <1>1, <1>2, <1>3, <1>5, <2>1, <2>2 DEF VerificationTypeOK
<1>8. seenOpen' = NmapRun'
  <2>1. NmapRun' = IF nmap = "not run" THEN NmapRun ELSE NmapRun \cup {Target}
    BY <1>1, FiledNmap
  <2>2. seenOpen = IF step = "nmap" THEN NmapRun \cup {Target} ELSE NmapRun
    BY DEF LoopInv
  <2>3. step = "nmap" <=> nmap # "not run"
    BY DEF EntryFiled
  <2> QED
    BY <1>1, <2>1, <2>2, <2>3
<1>9. LoopInv'
  <2>1. step' = "targets" \/ (step' = "probe" /\ nmap # "not run")
    BY DEF EntryFiled
  <2>2. /\ step' \notin {"naabu", "open check", "nmap"}
        /\ step' \notin {"reading", "layers", "summary", "returned"}
    BY <2>1
  <2>3. step' = "probe" => evidence' # <<>> /\ Len(evidence') \in NmapRun'
    <3>1. nmap # "not run" => Target \in NmapRun'
      BY <1>1, FiledNmap
    <3>2. evidence' # <<>>
      BY <1>2, <1>3
    <3> QED
      BY <1>2, <2>1, <3>1, <3>2
  <2>4. DOMAIN evidence' \subseteq looked'
    BY <1>2, <1>4, <1>6
  <2>5. seenOpen' = NmapRun' \cup (IF step' = "nmap" THEN {Target'} ELSE {})
    BY <1>8, <2>2
  <2>6. Len(evidence') <= targets'
    BY <1>1, <1>2, <1>4
  <2> QED
    BY <2>2, <2>3, <2>4, <2>5, <2>6, FiledSamples, LoopHolds
<1>10. CountsInv'
  <2>1. /\ Cardinality(NaabuOk) \in Nat
        /\ Cardinality(NaabuOk') =
             IF exit = "ok" THEN Cardinality(NaabuOk) + 1 ELSE Cardinality(NaabuOk)
    BY <1>1, FiledNaabu
  <2>2. /\ Cardinality(Lost) \in Nat
        /\ Cardinality(Lost') =
             IF nmap = "failed" THEN Cardinality(Lost) + 1 ELSE Cardinality(Lost)
    <3>1. Range(verified) \subseteq DOMAIN evidence
      BY SamplesHaveEntries
    <3>2. /\ Range(verified) \subseteq Range(verified')
          /\ Range(verified') \subseteq Range(verified) \cup {Target}
          /\ Range(verified') = Range(verified) \/ nmap = "ok"
      BY FiledSamples
    <3> QED
      BY <1>1, <3>1, <3>2, FiledLost
  <2>3. step # "probe" /\ step' # "nmap" /\ (step' = "targets" \/ step' = "probe")
    BY DEF EntryFiled
  <2>4. /\ counts.naabuSuccess =
             IF step = "nmap" /\ naabu = "ok" THEN Cardinality(NaabuOk) + 1
                                              ELSE Cardinality(NaabuOk)
        /\ counts.nmapAttempted = Cardinality(seenOpen)
        /\ counts.failed = Cardinality(Lost)
    BY <1>3, <2>1, <2>2, <2>3 DEF CountsInv, Uncounted
  <2>5. /\ counts'.naabuSuccess = IF step # "nmap" /\ exit = "ok" THEN counts.naabuSuccess + 1
                                                                 ELSE counts.naabuSuccess
        /\ counts'.nmapAttempted = counts.nmapAttempted
        /\ counts'.failed = IF step' = "targets" /\ nmap = "failed" THEN counts.failed + 1
                                                                   ELSE counts.failed
        /\ step = "nmap" => exit = naabu
    BY DEF EntryFiled
  <2>6. Uncounted' = IF step' = "probe" /\ nmap = "failed" THEN 1 ELSE 0
    BY <1>2 DEF Uncounted
  <2>7. counts'.naabuSuccess = Cardinality(NaabuOk')
    BY <2>1, <2>4, <2>5
  <2>8. counts'.failed + Uncounted' = Cardinality(Lost')
    BY <1>3, <2>2, <2>3, <2>4, <2>5, <2>6
  <2>9. Cardinality(NaabuOk') \in Nat
    BY <2>1
  <2> QED
    BY <1>1, <2>3, <2>4, <2>5, <2>7, <2>8, <2>9 DEF CountsInv
<1> QED
  BY <1>7, <1>9, <1>10

\* The endpoint was asked: now the target has its sample, or what it lost is counted.
LEMMA ProbeKeeps ==
  ASSUME VerificationTypeOK, LoopInv, CountsInv, ProbeEnds
  PROVE  VerificationTypeOK' /\ LoopInv' /\ CountsInv'
<1> DEFINE n == Len(evidence)
<1>1. /\ options' = options /\ targets' = targets /\ skipNaabu' = skipNaabu /\ naabu' = naabu
      /\ evidence' = evidence /\ writing' = writing /\ files' = files
      /\ looked' = looked /\ seenOpen' = seenOpen
      /\ step = "probe" /\ step' = "targets"
  BY DEF ProbeEnds, output
<1>2. \/ Verified(n) /\ counts' = counts
      \/ /\ verified' = verified
         /\ counts' = IF evidence[n].nmap = "ok" THEN counts
                                                 ELSE [counts EXCEPT !.failed = @ + 1]
  BY DEF ProbeEnds
<1>3. /\ n \in Nat /\ verified \in Seq(Nat) /\ DOMAIN evidence = 1 .. n
      /\ counts \in Counters /\ counts.failed \in Nat
  BY LoopTypes
<1>4. /\ evidence # <<>> /\ n \in NmapRun
      /\ \A i \in DOMAIN verified : verified[i] < n
      /\ \A i \in DOMAIN verified : i > 1 => verified[i - 1] < verified[i]
  BY <1>1 DEF LoopInv
<1>5. /\ n \in DOMAIN evidence /\ (evidence[n].nmap = "ok" \/ evidence[n].nmap = "failed")
  <2>1. n \in DOMAIN evidence /\ evidence[n].nmap # "not run"
    BY <1>4 DEF NmapRun
  <2>2. evidence[n] \in EvidenceEntries
    BY <2>1, LoopTypes
  <2> QED
    BY <2>1, <2>2 DEF EvidenceEntries, NmapExits, Exits
<1>6. n \notin Range(verified)
  BY <1>3, <1>4, LoopTypes DEF Range
<1>7. NmapRun' = NmapRun /\ NaabuOk' = NaabuOk
  BY <1>1 DEF NmapRun, NaabuOk
<1>8. /\ verified' \in Seq(Nat)
      /\ \A i \in DOMAIN verified' : verified'[i] \in NmapRun'
      /\ \A i \in DOMAIN verified' : i > 1 => verified'[i - 1] < verified'[i]
  <2>1. Range(verified) \subseteq NmapRun /\ \A i \in DOMAIN verified : verified[i] \in NmapRun
    BY SamplesHaveEntries
  <2>2. CASE verified' = verified
    BY <1>3, <1>4, <1>7, <2>1, <2>2
  <2>3. CASE Verified(n)
    <3>1. /\ verified' \in Seq(Nat)
          /\ \A i \in DOMAIN verified' : verified'[i] \in Range(verified) \cup {n}
          /\ \A i \in DOMAIN verified' : i > 1 => verified'[i - 1] < verified'[i]
      BY <1>3, <1>4, <2>3, OneMoreSample
    <3> QED
      BY <1>4, <1>7, <2>1, <3>1
  <2> QED
    BY <1>2, <2>2, <2>3
<1>9. /\ counts' \in Counters
      /\ counts'.naabuSuccess = counts.naabuSuccess
      /\ counts'.nmapAttempted = counts.nmapAttempted
      /\ counts'.failed = IF verified' = verified /\ evidence[n].nmap = "failed"
                            THEN counts.failed + 1 ELSE counts.failed
  <2>1. CASE Verified(n) /\ counts' = counts
    <3>1. verified' # verified
      <4>1. verified' = Append(verified, n)
        BY <2>1 DEF Verified
      <4>2. Len(verified') = Len(verified) + 1 /\ Len(verified) \in Nat
        BY <1>3, <4>1
      <4> QED
        BY <4>2
    <3> HIDE DEF n
    <3> QED
      BY <2>1, <3>1, <1>3
  <2>2. CASE /\ verified' = verified
             /\ counts' = IF evidence[n].nmap = "ok" THEN counts
                                                     ELSE [counts EXCEPT !.failed = @ + 1]
    <3>1. CASE evidence[n].nmap = "ok"
      BY <1>3, <2>2, <3>1
    <3>2. CASE evidence[n].nmap = "failed"
      <4>1. counts' = [counts EXCEPT !.failed = @ + 1]
        BY <2>2, <3>2
      <4> QED
        BY <1>3, <2>2, <3>2, <4>1 DEF Counters
    <3> QED
      BY <1>5, <3>1, <3>2
  <2> QED
    BY <1>2, <2>1, <2>2
<1>10. VerificationTypeOK'
  BY <1>1, <1>8, <1>9 DEF VerificationTypeOK
<1>11. LoopInv'
  <2>1. /\ Len(evidence) <= targets /\ DOMAIN evidence \subseteq looked /\ seenOpen = NmapRun
    BY <1>1 DEF LoopInv
  <2>2. /\ step' \notin {"naabu", "open check", "nmap"} /\ step' # "probe"
        /\ step' \notin {"reading", "layers", "summary", "returned"}
        /\ seenOpen' = NmapRun' \cup (IF step' = "nmap" THEN {Target'} ELSE {})
    BY <1>1, <1>7, <2>1
  <2> QED
    BY <1>1, <1>8, <2>1, <2>2, LoopHolds
<1>12. CountsInv'
  <2>1. /\ Cardinality(NaabuOk) \in Nat /\ Cardinality(Lost) \in Nat /\ IsFiniteSet(Lost)
    BY CountedSetsAreFinite, FS_CardinalityType
  <2>2. /\ counts.naabuSuccess = Cardinality(NaabuOk) + 0
        /\ counts.nmapAttempted = Cardinality(seenOpen)
        /\ counts.failed + (IF evidence[n].nmap = "failed" THEN 1 ELSE 0) = Cardinality(Lost)
    BY <1>1 DEF CountsInv, Uncounted
  <2>3. Uncounted' = 0
    BY <1>1 DEF Uncounted
  <2>4. counts'.failed = Cardinality(Lost')
    <3>1. CASE evidence[n].nmap = "failed" /\ verified' = verified
      <4>1. Lost' = Lost
        BY <1>1, <3>1 DEF Lost
      <4> QED
        BY <1>3, <1>9, <2>2, <3>1, <4>1
    <3>2. CASE verified' # verified
      <4>1. Range(verified') = Range(verified) \cup {n}
        BY <1>2, <1>3, <1>4, <3>2, OneMoreSample
      <4>2. Lost' = Lost \ {n}
        BY <1>1, <4>1 DEF Lost
      <4>3. n \in Lost <=> evidence[n].nmap = "failed"
        BY <1>5, <1>6 DEF Lost
      <4>4. CASE evidence[n].nmap = "failed"
        <5>1. Cardinality(Lost') = Cardinality(Lost) - 1
          BY <2>1, <4>2, <4>3, <4>4, OneLessElement
        <5> QED
          BY <1>3, <1>9, <2>1, <2>2, <3>2, <4>4, <5>1
      <4>5. CASE evidence[n].nmap # "failed"
        <5>1. Lost' = Lost
          BY <4>2, <4>3, <4>5
        <5> QED
          BY <1>3, <1>9, <2>2, <4>5, <5>1
      <4> QED
        BY <4>4, <4>5
    <3>3. CASE evidence[n].nmap = "ok" /\ verified' = verified
      <4>1. Lost' = Lost
        BY <1>1, <3>3 DEF Lost
      <4> QED
        BY <1>3, <1>9, <2>2, <3>3, <4>1
    <3> QED
      BY <1>5, <3>1, <3>2, <3>3
  <2>5. counts'.failed \in Nat
    BY <1>3, <1>9
  <2> QED
    BY <1>1, <1>7, <1>9, <2>1, <2>2, <2>3, <2>4, <2>5 DEF CountsInv
<1> QED
  BY <1>10, <1>11, <1>12

-----------------------------------------------------------------------------
(* The steps of the loop.                                                  *)

LEMMA NaabuKeeps ==
  ASSUME VerificationTypeOK, LoopInv, CountsInv, NEW exit \in Exits, NaabuEnds(exit)
  PROVE  VerificationTypeOK' /\ LoopInv' /\ CountsInv'
<1>1. /\ step = "naabu" /\ naabu' = exit /\ looked' = looked \cup {Target}
      /\ UNCHANGED <<options, targets, verified, output>>
  BY DEF NaabuEnds
<1>2. /\ skipNaabu \in BOOLEAN /\ counts \in Counters /\ Target <= targets
  BY <1>1 DEF VerificationTypeOK, LoopInv, InLoop
<1>3. CASE /\ Open /\ UNCHANGED skipNaabu
           /\ counts' = [counts EXCEPT !.naabuSuccess = @ + (IF exit = "ok" THEN 1 ELSE 0),
                                       !.nmapAttempted = @ + 1]
  <2>1. /\ counts' \in Counters
        /\ counts'.naabuSuccess = IF exit = "ok" THEN counts.naabuSuccess + 1
                                                 ELSE counts.naabuSuccess
        /\ counts'.nmapAttempted = counts.nmapAttempted + 1
        /\ counts'.failed = counts.failed
    <3> DEFINE ok == IF exit = "ok" THEN 1 ELSE 0
               found == [counts EXCEPT !.naabuSuccess = @ + ok]
    <3>1. ok \in Nat /\ (exit = "ok" => ok = 1) /\ (exit # "ok" => ok = 0)
      OBVIOUS
    <3>2. counts' = [found EXCEPT !.nmapAttempted = @ + 1]
      BY <1>2, <1>3 DEF Counters
    <3>3. counts.naabuSuccess \in Nat
      BY <1>2 DEF Counters
    <3> HIDE DEF ok
    <3>4. /\ found \in Counters /\ found.naabuSuccess = counts.naabuSuccess + ok
          /\ found.nmapAttempted = counts.nmapAttempted /\ found.failed = counts.failed
      <4>1. ok \in Nat /\ counts \in Counters
        BY <1>2, <3>1
      <4> QED
        BY ONLY <4>1 DEF Counters
    <3> HIDE DEF found
    <3>5. /\ counts' \in Counters /\ counts'.naabuSuccess = found.naabuSuccess
          /\ counts'.nmapAttempted = found.nmapAttempted + 1 /\ counts'.failed = found.failed
      BY ONLY <3>2, <3>4 DEF Counters
    <3> QED
      BY <3>1, <3>3, <3>4, <3>5
  <2>2. step' = "nmap" /\ seenOpen' = seenOpen \cup {Target} /\ evidence' = evidence
    BY <1>3 DEF Open
  <2>3. PortSeenOpen
    BY <1>1, <1>2, <1>3, <2>1, <2>2 DEF PortSeenOpen
  <2> QED
    BY <2>3, OpensKeep
<1>4. CASE /\ NotOpen(exit) /\ UNCHANGED skipNaabu
           /\ counts' = [counts EXCEPT !.naabuSuccess = @ + (IF exit = "ok" THEN 1 ELSE 0)]
  <2>1. /\ counts' \in Counters
        /\ counts'.naabuSuccess = IF exit = "ok" THEN counts.naabuSuccess + 1
                                                 ELSE counts.naabuSuccess
        /\ counts'.nmapAttempted = counts.nmapAttempted
        /\ counts'.failed = counts.failed
    BY <1>2, <1>4 DEF Counters
  <2>2. FileEvidence(exit, "not run") /\ step' = "targets" /\ seenOpen' = seenOpen
    BY <1>4 DEF NotOpen
  <2>3. EntryFiled(exit, "not run")
    BY <1>1, <1>4, <2>1, <2>2 DEF EntryFiled
  <2> QED
    BY <2>3, FilesKeep DEF NmapExits
<1>5. CASE /\ skipNaabu' = TRUE /\ exit = "failed" /\ step' = "open check"
           /\ UNCHANGED <<counts, evidence, seenOpen>>
  <2>1. ToolStarts
    BY <1>1, <1>2, <1>5 DEF ToolStarts
  <2> QED
    BY <2>1, StartsKeep
<1> QED
  BY <1>3, <1>4, <1>5 DEF NaabuEnds

LEMMA OpenCheckKeeps ==
  ASSUME VerificationTypeOK, LoopInv, CountsInv, NEW exit \in Exits, OpenCheckEnds(exit)
  PROVE  VerificationTypeOK' /\ LoopInv' /\ CountsInv'
<1>1. /\ step = "open check" /\ looked' = looked \cup {Target}
      /\ UNCHANGED <<options, targets, skipNaabu, naabu, verified, output>>
  BY DEF OpenCheckEnds
<1>2. skipNaabu \in BOOLEAN /\ counts \in Counters /\ naabu \in Exits /\ naabu = "failed"
  BY <1>1 DEF VerificationTypeOK, LoopInv
<1>3. CASE Open /\ counts' = [counts EXCEPT !.nmapAttempted = @ + 1]
  <2>1. /\ counts' \in Counters /\ counts'.naabuSuccess = counts.naabuSuccess
        /\ counts'.nmapAttempted = counts.nmapAttempted + 1
        /\ counts'.failed = counts.failed
    BY <1>2, <1>3 DEF Counters
  <2>2. step' = "nmap" /\ seenOpen' = seenOpen \cup {Target} /\ evidence' = evidence
    BY <1>3 DEF Open
  <2>3. PortSeenOpen
    BY <1>1, <1>2, <2>1, <2>2 DEF PortSeenOpen
  <2> QED
    BY <2>3, OpensKeep
<1>4. CASE NotOpen(naabu) /\ UNCHANGED counts
  <2>1. FileEvidence(naabu, "not run") /\ step' = "targets" /\ seenOpen' = seenOpen
    BY <1>4 DEF NotOpen
  <2>2. EntryFiled(naabu, "not run")
    BY <1>1, <1>2, <1>4, <2>1 DEF EntryFiled
  <2> QED
    BY <1>2, <2>2, FilesKeep DEF NmapExits
<1> QED
  BY <1>3, <1>4 DEF OpenCheckEnds

LEMMA NmapKeeps ==
  ASSUME VerificationTypeOK, LoopInv, CountsInv, NEW exit \in Exits, NmapEnds(exit)
  PROVE  VerificationTypeOK' /\ LoopInv' /\ CountsInv'
<1>1. /\ step = "nmap" /\ FileEvidence(naabu, exit)
      /\ UNCHANGED <<options, targets, skipNaabu, naabu, output, looked, seenOpen>>
  BY DEF NmapEnds
<1>2. /\ counts \in Counters /\ naabu \in Exits /\ exit \in NmapExits
      /\ exit # "not run" /\ (exit = "ok" \/ exit = "failed")
  BY DEF VerificationTypeOK, Exits, NmapExits
<1>3. CASE exit = "ok" /\ step' = "targets" /\ Verified(Target) /\ UNCHANGED counts
  <2>1. EntryFiled(naabu, exit)
    BY <1>1, <1>2, <1>3 DEF EntryFiled
  <2> QED
    BY <1>2, <2>1, FilesKeep
<1>4. CASE step' = "probe" /\ UNCHANGED <<verified, counts>>
  <2>1. EntryFiled(naabu, exit)
    BY <1>1, <1>2, <1>4 DEF EntryFiled
  <2> QED
    BY <1>2, <2>1, FilesKeep
<1>5. CASE /\ step' = "targets" /\ UNCHANGED verified
           /\ counts' = IF exit = "ok" THEN counts ELSE [counts EXCEPT !.failed = @ + 1]
  <2>1. /\ counts' \in Counters /\ counts'.naabuSuccess = counts.naabuSuccess
        /\ counts'.nmapAttempted = counts.nmapAttempted
        /\ counts'.failed = IF exit = "failed" THEN counts.failed + 1 ELSE counts.failed
    <3>1. CASE exit = "ok"
      BY <1>2, <1>5, <3>1
    <3>2. CASE exit = "failed"
      <4>1. counts' = [counts EXCEPT !.failed = @ + 1]
        BY <1>5, <3>2
      <4> QED
        BY <1>2, <3>2, <4>1 DEF Counters
    <3> QED
      BY <1>2, <3>1, <3>2
  <2>2. EntryFiled(naabu, exit)
    BY <1>1, <1>2, <1>5, <2>1 DEF EntryFiled
  <2> QED
    BY <1>2, <2>2, FilesKeep
<1> QED
  BY <1>3, <1>4, <1>5 DEF NmapEnds

\* A step of the loop, with or without a command.
LoopStep == \/ StartTarget \/ SkipNaabu \/ ProbeEnds
            \/ \E exit \in Exits : NaabuEnds(exit) \/ OpenCheckEnds(exit) \/ NmapEnds(exit)

LEMMA LoopKeeps ==
  ASSUME VerificationInv, LoopStep
  PROVE  VerificationInv'
<1>1. /\ step \in {"targets", "naabu", "open check", "nmap", "probe"}
      /\ step' \in {"targets", "naabu", "open check", "nmap", "probe"}
      /\ UNCHANGED output
  BY DEF LoopStep, StartTarget, SkipNaabu, ProbeEnds, NaabuEnds, OpenCheckEnds, NmapEnds,
         Open, NotOpen
<1>2. step # "failed" /\ step # "dead"
  BY <1>1
<1>3. VerificationTypeOK /\ FilesInv /\ LoopInv /\ CountsInv
  BY <1>2 DEF VerificationInv
<1>4. FilesInv'
  BY <1>1, <1>3, FilesWait
<1>5. ASSUME StartTarget \/ SkipNaabu PROVE ToolStarts
  <2>1. skipNaabu \in BOOLEAN /\ naabu \in Exits /\ "failed" \in Exits
    BY <1>3 DEF VerificationTypeOK, Exits
  <2>2. CASE StartTarget
    <3>1. ~skipNaabu /\ step = "targets" /\ step' = "naabu" /\ Target <= targets
          /\ UNCHANGED <<options, targets, skipNaabu, naabu, evidence, verified, counts, output,
                         looked, seenOpen>>
      BY <2>2 DEF StartTarget
    <3> QED
      BY <2>1, <3>1 DEF ToolStarts
  <2>3. CASE SkipNaabu
    <3>1. /\ naabu' = "failed" /\ step = "targets" /\ step' = "open check" /\ Target <= targets
          /\ UNCHANGED <<options, targets, skipNaabu, evidence, verified, counts, output,
                         looked, seenOpen>>
      BY <2>3 DEF SkipNaabu
    <3> QED
      BY <2>1, <3>1 DEF ToolStarts
  <2> QED
    BY <1>5, <2>2, <2>3
<1>6. VerificationTypeOK' /\ LoopInv' /\ CountsInv'
  BY <1>3, <1>5, StartsKeep, ProbeKeeps, NaabuKeeps, OpenCheckKeeps, NmapKeeps DEF LoopStep
<1> QED
  BY <1>4, <1>6 DEF VerificationInv

-----------------------------------------------------------------------------
(* The file of the submission, and the files that are written.             *)

LEMMA ReadTasksKeeps ==
  ASSUME VerificationInv, ReadTasks
  PROVE  VerificationInv'
<1>1. /\ step = "reading" /\ options' \in Options
      /\ \/ step' = "targets" /\ \E file \in TaskFiles : targets' = Targets(file)
         \/ step' = "failed" /\ targets' = targets
      /\ skipNaabu' = skipNaabu /\ naabu' = naabu /\ evidence' = evidence
      /\ verified' = verified /\ counts' = counts /\ looked' = looked /\ seenOpen' = seenOpen
      /\ output' = output
  BY DEF ReadTasks
<1>2. VerificationTypeOK /\ FilesInv /\ LoopInv /\ CountsInv
  BY <1>1 DEF VerificationInv
<1>3. targets = 0 /\ looked = {} /\ seenOpen = {} /\ targets' \in Nat
  <2>1. targets = 0 /\ looked \subseteq 1 .. targets /\ seenOpen \subseteq 1 .. targets
    BY <1>1, <1>2, LoopTypes DEF LoopInv
  <2>2. \A file \in TaskFiles : Targets(file) \in Nat
    BY TaskFilesAssumption, TargetsAreCounted
  <2> QED
    BY <1>1, <2>1, <2>2
<1>4. FilesInv'
  BY <1>1, <1>2, FilesWait
<1>5. VerificationTypeOK'
  <2>1. step' \in {"targets"} \cup Ended
    BY <1>1 DEF Ended
  <2>2. writing' = writing /\ files' = files
    BY <1>1 DEF output
  <2> QED
    BY <1>1, <1>2, <1>3, <2>1, <2>2 DEF VerificationTypeOK
<1>6. ASSUME step' = "targets" PROVE LoopInv' /\ CountsInv'
  <2>1. NmapRun' = NmapRun /\ NaabuOk' = NaabuOk /\ Lost' = Lost
    BY <1>1 DEF NmapRun, NaabuOk, Lost
  <2>2. Len(evidence) <= targets' /\ Len(evidence) \in Nat
    <3>1. Len(evidence) <= targets
      BY <1>2 DEF LoopInv
    <3>2. Len(evidence) \in Nat
      BY <1>2, LoopTypes
    <3> QED
      BY <1>3, <3>1, <3>2
  <2>3. /\ DOMAIN evidence \subseteq looked /\ seenOpen = NmapRun
        /\ \A i \in DOMAIN verified : verified[i] \in NmapRun
        /\ \A i \in DOMAIN verified : i > 1 => verified[i - 1] < verified[i]
    BY <1>1, <1>2 DEF LoopInv
  <2>4. /\ step' \notin {"naabu", "open check", "nmap"} /\ step' # "probe"
        /\ step' \notin {"reading", "layers", "summary", "returned"}
        /\ seenOpen' = NmapRun' \cup (IF step' = "nmap" THEN {Target'} ELSE {})
    BY <1>1, <1>6, <2>1, <2>3
  <2>5. LoopInv'
    BY <1>1, <2>1, <2>2, <2>3, <2>4, LoopHolds
  <2>6. CountsInv'
    BY <1>1, <1>2, <1>6, <2>1 DEF CountsInv, Uncounted
  <2> QED
    BY <2>5, <2>6
<1>7. step' \notin {"failed", "dead"} => step' = "targets"
  BY <1>1
<1> QED
  BY <1>4, <1>5, <1>6, <1>7 DEF VerificationInv

\* When the loop is over it is not taken up again.
LEMMA LoopRests ==
  ASSUME VerificationTypeOK, LoopInv, CountsInv, UNCHANGED loop,
         step \in {"layers", "summary", "returned"} \/ (step = "targets" /\ Target > targets),
         step' \in {"layers", "summary", "returned"}
  PROVE  LoopInv' /\ CountsInv'
<1>1. /\ targets' = targets /\ skipNaabu' = skipNaabu /\ naabu' = naabu
      /\ evidence' = evidence /\ verified' = verified /\ counts' = counts
      /\ looked' = looked /\ seenOpen' = seenOpen
  BY DEF loop
<1>2. NmapRun' = NmapRun /\ NaabuOk' = NaabuOk /\ Lost' = Lost
  BY <1>1 DEF NmapRun, NaabuOk, Lost
<1>3. /\ Len(evidence) <= targets /\ DOMAIN evidence \subseteq looked /\ seenOpen = NmapRun
      /\ \A i \in DOMAIN verified : verified[i] \in NmapRun
      /\ \A i \in DOMAIN verified : i > 1 => verified[i - 1] < verified[i]
      /\ step \in {"layers", "summary", "returned"} => Len(evidence) = targets
  BY DEF LoopInv
<1>4. Len(evidence) = targets
  BY <1>3, LoopTypes
<1>5. /\ step' \notin {"naabu", "open check", "nmap"} /\ step' # "probe" /\ step' # "reading"
      /\ seenOpen' = NmapRun' \cup (IF step' = "nmap" THEN {Target'} ELSE {})
  BY <1>1, <1>2, <1>3
<1>6. LoopInv'
  BY <1>1, <1>2, <1>3, <1>4, <1>5, LoopHolds
<1>7. CountsInv'
  BY <1>1, <1>2 DEF CountsInv, Uncounted
<1> QED
  BY <1>6, <1>7

\* What the steps with files leave to be shown: the files, and what is being written.
LEMMA FilesStep ==
  ASSUME VerificationInv, UNCHANGED loop, FilesInv',
         writing' \subseteq DOMAIN files', files' \in [Layers \cup {Summary} -> Contents],
         \/ step' = step
         \/ step' \in {"failed", "dead"}
         \/ /\ step \in {"layers", "summary"} \/ (step = "targets" /\ Target > targets)
            /\ step' \in {"layers", "summary", "returned"},
         step' = step => step \in {"layers", "summary", "returned", "failed", "dead"}
  PROVE  VerificationInv'
<1>1. /\ options' = options /\ targets' = targets /\ skipNaabu' = skipNaabu /\ naabu' = naabu
      /\ evidence' = evidence /\ verified' = verified /\ counts' = counts
      /\ looked' = looked /\ seenOpen' = seenOpen
  BY DEF loop
<1>2. VerificationTypeOK
  BY DEF VerificationInv
<1>3. VerificationTypeOK'
  <2>1. step' \in {"layers", "summary"} \cup Ended
    BY DEF Ended
  <2> QED
    BY <1>1, <1>2, <2>1 DEF VerificationTypeOK
<1>4. ASSUME step' \notin {"failed", "dead"} PROVE LoopInv' /\ CountsInv'
  <2>1. /\ \/ step \in {"layers", "summary", "returned"}
           \/ step = "targets" /\ Target > targets
        /\ step' \in {"layers", "summary", "returned"}
    BY <1>4
  <2>2. LoopInv /\ CountsInv
    BY <2>1 DEF VerificationInv
  <2> QED
    BY <1>2, <2>1, <2>2, LoopRests
<1> QED
  BY <1>3, <1>4 DEF VerificationInv

\* Which files are written when.
LEMMA WritingIs ==
  ASSUME VerificationTypeOK, FilesInv, NEW f \in writing
  PROVE  /\ f \in Layers \cup {Summary} /\ DOMAIN files = Layers \cup {Summary}
         /\ step \in {"layers", "summary", "returned", "failed", "dead"}
         /\ f = Summary => step = "summary"
         /\ f \in Layers => step \in {"layers", "failed", "dead"}
         /\ f \in Layers => files[Summary] = "earlier" \/ files[f] = "current"
<1>1. DOMAIN files = Layers \cup {Summary} /\ writing \subseteq DOMAIN files
  BY DEF VerificationTypeOK
<1>2. /\ step \in {"idle", "reading", "targets", "probe"} \/ InLoop => writing = {}
      /\ step \in {"summary", "returned"} => \A g \in Layers : g \notin writing
      /\ Summary \in writing => step = "summary"
  BY DEF FilesInv
<1>3. step \notin {"idle", "reading", "targets", "probe", "naabu", "open check", "nmap"}
  BY <1>2 DEF InLoop
<1>4. step \in {"layers", "summary", "returned", "failed", "dead"}
  BY <1>3 DEF VerificationTypeOK, Ended
<1>5. f \in Layers => files[Summary] = "earlier" \/ files[f] = "current"
  BY DEF FilesInv, SummaryComesLast
<1> QED
  BY <1>1, <1>2, <1>4, <1>5

\* What there is to show of the files after a step.
LEMMA FilesHold ==
  ASSUME step' \in {"layers", "summary", "returned", "failed", "dead"},
         step' = "layers" => /\ Summary \notin writing' /\ files'[Summary] = "earlier"
                             /\ \A f \in Layers : IF f \in writing'
                                                    THEN files'[f] \in {"earlier", "empty"}
                                                    ELSE files'[f] = "current",
         step' \in {"summary", "returned"} =>
           /\ \A f \in Layers : f \notin writing' /\ files'[f] = "current"
           /\ Summary \in writing' \/ files'[Summary] = "current",
         files'[Summary] # "earlier" => \A f \in Layers : files'[f] = "current",
         Summary \in writing' => step' = "summary"
  PROVE  FilesInv'
<1>1. step' \notin {"idle", "reading", "targets", "probe"} /\ ~InLoop'
  BY DEF InLoop
<1>2. step' = "returned" => files'[Summary] = "current" /\ \A f \in Layers : files'[f] = "current"
  OBVIOUS
<1> QED
  BY <1>1, <1>2 DEF FilesInv, SummaryComesLast

LEMMA SummaryIsNoLayer == Summary \notin Layers
BY DEF Summary, Layers

\* The layers are written when the loop is over, and the summary after them.
LEMMA ExportKeeps ==
  ASSUME VerificationInv, ExportLayers
  PROVE  VerificationInv'
<1>1. /\ step = "targets" /\ Target > targets /\ step' = "layers" /\ writing' = Layers
      /\ files' = files /\ UNCHANGED loop
  BY DEF ExportLayers
<1>2. VerificationTypeOK /\ FilesInv
  BY DEF VerificationInv
<1>3. files \in [Layers \cup {Summary} -> Contents] /\ DOMAIN files = Layers \cup {Summary}
  BY <1>2 DEF VerificationTypeOK
<1>4. \A f \in DOMAIN files : files[f] = "earlier"
  BY <1>1, <1>2 DEF FilesInv
<1>5. files'[Summary] = "earlier" /\ \A f \in Layers : files'[f] = "earlier"
  BY <1>1, <1>3, <1>4
<1>6. FilesInv'
  BY <1>1, <1>5, SummaryIsNoLayer, FilesHold
<1> QED
  BY <1>1, <1>3, <1>6, FilesStep

LEMMA SummaryKeeps ==
  ASSUME VerificationInv, WriteSummary
  PROVE  VerificationInv'
<1>1. /\ step = "layers" /\ writing = {} /\ step' = "summary" /\ writing' = {Summary}
      /\ files' = files /\ UNCHANGED loop
  BY DEF WriteSummary
<1>2. VerificationTypeOK /\ FilesInv
  BY DEF VerificationInv
<1>3. files \in [Layers \cup {Summary} -> Contents] /\ DOMAIN files = Layers \cup {Summary}
  BY <1>2 DEF VerificationTypeOK
<1>4. \A f \in Layers : files'[f] = "current" /\ f \notin writing'
  BY <1>1, <1>2, SummaryIsNoLayer DEF FilesInv
<1>5. FilesInv'
  BY <1>1, <1>4, FilesHold
<1> QED
  BY <1>1, <1>3, <1>5, FilesStep

LEMMA ReturnKeeps ==
  ASSUME VerificationInv, ReturnSummary
  PROVE  VerificationInv'
<1>1. /\ step = "summary" /\ writing = {} /\ step' = "returned" /\ writing' = writing
      /\ files' = files /\ UNCHANGED loop
  BY DEF ReturnSummary, output
<1>2. VerificationTypeOK /\ FilesInv
  BY DEF VerificationInv
<1>3. files \in [Layers \cup {Summary} -> Contents] /\ writing \subseteq DOMAIN files
  BY <1>2 DEF VerificationTypeOK
<1>4. files'[Summary] = "current" /\ \A f \in Layers : files'[f] = "current"
  BY <1>1, <1>2 DEF FilesInv
<1>5. FilesInv'
  BY <1>1, <1>4, FilesHold
<1> QED
  BY <1>1, <1>3, <1>5, FilesStep

\* A file that is written may be emptied, completed or left in part; no other is touched,
\* and no layer once the summary is.
LEMMA TouchedFile ==
  ASSUME VerificationTypeOK, FilesInv, NEW f \in writing, NEW content \in Contents,
         files' = [files EXCEPT ![f] = content] \/ files' = files, files[f] # "current"
  PROVE  /\ files' \in [Layers \cup {Summary} -> Contents]
         /\ \A g \in Layers \cup {Summary} : g # f => files'[g] = files[g]
         /\ files'[f] = content \/ files' = files
         /\ files'[Summary] # "earlier" => \A g \in Layers : files'[g] = "current"
<1>1. files \in [Layers \cup {Summary} -> Contents] /\ f \in Layers \cup {Summary}
  BY WritingIs DEF VerificationTypeOK
<1>2. /\ files' \in [Layers \cup {Summary} -> Contents]
      /\ \A g \in Layers \cup {Summary} : g # f => files'[g] = files[g]
      /\ files'[f] = content \/ files' = files
  BY <1>1
<1>3. ASSUME files'[Summary] # "earlier" PROVE \A g \in Layers : files'[g] = "current"
  <2>1. CASE f = Summary
    <3>1. \A g \in Layers : files[g] = "current"
      <4>1. step = "summary"
        BY <2>1, WritingIs
      <4> QED
        BY <4>1 DEF FilesInv
    <3> QED
      BY <1>2, <2>1, <3>1, SummaryIsNoLayer
  <2>2. CASE f # Summary
    <3>1. f \in Layers /\ files[Summary] = "earlier"
      BY <1>1, <2>2, WritingIs
    <3> QED
      BY <1>2, <1>3, <2>2, <3>1
  <2> QED
    BY <2>1, <2>2
<1> QED
  BY <1>2, <1>3

LEMMA OpenKeeps ==
  ASSUME VerificationInv, NEW f \in Layers \cup {Summary}, OpenFile(f)
  PROVE  VerificationInv'
<1>1. /\ f \in writing /\ files[f] = "earlier" /\ files' = [files EXCEPT ![f] = "empty"]
      /\ step' = step /\ writing' = writing /\ UNCHANGED loop
  BY DEF OpenFile
<1>2. VerificationTypeOK /\ FilesInv
  BY DEF VerificationInv
<1>3. /\ step \in {"layers", "summary", "returned", "failed", "dead"}
      /\ f = Summary => step = "summary"
      /\ f \in Layers => step \in {"layers", "failed", "dead"}
  BY <1>1, <1>2, WritingIs
<1>4. /\ files' \in [Layers \cup {Summary} -> Contents]
      /\ \A g \in Layers \cup {Summary} : g # f => files'[g] = files[g]
      /\ files'[Summary] # "earlier" => \A g \in Layers : files'[g] = "current"
  BY <1>1, <1>2, TouchedFile DEF Contents
<1>5. files'[f] = "empty" /\ writing' \subseteq DOMAIN files'
  BY <1>1, <1>2 DEF VerificationTypeOK
<1>6. FilesInv'
  <2>1. ASSUME step = "layers"
        PROVE  /\ Summary \notin writing' /\ files'[Summary] = "earlier"
               /\ \A g \in Layers : IF g \in writing' THEN files'[g] \in {"earlier", "empty"}
                                                      ELSE files'[g] = "current"
    <3>1. /\ Summary \notin writing /\ files[Summary] = "earlier"
          /\ \A g \in Layers : IF g \in writing THEN files[g] \in {"earlier", "empty"}
                                                ELSE files[g] = "current"
      BY <1>2, <2>1 DEF FilesInv
    <3> QED
      BY <1>1, <1>4, <1>5, <3>1
  <2>2. ASSUME step \in {"summary", "returned"}
        PROVE  /\ \A g \in Layers : g \notin writing' /\ files'[g] = "current"
               /\ Summary \in writing' \/ files'[Summary] = "current"
    <3>1. /\ \A g \in Layers : g \notin writing /\ files[g] = "current"
          /\ Summary \in writing \/ files[Summary] = "current"
      BY <1>2, <2>2 DEF FilesInv
    <3>2. f = Summary
      BY <1>1, <3>1
    <3> QED
      BY <1>1, <1>4, <3>1, <3>2, SummaryIsNoLayer
  <2>3. Summary \in writing' => step' = "summary"
    BY <1>1, <1>2 DEF FilesInv
  <2> QED
    BY <1>1, <1>3, <1>4, <2>1, <2>2, <2>3, FilesHold
<1> QED
  BY <1>1, <1>3, <1>4, <1>5, <1>6, FilesStep

LEMMA WriteKeeps ==
  ASSUME VerificationInv, NEW f \in Layers \cup {Summary}, WriteFile(f)
  PROVE  VerificationInv'
<1>1. /\ f \in writing /\ files[f] = "empty" /\ files' = [files EXCEPT ![f] = "current"]
      /\ step' = step /\ writing' = writing \ {f} /\ UNCHANGED loop
  BY DEF WriteFile
<1>2. VerificationTypeOK /\ FilesInv
  BY DEF VerificationInv
<1>3. /\ step \in {"layers", "summary", "returned", "failed", "dead"}
      /\ f = Summary => step = "summary"
      /\ f \in Layers => step \in {"layers", "failed", "dead"}
  BY <1>1, <1>2, WritingIs
<1>4. /\ files' \in [Layers \cup {Summary} -> Contents]
      /\ \A g \in Layers \cup {Summary} : g # f => files'[g] = files[g]
      /\ files'[Summary] # "earlier" => \A g \in Layers : files'[g] = "current"
  BY <1>1, <1>2, TouchedFile DEF Contents
<1>5. files'[f] = "current" /\ writing' \subseteq DOMAIN files'
  BY <1>1, <1>2 DEF VerificationTypeOK
<1>6. FilesInv'
  <2>1. ASSUME step = "layers"
        PROVE  /\ Summary \notin writing' /\ files'[Summary] = "earlier"
               /\ \A g \in Layers : IF g \in writing' THEN files'[g] \in {"earlier", "empty"}
                                                      ELSE files'[g] = "current"
    <3>1. /\ Summary \notin writing /\ files[Summary] = "earlier"
          /\ \A g \in Layers : IF g \in writing THEN files[g] \in {"earlier", "empty"}
                                                ELSE files[g] = "current"
      BY <1>2, <2>1 DEF FilesInv
    <3>2. f # Summary
      BY <1>1, <3>1
    <3>3. \A g \in Layers : g # f => (g \in writing' <=> g \in writing) /\ files'[g] = files[g]
      BY <1>1, <1>4
    <3> QED
      BY <1>1, <1>4, <1>5, <3>1, <3>2, <3>3
  <2>2. ASSUME step \in {"summary", "returned"}
        PROVE  /\ \A g \in Layers : g \notin writing' /\ files'[g] = "current"
               /\ Summary \in writing' \/ files'[Summary] = "current"
    <3>1. /\ \A g \in Layers : g \notin writing /\ files[g] = "current"
          /\ Summary \in writing \/ files[Summary] = "current"
      BY <1>2, <2>2 DEF FilesInv
    <3>2. f = Summary
      BY <1>1, <3>1
    <3> QED
      BY <1>1, <1>4, <1>5, <3>1, <3>2, SummaryIsNoLayer
  <2>3. Summary \in writing' => step' = "summary"
    BY <1>1, <1>2 DEF FilesInv
  <2> QED
    BY <1>1, <1>3, <1>4, <2>1, <2>2, <2>3, FilesHold
<1> QED
  BY <1>1, <1>3, <1>4, <1>5, <1>6, FilesStep

LEMMA FailKeeps ==
  ASSUME VerificationInv, NEW f \in Layers \cup {Summary}, WriteFails(f)
  PROVE  VerificationInv'
<1>1. /\ f \in writing
      /\ \/ files[f] = "empty" /\ files' = [files EXCEPT ![f] = "torn"]
         \/ files' = files
      /\ step' = "failed" /\ writing' = writing \ {f} /\ UNCHANGED loop
  BY DEF WriteFails
<1>2. VerificationTypeOK /\ FilesInv
  BY DEF VerificationInv
<1>3. f = Summary => step = "summary"
  BY <1>1, <1>2, WritingIs
<1>4. /\ files' \in [Layers \cup {Summary} -> Contents]
      /\ files'[Summary] # "earlier" => \A g \in Layers : files'[g] = "current"
  <2>1. CASE files' = files
    BY <1>2, <2>1 DEF VerificationTypeOK, FilesInv, SummaryComesLast
  <2>2. CASE files[f] = "empty" /\ files' = [files EXCEPT ![f] = "torn"]
    BY <1>1, <1>2, <2>2, TouchedFile DEF Contents
  <2> QED
    BY <1>1, <2>1, <2>2
<1>5. Summary \notin writing' /\ writing' \subseteq DOMAIN files'
  <2>1. \A g \in writing : g \in Layers \cup {Summary}
    BY <1>2, WritingIs
  <2>2. ASSUME Summary \in writing, f # Summary PROVE FALSE
    <3>1. step = "summary" /\ f \in Layers /\ step \in {"layers", "failed", "dead"}
      BY <1>1, <1>2, <2>2, WritingIs
    <3> QED
      BY <3>1
  <2> QED
    BY <1>1, <1>4, <2>1, <2>2
<1>6. FilesInv'
  BY <1>1, <1>4, <1>5, FilesHold
<1> QED
  BY <1>1, <1>4, <1>5, <1>6, FilesStep

\* A process that is killed leaves the summary untouched, or complete layers.
LEMMA DieKeeps ==
  ASSUME VerificationInv, Die
  PROVE  VerificationInv'
<1>1. /\ step' = "dead" /\ writing' = {} /\ UNCHANGED loop
      /\ files' \in [Layers \cup {Summary} -> Contents]
      /\ \A f \in DOMAIN files : files'[f] = files[f] \/ (f \in writing /\ files[f] = "empty")
  BY DEF Die, Contents
<1>2. VerificationTypeOK /\ FilesInv
  BY DEF VerificationInv
<1>3. ASSUME files'[Summary] # "earlier" PROVE \A g \in Layers : files'[g] = "current"
  <2>1. DOMAIN files = Layers \cup {Summary}
    BY <1>2 DEF VerificationTypeOK
  <2>2. files[Summary] # "earlier"
    BY <1>1, <1>3, <2>1
  <2>3. \A g \in Layers : files[g] = "current"
    BY <1>2, <2>2 DEF FilesInv, SummaryComesLast
  <2> QED
    BY <1>1, <2>1, <2>3
<1>4. FilesInv'
  BY <1>1, <1>3, FilesHold
<1> QED
  BY <1>1, <1>4, FilesStep

-----------------------------------------------------------------------------
(* The results.                                                            *)

LEMMA VerificationStep == VerificationInv /\ [VerificationNext]_verificationVars => VerificationInv'
<1> SUFFICES ASSUME VerificationInv, [VerificationNext]_verificationVars PROVE VerificationInv'
  OBVIOUS
<1>1. CASE UNCHANGED verificationVars
  BY <1>1 DEF verificationVars, output, VerificationInv, VerificationTypeOK, FilesInv,
              SummaryComesLast, LoopInv, CountsInv, InLoop, Uncounted, Target, NmapRun,
              NaabuOk, Lost
<1>2. ASSUME VerificationNext PROVE VerificationInv'
  <2>1. TimerFires => LoopStep
    BY DEF TimerFires, LoopStep, Exits
  <2>2. (\E exit \in {"ok", "failed"} : CommandEnds(exit)) => LoopStep
    BY DEF CommandEnds, LoopStep, Exits
  <2>3. StartTarget \/ SkipNaabu \/ ProbeEnds => LoopStep
    BY DEF LoopStep
  <2> QED
    BY <1>2, <2>1, <2>2, <2>3, ReadTasksKeeps, LoopKeeps, ExportKeeps, SummaryKeeps,
       ReturnKeeps, OpenKeeps, WriteKeeps, FailKeeps, DieKeeps DEF VerificationNext, Work
<1> QED
  BY <1>1, <1>2

\* The entries, the samples, the counters and the files fit together in every state of a
\* verification that has not failed, and the summary is touched last in any case.
THEOREM VerificationInductive == Spec => []VerificationInv
<1>1. Init => VerificationInv
  BY VerificationStarts DEF Init
<1> QED
  BY <1>1, ScriptsStep, VerificationStep, PTL DEF Spec

\* However commands fail, hang or are killed, the counters of the summary are those of the
\* layers, and there are samples only of targets whose port was seen open.
THEOREM SummaryAlwaysFits == Spec => []SummaryFitsLayers
<1>1. VerificationInv => SummaryFitsLayers
  <2> SUFFICES ASSUME VerificationInv, step \in {"layers", "summary", "returned"}
               PROVE  SummaryFitsLayers
    BY DEF SummaryFitsLayers
  <2>1. VerificationTypeOK /\ LoopInv /\ CountsInv
    BY DEF VerificationInv
  <2>2. step # "nmap" /\ step # "probe"
    OBVIOUS
  <2>3. /\ Len(evidence) = targets /\ DOMAIN evidence \subseteq looked /\ seenOpen = NmapRun
        /\ \A i \in DOMAIN verified : verified[i] \in NmapRun
        /\ \A i \in DOMAIN verified : i > 1 => verified[i - 1] < verified[i]
    BY <2>1, <2>2 DEF LoopInv
  <2>4. counts \in Counters /\ counts.failed \in Nat /\ Cardinality(NaabuOk) \in Nat
    BY <2>1, LoopTypes, CountedSetsAreFinite, FS_CardinalityType
  <2>5. /\ counts.naabuSuccess = Cardinality(NaabuOk)
        /\ counts.nmapAttempted = Cardinality(seenOpen)
        /\ counts.failed = Cardinality(Lost)
    BY <2>1, <2>2, <2>4 DEF CountsInv, Uncounted
  <2>6. counts = [naabuSuccess  |-> Cardinality(NaabuOk),
                  nmapAttempted |-> Cardinality(seenOpen),
                  failed        |-> Cardinality(Lost)]
    BY <2>4, <2>5 DEF Counters
  <2> QED
    BY <2>3, <2>6 DEF SummaryFitsLayers
<1> QED
  BY <1>1, VerificationInductive, PTL

\* Also where a write fails or the process is killed: a summary of this run is only seen
\* beside complete layers of this run.
THEOREM SummaryIsAlwaysLast == Spec => []SummaryComesLast
<1>1. VerificationInv => SummaryComesLast
  BY DEF VerificationInv, FilesInv
<1> QED
  BY <1>1, VerificationInductive, PTL

-----------------------------------------------------------------------------
(***************************************************************************)
(* SixStep                                                                 *)
(***************************************************************************)

LEMMA LeastIs ==
  ASSUME NEW S \in SUBSET Nat, S # {}
  PROVE  Min(S) \in S /\ \A x \in S : Min(S) <= x
<1> DEFINE R == OpToRel(<, Nat)
<1>1. IsWellFoundedOn(R, Nat)
  BY NatLessThanWellFounded
<1>2. PICK m \in S : \A x \in S : ~ (<<x, m>> \in R)
  <2> HIDE DEF R
  <2> QED
    BY <1>1, WFMin
<1>3. \A x \in S : ~ (x < m)
  BY <1>2 DEF OpToRel
<1>4. \A x \in S : m <= x
  BY <1>3
<1> QED
  BY <1>4 DEF Min

\* The greatest element is the least of the upper bounds.
LEMMA GreatestIs ==
  ASSUME NEW n \in Nat, NEW S \in SUBSET (1..n), S # {}
  PROVE  Max(S) \in S /\ \A x \in S : x <= Max(S)
<1> DEFINE Bounds == {m \in Nat : \A x \in S : x <= m}
<1>1. Bounds # {}
  <2>1. n \in Bounds
    OBVIOUS
  <2> QED
    BY <2>1
<1>2. Min(Bounds) \in Bounds /\ \A m \in Bounds : Min(Bounds) <= m
  <2>1. Bounds \in SUBSET Nat
    OBVIOUS
  <2> HIDE DEF Bounds
  <2> QED
    BY <1>1, <2>1, LeastIs
<1>3. PICK m \in Bounds : \A k \in Bounds : m <= k
  <2> HIDE DEF Bounds
  <2> QED
    BY <1>2
<1>4. m \in S
  <2>1. SUFFICES ASSUME m \notin S PROVE FALSE
    OBVIOUS
  <2>2. m \in Nat /\ \A x \in S : x \in Nat /\ x >= 1 /\ x <= m /\ x # m
    BY <2>1
  <2>3. m # 0
    <3>1. PICK x \in S : TRUE
      OBVIOUS
    <3> HIDE DEF Bounds
    <3> QED
      BY <2>2, <3>1
  <2>4. m - 1 \in Bounds
    BY <2>2, <2>3
  <2> HIDE DEF Bounds
  <2> QED
    BY <1>3, <2>2, <2>4
<1>5. \E x \in S : \A y \in S : x >= y
  <2>1. \A y \in S : m >= y
    OBVIOUS
  <2> QED
    BY <1>4, <2>1
<1>6. /\ Max(S) \in S /\ \A y \in S : Max(S) >= y
  BY <1>5 DEF Max
<1> QED
  BY <1>6

\* One turn of the fold, of any function on sets of places.
Turn(list, max, f, s) ==
  IF s = {} THEN <<>> ELSE Take(f[s \ {Max(s)}], list[Max(s)], max)

\* There is a function as the fold defines it: on the sets of the first k places, for
\* every k.
LEMMA FoldExists ==
  ASSUME NEW list, NEW max, NEW n \in Nat
  PROVE  \E f : f = [s \in SUBSET (1..n) |-> Turn(list, max, f, s)]
<1> DEFINE Has(k) == \E f : f = [s \in SUBSET (1..k) |-> Turn(list, max, f, s)]
           Bad == {k \in Nat : ~ Has(k)}
<1>1. Has(0)
  <2> DEFINE f == [s \in SUBSET (1..0) |-> <<>>]
  <2>1. SUBSET (1..0) = {{}}
    <3>1. 1..0 = {}
      OBVIOUS
    <3> QED
      BY <3>1
  <2>2. f = [s \in SUBSET (1..0) |-> Turn(list, max, f, s)]
    <3>1. \A s \in SUBSET (1..0) : Turn(list, max, f, s) = <<>>
      BY <2>1 DEF Turn
    <3> HIDE DEF f
    <3>2. f = [s \in SUBSET (1..0) |-> <<>>]
      BY DEF f
    <3> QED
      BY <3>1, <3>2
  <2> QED
    BY <2>2
<1>2. ASSUME NEW k \in Nat, Has(k)
      PROVE  Has(k + 1)
  <2>1. PICK f : f = [s \in SUBSET (1..k) |-> Turn(list, max, f, s)]
    BY <1>2
  <2> DEFINE g == [s \in SUBSET (1..(k + 1)) |-> Turn(list, max, f, s)]
  <2>2. \A s \in SUBSET (1..k) : g[s] = f[s]
    <3>1. \A s \in SUBSET (1..k) : s \in SUBSET (1..(k + 1))
      <4>1. 1..k \subseteq 1..(k + 1)
        OBVIOUS
      <4> QED
        BY <4>1
    <3>2. \A s \in SUBSET (1..k) : f[s] = Turn(list, max, f, s)
      BY <2>1
    <3>3. \A s \in SUBSET (1..(k + 1)) : g[s] = Turn(list, max, f, s)
      OBVIOUS
    <3> HIDE DEF g
    <3> QED
      BY <3>1, <3>2, <3>3
  <2>3. ASSUME NEW s \in SUBSET (1..(k + 1)), s # {}
        PROVE  s \ {Max(s)} \in SUBSET (1..k)
    <3>1. k + 1 \in Nat
      OBVIOUS
    <3>2. Max(s) \in s /\ \A x \in s : x <= Max(s)
      BY <2>3, <3>1, GreatestIs
    <3>3. \A x \in s : x \in Nat /\ x >= 1 /\ x <= k + 1
      OBVIOUS
    <3>4. \A x \in s \ {Max(s)} : x \in 1..k
      <4> TAKE x \in s \ {Max(s)}
      <4>1. x # Max(s) /\ x <= Max(s) /\ Max(s) <= k + 1 /\ x \in Nat /\ Max(s) \in Nat /\ x >= 1
        BY <3>2, <3>3
      <4> QED
        BY <4>1
    <3> QED
      BY <3>4
  <2>4. \A s \in SUBSET (1..(k + 1)) : Turn(list, max, f, s) = Turn(list, max, g, s)
    <3> HIDE DEF g
    <3> QED
      BY <2>2, <2>3 DEF Turn
  <2>5. g = [s \in SUBSET (1..(k + 1)) |-> Turn(list, max, g, s)]
    <3>1. g = [s \in SUBSET (1..(k + 1)) |-> Turn(list, max, f, s)]
      OBVIOUS
    <3> HIDE DEF g
    <3> QED
      BY <2>4, <3>1
  <2> QED
    BY <2>5
<1>3. Bad = {}
  <2>1. SUFFICES ASSUME Bad # {} PROVE FALSE
    OBVIOUS
  <2>2. Min(Bad) \in Bad /\ \A x \in Bad : Min(Bad) <= x
    <3>1. Bad \in SUBSET Nat
      OBVIOUS
    <3> HIDE DEF Bad
    <3> QED
      BY <2>1, <3>1, LeastIs
  <2> DEFINE m == Min(Bad)
  <2>3. m \in Nat /\ ~ Has(m) /\ \A x \in Nat : ~ Has(x) => m <= x
    BY <2>2
  <2> HIDE DEF m, Has
  <2>4. m # 0
    BY <1>1, <2>3
  <2>5. m - 1 \in Nat /\ ~ (m <= m - 1) /\ (m - 1) + 1 = m
    BY <2>3, <2>4
  <2>6. Has(m - 1)
    BY <2>3, <2>5, Zenon
  <2>7. Has((m - 1) + 1)
    BY <1>2, <2>5, <2>6
  <2> QED
    BY <2>3, <2>5, <2>7
<1> QED
  BY <1>3

\* The loop takes n records in turn.
TakesInTurn(list, max, n, lists) ==
  /\ lists[0] = <<>>
  /\ \A k \in 0..(n - 1) : lists[k + 1] = Take(lists[k], list[k + 1], max)
  /\ uniqueByIpPort(list, max) = lists[n]

LEMMA TakingIs ==
  ASSUME NEW list, NEW max, NEW n \in Nat, DOMAIN list = 1..n
  PROVE  \E lists : TakesInTurn(list, max, n, lists)
<1> DEFINE F(f) == f = [s \in SUBSET (1..n) |-> Turn(list, max, f, s)]
           fold == CHOOSE f : F(f)
           lists == [k \in 0..n |-> fold[1..k]]
<1>1. uniqueByIpPort(list, max) = fold[1..n]
  BY DEF uniqueByIpPort, FoldLeft, MapThenFoldSet, Turn
<1>2. fold = [s \in SUBSET (1..n) |-> Turn(list, max, fold, s)]
  <2>1. \E f : F(f)
    BY FoldExists
  <2>2. F(fold)
    <3> HIDE DEF F
    <3> QED
      BY <2>1
  <2> QED
    BY <2>2
<1> HIDE DEF fold
<1>3. lists[0] = <<>>
  <2>1. lists[0] = fold[1..0] /\ 1..0 = {} /\ 1..0 \in SUBSET (1..n)
    OBVIOUS
  <2>2. fold[1..0] = Turn(list, max, fold, 1..0)
    BY <1>2, <2>1
  <2> QED
    BY <2>1, <2>2 DEF Turn
<1>4. ASSUME NEW k \in 0..(n - 1)
      PROVE  lists[k + 1] = Take(lists[k], list[k + 1], max)
  <2>1. /\ k \in 0..n /\ k + 1 \in 0..n /\ k + 1 \in Nat
        /\ 1..(k + 1) \in SUBSET (1..n) /\ k + 1 \in 1..(k + 1)
    OBVIOUS
  <2>2. Max(1..(k + 1)) = k + 1
    <3>1. /\ Max(1..(k + 1)) \in 1..(k + 1)
          /\ \A x \in 1..(k + 1) : x <= Max(1..(k + 1))
      BY <2>1, GreatestIs
    <3> DEFINE m == Max(1..(k + 1))
    <3>2. m \in 1..(k + 1) /\ k + 1 <= m
      BY <2>1, <3>1
    <3> HIDE DEF m
    <3>3. m = k + 1
      BY <3>2
    <3> QED
      BY <3>3 DEF m
  <2>3. 1..(k + 1) \ {k + 1} = 1..k
    OBVIOUS
  <2>4. lists[k + 1] = fold[1..(k + 1)] /\ lists[k] = fold[1..k]
    BY <2>1
  <2>5. fold[1..(k + 1)] = Turn(list, max, fold, 1..(k + 1))
    BY <1>2, <2>1
  <2>6. 1..(k + 1) # {}
    BY <2>1
  <2> HIDE DEF lists
  <2> QED
    BY <2>2, <2>3, <2>4, <2>5, <2>6 DEF Turn
<1>5. lists[n] = fold[1..n]
  OBVIOUS
<1> HIDE DEF lists
<1>6. TakesInTurn(list, max, n, lists)
  BY <1>1, <1>3, <1>4, <1>5 DEF TakesInTurn
<1> QED
  BY <1>6


-----------------------------------------------------------------------------
(* What the loop over the records computes.                                *)

LEMMA LimitIs ==
  ASSUME NEW max \in Nat
  PROVE  Max({max, 1}) \in Nat /\ Max({max, 1}) = IF max >= 1 THEN max ELSE 1
<1>1. \E x \in {max, 1} : \A y \in {max, 1} : x >= y
  OBVIOUS
<1>2. Max({max, 1}) \in {max, 1} /\ \A y \in {max, 1} : Max({max, 1}) >= y
  BY <1>1 DEF Max
<1> DEFINE m == Max({max, 1})
<1>3. (m = max \/ m = 1) /\ m >= max /\ m >= 1
  BY <1>2
<1> HIDE DEF m
<1> QED
  BY <1>3 DEF m

LEMMA LesserIs ==
  ASSUME NEW x \in Nat, NEW y \in Nat
  PROVE  Min({x, y}) = IF x <= y THEN x ELSE y
<1>1. {x, y} \in SUBSET Nat /\ {x, y} # {}
  OBVIOUS
<1>2. Min({x, y}) \in {x, y} /\ \A z \in {x, y} : Min({x, y}) <= z
  BY <1>1, LeastIs
<1> DEFINE m == Min({x, y})
<1>3. (m = x \/ m = y) /\ m <= x /\ m <= y
  BY <1>2
<1> HIDE DEF m
<1> QED
  BY <1>3 DEF m

IsUsable(record) == record.ip # 0 /\ record.port # 0

\* The usable ones among the first k records.
UsableUpTo(list, k) == {record \in {list[i] : i \in 1..k} : IsUsable(record)}

LEMMA UsableGrows ==
  ASSUME NEW list \in Seq(FofaRecords)
  PROVE  /\ UsableUpTo(list, 0) = {}
         /\ UsableUpTo(list, Len(list)) = Usable(list)
         /\ \A k \in 0..(Len(list) - 1) :
              UsableUpTo(list, k + 1) =
                UsableUpTo(list, k) \cup (IF IsUsable(list[k + 1]) THEN {list[k + 1]} ELSE {})
<1>1. UsableUpTo(list, 0) = {}
  <2>1. 1..0 = {}
    OBVIOUS
  <2> QED
    BY <2>1 DEF UsableUpTo
<1>2. UsableUpTo(list, Len(list)) = Usable(list)
  <2>1. DOMAIN list = 1..Len(list)
    OBVIOUS
  <2> QED
    BY <2>1 DEF UsableUpTo, Usable, ToSet, IsUsable
<1>3. ASSUME NEW k \in 0..(Len(list) - 1)
      PROVE  UsableUpTo(list, k + 1) =
               UsableUpTo(list, k) \cup (IF IsUsable(list[k + 1]) THEN {list[k + 1]} ELSE {})
  <2> DEFINE before == 1..k
             last == k + 1
             all == 1..(k + 1)
             one == UsableUpTo(list, k)
             two == UsableUpTo(list, k + 1)
  <2>1. \A i : i \in all <=> i \in before \/ i = last
    OBVIOUS
  <2>2. \A r : /\ r \in one <=> IsUsable(r) /\ \E i \in before : r = list[i]
               /\ r \in two <=> IsUsable(r) /\ \E i \in all : r = list[i]
    BY DEF UsableUpTo
  <2> HIDE DEF before, last, all, one, two
  <2>3. \A r : r \in two <=> r \in one \/ (r = list[last] /\ IsUsable(r))
    BY <2>1, <2>2
  <2>4. two = one \cup (IF IsUsable(list[last]) THEN {list[last]} ELSE {})
    <3>1. CASE IsUsable(list[last])
      BY <2>3, <3>1
    <3>2. CASE ~ IsUsable(list[last])
      <4>1. \A r : r \in two <=> r \in one
        BY <2>3, <3>2
      <4> QED
        BY <3>2, <4>1
    <3> QED
      BY <3>1, <3>2
  <2> QED
    BY <2>4 DEF one, two, last
<1> QED
  BY <1>1, <1>2, <1>3

\* What is taken of some records when they have been looked at; m is the limit.
Taken(taken, usable, m) ==
  /\ taken \in Seq(FofaRecords) /\ IsInjective(taken)
  /\ IsFiniteSet(usable) /\ ToSet(taken) \subseteq usable
  /\ Cardinality(ToSet(taken)) = Len(taken)
  /\ Len(taken) <= m
  /\ Len(taken) < m => ToSet(taken) = usable

LEMMA OneMoreTaken ==
  ASSUME NEW taken \in Seq(FofaRecords), NEW record \in FofaRecords
  PROVE  /\ Append(taken, record) \in Seq(FofaRecords)
         /\ Len(taken) \in Nat /\ Len(Append(taken, record)) = Len(taken) + 1
         /\ ToSet(Append(taken, record)) = ToSet(taken) \cup {record}
         /\ IsInjective(taken) /\ record \notin ToSet(taken) =>
              IsInjective(Append(taken, record))
<1> DEFINE n == Len(taken)
           more == Append(taken, record)
<1>1. /\ n \in Nat /\ DOMAIN taken = 1..n /\ more \in Seq(FofaRecords) /\ Len(more) = n + 1
      /\ DOMAIN more = 1..(n + 1) /\ n + 1 \in 1..(n + 1) /\ more[n + 1] = record
      /\ \A i \in 1..n : more[i] = taken[i]
  OBVIOUS
<1>2. \A i : i \in 1..(n + 1) <=> i \in 1..n \/ i = n + 1
  BY <1>1
<1> HIDE DEF n, more
<1>3. \A r : /\ r \in ToSet(more) <=> \E i \in 1..(n + 1) : r = more[i]
             /\ r \in ToSet(taken) <=> \E i \in 1..n : r = taken[i]
  BY <1>1 DEF ToSet
<1>4. ASSUME NEW r
      PROVE  r \in ToSet(more) <=> r \in ToSet(taken) \/ r = record
  BY <1>1, <1>2, <1>3
<1>5. ASSUME IsInjective(taken), record \notin ToSet(taken)
      PROVE  IsInjective(more)
  <2>1. \A i, j \in 1..n : taken[i] = taken[j] => i = j
    BY <1>1, <1>5 DEF IsInjective
  <2>2. \A i \in 1..n : taken[i] # record
    BY <1>3, <1>5
  <2>3. \A i, j \in 1..(n + 1) : more[i] = more[j] => i = j
    BY <1>1, <1>2, <2>1, <2>2
  <2> QED
    BY <1>1, <2>3 DEF IsInjective
<1> QED
  BY <1>1, <1>4, <1>5 DEF n, more

\* The next record is taken if it is usable, new and within the limit.
LEMMA TakeKeeps ==
  ASSUME NEW taken, NEW usable, NEW record \in FofaRecords, NEW max \in Nat,
         Taken(taken, usable, Max({max, 1}))
  PROVE  Taken(Take(taken, record, max),
               usable \cup (IF IsUsable(record) THEN {record} ELSE {}), Max({max, 1}))
<1> DEFINE m == Max({max, 1})
           more == usable \cup (IF IsUsable(record) THEN {record} ELSE {})
<1>1. /\ taken \in Seq(FofaRecords) /\ IsInjective(taken) /\ Len(taken) \in Nat
      /\ IsFiniteSet(usable) /\ ToSet(taken) \subseteq usable
      /\ Cardinality(ToSet(taken)) = Len(taken) /\ Len(taken) <= m
      /\ Len(taken) < m => ToSet(taken) = usable
  BY DEF Taken
<1>2. m \in Nat /\ m = IF max >= 1 THEN max ELSE 1
  BY LimitIs
<1> HIDE DEF m
<1>3. IsFiniteSet(more) /\ usable \subseteq more
  <2>1. IsFiniteSet(usable \cup {record})
    BY <1>1, FS_AddElement
  <2>2. more = usable \/ more = usable \cup {record}
    OBVIOUS
  <2> HIDE DEF more
  <2> QED
    BY <1>1, <2>1, <2>2
<1>4. CASE ~ IsUsable(record)
  <2>1. Take(taken, record, max) = taken /\ more = usable
    BY <1>4 DEF Take, IsUsable
  <2> QED
    BY <2>1 DEF m
<1>5. CASE IsUsable(record) /\ record \in ToSet(taken)
  <2>1. Take(taken, record, max) = taken /\ more = usable
    BY <1>1, <1>5 DEF Take
  <2> QED
    BY <2>1 DEF m
<1>6. CASE IsUsable(record) /\ record \notin ToSet(taken) /\ taken # <<>> /\ Len(taken) >= max
  <2>1. Take(taken, record, max) = taken
    BY <1>6 DEF Take
  <2>2. Len(taken) >= 1
    BY <1>1, <1>6
  <2>3. ~ (Len(taken) < m)
    BY <1>1, <1>2, <1>6, <2>2
  <2>4. ToSet(taken) \subseteq more
    BY <1>1, <1>3
  <2> QED
    BY <1>1, <1>3, <2>1, <2>3, <2>4 DEF Taken, m
<1>7. CASE /\ IsUsable(record) /\ record \notin ToSet(taken)
           /\ ~ (taken # <<>> /\ Len(taken) >= max)
  <2> DEFINE longer == Append(taken, record)
  <2>1. Take(taken, record, max) = longer
    BY <1>7 DEF Take, IsUsable
  <2>2. /\ longer \in Seq(FofaRecords) /\ Len(longer) = Len(taken) + 1
        /\ ToSet(longer) = ToSet(taken) \cup {record} /\ IsInjective(longer)
    BY <1>1, <1>7, OneMoreTaken
  <2>3. Len(taken) < m
    <3>1. CASE taken = <<>>
      BY <1>2, <3>1
    <3>2. CASE ~ (Len(taken) >= max)
      BY <1>1, <1>2, <3>2
    <3> QED
      BY <1>7, <3>1, <3>2
  <2>4. ToSet(taken) = usable /\ more = usable \cup {record}
    BY <1>1, <1>7, <2>3
  <2>5. Cardinality(ToSet(longer)) = Len(taken) + 1
    <3>1. record \notin usable /\ Cardinality(usable) = Len(taken)
      BY <1>1, <1>7, <2>4
    <3>2. Cardinality(usable \cup {record}) = Cardinality(usable) + 1
      BY <1>1, <3>1, FS_AddElement
    <3>3. ToSet(longer) = usable \cup {record}
      BY <2>2, <2>4
    <3> QED
      BY <3>1, <3>2, <3>3
  <2>6. Len(longer) <= m
    BY <1>1, <1>2, <2>2, <2>3
  <2>7. ToSet(longer) = more
    BY <2>2, <2>4
  <2> HIDE DEF longer, more
  <2> QED
    BY <1>3, <2>1, <2>2, <2>5, <2>6, <2>7 DEF Taken, more, m
<1> QED
  BY <1>4, <1>5, <1>6, <1>7

\* uniqueByIpPort converges the records.
LEMMA ConvergedIs ==
  ASSUME NEW list \in Seq(FofaRecords), NEW max \in Nat
  PROVE  /\ uniqueByIpPort(list, max) \in Seq(FofaRecords)
         /\ Converges(list, max, uniqueByIpPort(list, max))
<1> DEFINE n == Len(list)
           m == Max({max, 1})
<1>1. n \in Nat /\ DOMAIN list = 1..n /\ \A i \in 1..n : list[i] \in FofaRecords
  OBVIOUS
<1>2. PICK lists : /\ lists[0] = <<>>
                   /\ \A k \in 0..(n - 1) : lists[k + 1] = Take(lists[k], list[k + 1], max)
                   /\ uniqueByIpPort(list, max) = lists[n]
  <2> HIDE DEF n
  <2>1. \E lists : TakesInTurn(list, max, n, lists)
    BY <1>1, TakingIs
  <2> QED
    BY <2>1 DEF TakesInTurn
<1> DEFINE Right(k) == Taken(lists[k], UsableUpTo(list, k), m)
           Wrong == {k \in 0..n : ~ Right(k)}
<1>3. Right(0)
  <2>1. <<>> \in Seq(FofaRecords) /\ Len(<<>>) = 0 /\ DOMAIN <<>> = {}
    OBVIOUS
  <2>2. ToSet(<<>>) = {} /\ IsInjective(<<>>)
    BY <2>1 DEF ToSet, IsInjective
  <2>3. m \in Nat
    BY LimitIs
  <2>4. UsableUpTo(list, 0) = {}
    BY UsableGrows
  <2>5. IsFiniteSet({}) /\ Cardinality({}) = 0
    BY FS_EmptySet
  <2>6. Len(<<>>) <= m
    BY <2>1, <2>3
  <2> HIDE DEF m
  <2>7. Taken(<<>>, {}, m)
    BY <2>1, <2>2, <2>5, <2>6 DEF Taken
  <2> QED
    BY <1>2, <2>4, <2>7
<1>4. ASSUME NEW k \in 0..(n - 1), Right(k)
      PROVE  Right(k + 1)
  <2>1. list[k + 1] \in FofaRecords
    BY <1>1
  <2>2. UsableUpTo(list, k + 1) =
          UsableUpTo(list, k) \cup (IF IsUsable(list[k + 1]) THEN {list[k + 1]} ELSE {})
    BY UsableGrows
  <2>3. lists[k + 1] = Take(lists[k], list[k + 1], max)
    BY <1>2
  <2> QED
    BY <1>4, <2>1, <2>2, <2>3, TakeKeeps
<1>5. Wrong = {}
  <2>1. SUFFICES ASSUME Wrong # {} PROVE FALSE
    OBVIOUS
  <2>2. Min(Wrong) \in Wrong /\ \A x \in Wrong : Min(Wrong) <= x
    <3>1. Wrong \in SUBSET Nat
      BY <1>1
    <3> HIDE DEF Wrong
    <3> QED
      BY <2>1, <3>1, LeastIs
  <2> DEFINE w == Min(Wrong)
  <2>3. w \in 0..n /\ ~ Right(w) /\ \A x \in 0..n : ~ Right(x) => w <= x
    BY <2>2
  <2> HIDE DEF w, Right, n
  <2>4. w # 0
    BY <1>3, <2>3
  <2>5. w - 1 \in 0..(n - 1) /\ w - 1 \in 0..n /\ ~ (w <= w - 1) /\ (w - 1) + 1 = w
    BY <1>1, <2>3, <2>4
  <2>6. Right(w - 1)
    BY <2>3, <2>5
  <2>7. Right((w - 1) + 1)
    BY <1>4, <2>5, <2>6
  <2> QED
    BY <2>3, <2>5, <2>7
<1>6. Taken(lists[n], Usable(list), m)
  <2>1. n \in 0..n
    BY <1>1
  <2>2. UsableUpTo(list, n) = Usable(list)
    BY UsableGrows
  <2>3. Right(n)
    <3> HIDE DEF Right, n
    <3> QED
      BY <1>5, <2>1
  <2> QED
    BY <2>2, <2>3
<1> HIDE DEF n, m
<1>7. ASSUME NEW taken, Taken(taken, Usable(list), m)
      PROVE  taken \in Seq(FofaRecords) /\ Converges(list, max, taken)
  <2>1. /\ taken \in Seq(FofaRecords) /\ IsInjective(taken) /\ Len(taken) \in Nat
        /\ IsFiniteSet(Usable(list)) /\ ToSet(taken) \subseteq Usable(list)
        /\ Cardinality(ToSet(taken)) = Len(taken) /\ Len(taken) <= m
        /\ Len(taken) < m => ToSet(taken) = Usable(list)
    BY <1>7 DEF Taken
  <2>2. m \in Nat
    BY LimitIs DEF m
  <2>3. Cardinality(Usable(list)) \in Nat /\ Len(taken) <= Cardinality(Usable(list))
    BY <2>1, FS_CardinalityType, FS_Subset
  <2>4. Len(taken) = Min({Cardinality(Usable(list)), m})
    <3> DEFINE c == Cardinality(Usable(list))
    <3>1. Min({c, m}) = IF c <= m THEN c ELSE m
      BY <2>2, <2>3, LesserIs
    <3>2. c \in Nat /\ Len(taken) <= c /\ (Len(taken) < m => Len(taken) = c)
      BY <2>1, <2>3
    <3> HIDE DEF c
    <3>3. Len(taken) = IF c <= m THEN c ELSE m
      BY <2>1, <2>2, <3>2
    <3> QED
      BY <3>1, <3>3 DEF c
  <2> QED
    BY <2>1, <2>4 DEF Converges, m
<1> QED
  BY <1>2, <1>6, <1>7

-----------------------------------------------------------------------------
(* What the weights of the signals add up to.                              *)

SignalNames == {"open_port", "api_path", "http_title", "tls_subject"}

\* The sum, written out.
Total(signals) == (IF "open_port" \in signals THEN 35 ELSE 0)
                  + (IF "api_path" \in signals THEN 35 ELSE 0)
                  + (IF "http_title" \in signals THEN 20 ELSE 0)
                  + (IF "tls_subject" \in signals THEN 10 ELSE 0)

\* Whichever signal is added first.
LEMMA TotalIs ==
  /\ Total({}) = 0
  /\ \A s \in SUBSET SignalNames, x \in SignalNames :
       x \in s => Total(s) = Weights[x] + Total(s \ {x})
<1>1. Total({}) = 0
  BY DEF Total
<1>2. ASSUME NEW s \in SUBSET SignalNames, NEW x \in SignalNames, x \in s
      PROVE  Total(s) = Weights[x] + Total(s \ {x})
  <2>1. CASE x = "open_port"
    BY <1>2, <2>1 DEF Total, Weights
  <2>2. CASE x = "api_path"
    BY <1>2, <2>2 DEF Total, Weights
  <2>3. CASE x = "http_title"
    BY <1>2, <2>3 DEF Total, Weights
  <2>4. CASE x = "tls_subject"
    BY <1>2, <2>4 DEF Total, Weights
  <2> QED
    BY <2>1, <2>2, <2>3, <2>4 DEF SignalNames
<1> QED
  BY <1>1, <1>2

LEMMA SignalsAreFinite ==
  ASSUME NEW s \in SUBSET SignalNames
  PROVE  IsFiniteSet(s) /\ Cardinality(s) \in Nat
<1>1. IsFiniteSet({}) /\ IsFiniteSet({"open_port"})
  BY FS_EmptySet, FS_Singleton
<1>2. IsFiniteSet({"open_port"} \cup {"api_path"})
  BY <1>1, FS_AddElement
<1>3. IsFiniteSet(({"open_port"} \cup {"api_path"}) \cup {"http_title"})
  BY <1>2, FS_AddElement
<1>4. IsFiniteSet((({"open_port"} \cup {"api_path"}) \cup {"http_title"}) \cup {"tls_subject"})
  BY <1>3, FS_AddElement
<1>5. SignalNames = (({"open_port"} \cup {"api_path"}) \cup {"http_title"}) \cup {"tls_subject"}
  BY DEF SignalNames
<1>6. IsFiniteSet(SignalNames)
  BY <1>4, <1>5
<1> QED
  BY <1>6, FS_Subset, FS_CardinalityType

\* One turn of the sum, of any function on sets of signals.
Added(f, s) ==
  IF s = {} THEN 0
  ELSE Weights[CHOOSE x \in s : TRUE] + f[s \ {CHOOSE x \in s : TRUE}]

LEMMA ConfidenceIs ==
  ASSUME NEW signals \in SUBSET SignalNames
  PROVE  Confidence(signals) = Total(signals)
<1> DEFINE F(f) == f = [s \in SUBSET signals |-> Added(f, s)]
           fold == CHOOSE f : F(f)
           Bad == {n \in Nat : \E s \in SUBSET signals : Cardinality(s) = n /\ fold[s] # Total(s)}
<1>1. Confidence(signals) = fold[signals]
  BY DEF Confidence, SumFunctionOnSet, FoldFunctionOnSet, MapThenFoldSet, Added
<1>2. ASSUME NEW s \in SUBSET signals, s # {}
      PROVE  \E x \in s : /\ x = (CHOOSE y \in s : TRUE)
                          /\ s \ {x} \in SUBSET signals
                          /\ Total(s) = Weights[x] + Total(s \ {x})
  <2>1. (CHOOSE y \in s : TRUE) \in s
    BY <1>2
  <2>2. s \in SUBSET SignalNames /\ \A x \in s : x \in SignalNames
    OBVIOUS
  <2> QED
    BY <2>1, <2>2, TotalIs
<1>3. fold = [s \in SUBSET signals |-> Added(fold, s)]
  <2> DEFINE total == [s \in SUBSET signals |-> Total(s)]
  <2>1. \A s \in SUBSET signals : Added(total, s) = Total(s)
    <3> TAKE s \in SUBSET signals
    <3>1. CASE s = {}
      BY <3>1, TotalIs DEF Added
    <3>2. CASE s # {}
      <4>1. PICK x \in s : /\ x = (CHOOSE y \in s : TRUE)
                          /\ s \ {x} \in SUBSET signals
                          /\ Total(s) = Weights[x] + Total(s \ {x})
        BY <1>2, <3>2
      <4>2. total[s \ {x}] = Total(s \ {x})
        BY <4>1
      <4> HIDE DEF total
      <4> QED
        BY <3>2, <4>1, <4>2 DEF Added
    <3> QED
      BY <3>1, <3>2
  <2>2. F(total)
    <3>1. total = [s \in SUBSET signals |-> Total(s)]
      OBVIOUS
    <3> HIDE DEF total
    <3> QED
      BY <2>1, <3>1
  <2>3. \E f : F(f)
    <3> HIDE DEF total, F
    <3> QED
      BY <2>2
  <2>4. F(fold)
    <3> HIDE DEF F
    <3> QED
      BY <2>3
  <2> QED
    BY <2>4
<1> HIDE DEF fold
<1>4. Bad = {}
  <2>1. SUFFICES ASSUME Bad # {} PROVE FALSE
    OBVIOUS
  <2>2. Min(Bad) \in Bad /\ \A n \in Bad : Min(Bad) <= n
    <3>1. Bad \in SUBSET Nat
      OBVIOUS
    <3> HIDE DEF Bad
    <3> QED
      BY <2>1, <3>1, LeastIs
  <2>3. PICK m \in Bad : \A n \in Bad : m <= n
    <3> HIDE DEF Bad
    <3> QED
      BY <2>2
  <2>4. PICK s \in SUBSET signals : Cardinality(s) = m /\ fold[s] # Total(s)
    BY <2>3
  <2>5. fold[s] = Added(fold, s)
    BY <1>3
  <2>6. s # {}
    BY <2>4, <2>5, TotalIs DEF Added
  <2>7. PICK x \in s : /\ x = (CHOOSE y \in s : TRUE)
                      /\ s \ {x} \in SUBSET signals
                      /\ Total(s) = Weights[x] + Total(s \ {x})
    BY <1>2, <2>6
  <2>8. fold[s] = Weights[x] + fold[s \ {x}]
    BY <2>5, <2>6, <2>7 DEF Added
  <2>9. fold[s \ {x}] # Total(s \ {x})
    BY <2>4, <2>7, <2>8
  <2>10. /\ IsFiniteSet(s) /\ Cardinality(s) \in Nat
         /\ Cardinality(s \ {x}) \in Nat /\ Cardinality(s \ {x}) = Cardinality(s) - 1
    <3>1. s \in SUBSET SignalNames /\ s \ {x} \in SUBSET SignalNames
      OBVIOUS
    <3>2. IsFiniteSet(s) /\ Cardinality(s) \in Nat /\ Cardinality(s \ {x}) \in Nat
      BY <3>1, SignalsAreFinite
    <3> QED
      BY <3>2, FS_RemoveElement
  <2>11. Cardinality(s \ {x}) \in Bad
    BY <2>7, <2>9, <2>10
  <2> HIDE DEF Bad
  <2> QED
    BY <2>3, <2>4, <2>10, <2>11
<1>5. fold[signals] = Total(signals)
  <2>1. Cardinality(signals) \in Nat /\ signals \in SUBSET signals
    BY SignalsAreFinite
  <2> QED
    BY <1>4, <2>1
<1> QED
  BY <1>1, <1>5

\* Which signals reach the threshold, and which the one of high risk.
LEMMA MatchIs ==
  ASSUME NEW target, NEW seen \in Evidence, NEW signals,
         signals = Signals(target, seen), Confidence(signals) >= 70
  PROVE  /\ {"open_port", "api_path"} \subseteq signals
         /\ Asset(target, signals).level = "high" <=> Cardinality(signals) > 2
<1>1. signals \in SUBSET SignalNames
  BY DEF Signals, Evidence, SignalNames
<1>2. Confidence(signals) = Total(signals)
  BY <1>1, ConfidenceIs
<1>3. "open_port" \in signals /\ "api_path" \in signals
  BY <1>2 DEF Total
<1> DEFINE two == {"open_port"} \cup {"api_path"}
           three == two \cup {"http_title"}
<1>4. IsFiniteSet(two) /\ Cardinality(two) = 2
  <2> DEFINE one == {"open_port"}
  <2>1. IsFiniteSet(one) /\ Cardinality(one) = 1 /\ "api_path" \notin one
    BY FS_Singleton
  <2> HIDE DEF one
  <2>2. /\ IsFiniteSet(one \cup {"api_path"})
        /\ Cardinality(one \cup {"api_path"}) = Cardinality(one) + 1
    BY <2>1, FS_AddElement
  <2> QED
    BY <2>1, <2>2 DEF one
<1>5. /\ \A x : x \notin two => Cardinality(two \cup {x}) = 3
      /\ IsFiniteSet(three) /\ Cardinality(three) = 3
      /\ "tls_subject" \notin three => Cardinality(three \cup {"tls_subject"}) = 4
  <2> HIDE DEF two
  <2>1. \A x : /\ IsFiniteSet(two \cup {x})
               /\ x \notin two => Cardinality(two \cup {x}) = 3
    BY <1>4, FS_AddElement
  <2>2. "http_title" \notin two
    BY DEF two
  <2>3. IsFiniteSet(three) /\ Cardinality(three) = 3
    BY <2>1, <2>2
  <2> HIDE DEF three
  <2>4. "tls_subject" \notin three => Cardinality(three \cup {"tls_subject"}) = 4
    BY <2>3, FS_AddElement
  <2> QED
    BY <2>1, <2>3, <2>4
<1>6. Cardinality(signals) > 2 <=> "http_title" \in signals \/ "tls_subject" \in signals
  <2>1. CASE "http_title" \notin signals /\ "tls_subject" \notin signals
    <3>1. signals = two
      BY <1>1, <1>3, <2>1 DEF SignalNames
    <3> QED
      BY <1>4, <2>1, <3>1
  <2>2. CASE "http_title" \in signals /\ "tls_subject" \notin signals
    <3>1. signals = three
      BY <1>1, <1>3, <2>2 DEF SignalNames
    <3> QED
      BY <1>5, <2>2, <3>1
  <2>3. CASE "http_title" \notin signals /\ "tls_subject" \in signals
    <3>1. signals = two \cup {"tls_subject"} /\ "tls_subject" \notin two
      BY <1>1, <1>3, <2>3 DEF SignalNames
    <3>2. Cardinality(two \cup {"tls_subject"}) = 3
      BY <1>5, <3>1
    <3> QED
      BY <2>3, <3>1, <3>2
  <2>4. CASE "http_title" \in signals /\ "tls_subject" \in signals
    <3>1. signals = three \cup {"tls_subject"} /\ "tls_subject" \notin three
      BY <1>1, <1>3, <2>4 DEF SignalNames
    <3>2. Cardinality(three \cup {"tls_subject"}) = 4
      BY <1>5, <3>1
    <3> QED
      BY <2>4, <3>1, <3>2
  <2> QED
    BY <2>1, <2>2, <2>3, <2>4
<1>7. Confidence(signals) >= 80 <=> "http_title" \in signals \/ "tls_subject" \in signals
  BY <1>2, <1>3 DEF Total
<1>8. Asset(target, signals).level = "high" <=> Confidence(signals) >= 80
  BY DEF Asset, RiskLevel
<1> QED
  BY <1>3, <1>6, <1>7, <1>8

-----------------------------------------------------------------------------
(* The steps of the tool.                                                  *)

LEMMA SixStepStarts == SixStepInit => SixStepInv
<1> SUFFICES ASSUME SixStepInit PROVE SixStepInv
  OBVIOUS
<1>1. /\ stage \in {"idle", "reading"} /\ records = <<>> /\ limit = 0 /\ converged = <<>>
      /\ nextTarget = 1 /\ assets = <<>>
  BY DEF SixStepInit
<1>2. <<>> \in Seq(FofaRecords) /\ <<>> \in Seq(Matches)
  OBVIOUS
<1>3. stage \notin {"naabu", "nmap", "writing", "written"} /\ stage # "nmap"
  BY <1>1
<1> QED
  BY <1>1, <1>2, <1>3 DEF SixStepInv

LEMMA ReadExportKeeps == SixStepInv /\ ReadExport => SixStepInv'
<1> SUFFICES ASSUME SixStepInv, ReadExport PROVE SixStepInv'
  OBVIOUS
<1>1. /\ assets = <<>> /\ assets \in Seq(Matches) /\ nextTarget \in Nat \ {0}
      /\ UNCHANGED <<nextTarget, assets, summary, live>>
      /\ records \in Seq(FofaRecords) /\ limit \in Nat /\ converged \in Seq(FofaRecords)
  BY DEF ReadExport, SixStepInv
<1>2. CASE stage' = "failed" /\ UNCHANGED <<records, limit, converged>>
  <2>1. stage' \notin {"reading", "naabu", "nmap", "writing", "written"} /\ stage' # "nmap"
        /\ stage' # "reading"
    BY <1>2
  <2> QED
    BY <1>1, <1>2, <2>1 DEF SixStepInv
<1>3. CASE \E file \in Exports, halves \in MaxTargets :
             /\ records' = file /\ limit' = NormalizedLimit(halves)
             /\ converged' = uniqueByIpPort(file, limit') /\ stage' = "naabu"
  <2>1. PICK file \in Exports, halves \in MaxTargets :
          /\ records' = file /\ limit' = NormalizedLimit(halves)
          /\ converged' = uniqueByIpPort(file, limit') /\ stage' = "naabu"
    BY <1>3
  <2>2. file \in Seq(FofaRecords) /\ limit' \in Nat
    <3>1. halves \in Nat /\ file \in Seq(FofaRecords)
      BY ExportsAssumption, MaxTargetsAssumption
    <3>2. halves > 0 => halves \div 2 \in Nat
      BY <3>1
    <3> QED
      BY <2>1, <3>1, <3>2 DEF NormalizedLimit
  <2>3. converged' \in Seq(FofaRecords) /\ Converges(records', limit', converged')
    BY <2>1, <2>2, ConvergedIs
  <2>4. WereSeen(assets', converged', live') /\ AreBefore(assets', converged', nextTarget')
    BY <1>1 DEF WereSeen, AreBefore
  <2>5. stage' # "reading" /\ stage' # "nmap"
    BY <2>1
  <2> QED
    BY <1>1, <2>1, <2>2, <2>3, <2>4, <2>5 DEF SixStepInv
<1> QED
  BY <1>2, <1>3 DEF ReadExport

\* Once there are targets they stay, and a port that is found open stays so.
TargetsHold ==
  /\ records \in Seq(FofaRecords) /\ limit \in Nat /\ converged \in Seq(FofaRecords)
  /\ nextTarget \in Nat \ {0} /\ assets \in Seq(Matches)
  /\ Converges(records, limit, converged) /\ WereSeen(assets, converged, live)
  /\ AreBefore(assets, converged, nextTarget)

LEMMA PlaceIs ==
  ASSUME NEW list \in Seq(FofaRecords), NEW target \in ToSet(list)
  PROVE  Place(target, list) \in DOMAIN list /\ Place(target, list) \in Nat
<1>1. \E i \in DOMAIN list : list[i] = target
  BY DEF ToSet
<1>2. Place(target, list) \in DOMAIN list
  BY <1>1 DEF Place
<1>3. DOMAIN list \subseteq Nat
  OBVIOUS
<1> QED
  BY <1>2, <1>3

LEMMA MoreOpen ==
  ASSUME TargetsHold, UNCHANGED <<records, limit, converged, assets>>, live \subseteq live',
         nextTarget' \in Nat, nextTarget' >= nextTarget
  PROVE  TargetsHold'
<1>1. WereSeen(assets, converged, live')
  BY DEF TargetsHold, WereSeen
<1>2. AreBefore(assets, converged, nextTarget')
  <2> SUFFICES ASSUME NEW i \in DOMAIN assets
               PROVE  Place(assets[i].target, converged) < nextTarget'
    BY DEF AreBefore
  <2>1. assets[i].target \in ToSet(converged) /\ converged \in Seq(FofaRecords)
        /\ Place(assets[i].target, converged) < nextTarget /\ nextTarget \in Nat
    BY DEF TargetsHold, WereSeen, AreBefore
  <2>2. Place(assets[i].target, converged) \in Nat
    BY <2>1, PlaceIs
  <2> HIDE DEF TargetsHold
  <2> QED
    BY <2>1, <2>2
<1>3. nextTarget' \in Nat \ {0}
  BY DEF TargetsHold
<1> QED
  BY <1>1, <1>2, <1>3 DEF TargetsHold

LEMMA TargetsAre ==
  ASSUME SixStepInv, stage \in {"naabu", "nmap", "writing", "written"}
  PROVE  TargetsHold
BY DEF TargetsHold, SixStepInv

LEMMA NaabuCollectsKeeps == SixStepInv /\ NaabuCollects => SixStepInv'
<1> SUFFICES ASSUME SixStepInv, NaabuCollects PROVE SixStepInv'
  OBVIOUS
<1>1. /\ stage = "naabu" /\ nextTarget <= Len(converged)
      /\ UNCHANGED <<records, limit, converged, assets, summary>>
  BY DEF NaabuCollects
<1>2. TargetsHold
  BY <1>1, TargetsAre
<1>3. nextTarget \in Nat
  BY <1>2 DEF TargetsHold
<1>4. CASE stage' = "nmap" /\ live' = live \cup {Candidate} /\ UNCHANGED nextTarget
  <2>1. live \subseteq live' /\ Candidate' \in live' /\ nextTarget' <= Len(converged')
    BY <1>1, <1>4 DEF Candidate
  <2>2. TargetsHold'
    BY <1>1, <1>2, <1>3, <1>4, <2>1, MoreOpen
  <2> QED
    BY <1>4, <2>1, <2>2 DEF TargetsHold, SixStepInv
<1>5. CASE PassOn /\ UNCHANGED live
  <2>1. stage' = "naabu" /\ nextTarget' = nextTarget + 1 /\ live \subseteq live'
    BY <1>5 DEF PassOn
  <2>2. TargetsHold'
    BY <1>1, <1>2, <1>3, <2>1, MoreOpen
  <2> QED
    BY <2>1, <2>2 DEF TargetsHold, SixStepInv
<1> QED
  BY <1>4, <1>5 DEF NaabuCollects

\* One more asset, of the target at hand.
LEMMA OneMoreMatch ==
  ASSUME TargetsHold, nextTarget <= Len(converged), Candidate \in live,
         NEW seen \in Evidence, NEW signals,
         signals = Signals(Candidate, seen), Confidence(signals) >= 70
  PROVE  LET more == Append(assets, Asset(Candidate, signals))
         IN  /\ more \in Seq(Matches) /\ WereSeen(more, converged, live)
             /\ AreBefore(more, converged, nextTarget + 1)
<1> DEFINE asset == Asset(Candidate, signals)
           more == Append(assets, asset)
           n == Len(assets)
<1>1. /\ converged \in Seq(FofaRecords) /\ nextTarget \in Nat \ {0} /\ assets \in Seq(Matches)
      /\ IsInjective(converged) /\ WereSeen(assets, converged, live)
      /\ AreBefore(assets, converged, nextTarget)
  BY DEF TargetsHold, Converges
<1>2. nextTarget \in DOMAIN converged /\ Candidate = converged[nextTarget]
      /\ Candidate \in FofaRecords /\ Candidate \in ToSet(converged)
  BY <1>1 DEF Candidate, ToSet
<1>3. /\ {"open_port", "api_path"} \subseteq signals
      /\ asset.level = "high" <=> Cardinality(signals) > 2
  BY MatchIs
<1>4. asset.target = Candidate /\ asset.matched_signals = signals
  BY DEF Asset
<1>5. asset \in Matches
  <2>1. signals \in SUBSET (DOMAIN Weights)
    BY DEF Signals, Evidence, Weights
  <2> QED
    BY <1>2, <2>1 DEF Asset, Matches, RiskLevel
<1>6. Place(Candidate, converged) = nextTarget
  <2>1. \A i \in DOMAIN converged : converged[i] = Candidate => i = nextTarget
    BY <1>1, <1>2 DEF IsInjective
  <2> QED
    BY <1>2, <2>1 DEF Place
<1> HIDE DEF asset
<1>7. /\ more \in Seq(Matches) /\ n \in Nat /\ DOMAIN assets = 1..n
      /\ DOMAIN more = 1..(n + 1) /\ more[n + 1] = asset
      /\ \A i \in 1..n : more[i] = assets[i]
  BY <1>1, <1>5
<1> HIDE DEF more, n
<1>8. \A i \in 1..(n + 1) : i \in 1..n \/ i = n + 1
  BY <1>7
<1>9. \A i \in 1..n : /\ assets[i].target \in live \cap ToSet(converged)
                      /\ Place(assets[i].target, converged) \in Nat
                      /\ Place(assets[i].target, converged) < nextTarget
  BY <1>1, <1>7, PlaceIs DEF WereSeen, AreBefore
<1>10. AreBefore(more, converged, nextTarget + 1)
  <2> SUFFICES ASSUME NEW i \in 1..(n + 1)
               PROVE  Place(more[i].target, converged) < nextTarget + 1
    BY <1>7 DEF AreBefore
  <2>1. CASE i \in 1..n
    BY <1>1, <1>7, <1>9, <2>1
  <2>2. CASE i = n + 1
    BY <1>1, <1>4, <1>6, <1>7, <2>2
  <2> QED
    BY <1>8, <2>1, <2>2
<1>11. WereSeen(more, converged, live)
  <2> SUFFICES ASSUME NEW i \in 1..(n + 1)
               PROVE  /\ more[i].target \in live \cap ToSet(converged)
                      /\ i > 1 => Place(more[i - 1].target, converged)
                                    < Place(more[i].target, converged)
                      /\ {"open_port", "api_path"} \subseteq more[i].matched_signals
                      /\ (more[i].level = "high") <=> Cardinality(more[i].matched_signals) > 2
    BY <1>7 DEF WereSeen
  <2>1. CASE i \in 1..n
    <3>1. i > 1 => i - 1 \in 1..n
      BY <1>7, <2>1
    <3>2. more[i] = assets[i] /\ (i > 1 => more[i - 1] = assets[i - 1])
      BY <1>7, <2>1, <3>1
    <3>3. /\ assets[i].target \in live \cap ToSet(converged)
          /\ i > 1 => Place(assets[i - 1].target, converged) < Place(assets[i].target, converged)
          /\ {"open_port", "api_path"} \subseteq assets[i].matched_signals
          /\ (assets[i].level = "high") <=> Cardinality(assets[i].matched_signals) > 2
      BY <1>1, <1>7, <2>1 DEF WereSeen
    <3> QED
      BY <3>2, <3>3
  <2>2. CASE i = n + 1
    <3>1. more[i].target = Candidate /\ more[i].matched_signals = signals
      BY <1>4, <1>7, <2>2
    <3>2. i > 1 => Place(more[i - 1].target, converged) < Place(more[i].target, converged)
      <4> SUFFICES ASSUME i > 1
                   PROVE  Place(more[i - 1].target, converged) < nextTarget
        BY <1>6, <3>1
      <4>1. i - 1 \in 1..n
        BY <1>7, <2>2
      <4> QED
        BY <1>7, <1>9, <4>1
    <3>3. more[i].level = "high" <=> Cardinality(signals) > 2
      BY <1>3, <1>7, <2>2
    <3> QED
      BY <1>2, <1>3, <3>1, <3>2, <3>3
  <2> QED
    BY <1>8, <2>1, <2>2
<1> QED
  BY <1>7, <1>10, <1>11 DEF more, asset

LEMMA NmapKeepsSeen == SixStepInv /\ NmapFingerprints => SixStepInv'
<1> SUFFICES ASSUME SixStepInv, NmapFingerprints PROVE SixStepInv'
  OBVIOUS
<1>1. /\ stage = "nmap" /\ nextTarget' = nextTarget + 1 /\ stage' = "naabu"
      /\ UNCHANGED <<records, limit, converged, summary, live>>
  BY DEF NmapFingerprints, PassOn
<1>2. TargetsHold /\ nextTarget <= Len(converged) /\ Candidate \in live
  <2>1. TargetsHold
    BY <1>1, TargetsAre
  <2> QED
    BY <1>1, <2>1 DEF SixStepInv
<1>3. nextTarget \in Nat \ {0} /\ nextTarget' \in Nat \ {0} /\ nextTarget' >= nextTarget
  <2>1. nextTarget \in Nat \ {0}
    BY <1>2 DEF TargetsHold
  <2> QED
    BY <1>1, <2>1
<1>4. TargetsHold'
  <2>1. CASE assets' = assets
    BY <1>1, <1>2, <1>3, <2>1, MoreOpen
  <2>2. ASSUME NEW seen \in Evidence,
               Confidence(Signals(Candidate, seen)) >= 70,
               assets' = Append(assets, Asset(Candidate, Signals(Candidate, seen)))
        PROVE  TargetsHold'
    <3>1. /\ assets' \in Seq(Matches) /\ WereSeen(assets', converged, live)
          /\ AreBefore(assets', converged, nextTarget + 1)
      BY <1>2, <2>2, OneMoreMatch
    <3> QED
      BY <1>1, <1>2, <1>3, <3>1 DEF TargetsHold
  <2> QED
    BY <2>1, <2>2 DEF NmapFingerprints
<1> QED
  BY <1>1, <1>4 DEF TargetsHold, SixStepInv

\* The end: a summary, a report, or neither.
LEMMA EndKeepsSeen == SixStepInv /\ (Summarise \/ WriteReport) => SixStepInv'
<1> SUFFICES ASSUME SixStepInv, Summarise \/ WriteReport PROVE SixStepInv'
  OBVIOUS
<1>1. /\ stage \in {"naabu", "writing"} /\ stage' \in {"writing", "written", "failed"}
      /\ UNCHANGED <<records, limit, converged, nextTarget, assets, live>>
  BY DEF Summarise, WriteReport
<1>2. TargetsHold
  BY <1>1, TargetsAre
<1>3. nextTarget' \in Nat /\ nextTarget' >= nextTarget
  BY <1>1, <1>2 DEF TargetsHold
<1>4. TargetsHold'
  BY <1>1, <1>2, <1>3, MoreOpen
<1> QED
  BY <1>1, <1>4 DEF TargetsHold, SixStepInv

LEMMA SixStepStep == SixStepInv /\ [SixStepNext]_sixStepVars => SixStepInv'
<1>1. SixStepInv /\ UNCHANGED sixStepVars => SixStepInv'
  BY DEF sixStepVars, SixStepInv, Candidate
<1> QED
  BY <1>1, ReadExportKeeps, NaabuCollectsKeeps, NmapKeepsSeen, EndKeepsSeen DEF SixStepNext

\* However a file, a limit and the commands may be, the targets are the distinct ones of
\* the file up to the limit, and the assets are found in their order with the signals seen.
THEOREM SixStepInductive == Spec => []SixStepInv
<1>1. Init => SixStepInv
  BY SixStepStarts DEF Init
<1> QED
  BY <1>1, ScriptsStep, SixStepStep, PTL DEF Spec

\* What the tool reports: for any export and any limit, converged targets, and assets whose
\* port naabu has found open and whose signals reach the threshold.
THEOREM ReportedAlwaysSeen == Spec => []ReportedAssetsWereSeen
<1>1. SixStepInv => ReportedAssetsWereSeen
  BY DEF SixStepInv, ReportedAssetsWereSeen
<1> QED
  BY <1>1, SixStepInductive, PTL
===============================================================================
