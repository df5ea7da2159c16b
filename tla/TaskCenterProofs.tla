------------------------- MODULE TaskCenterProofs -------------------------
(***************************************************************************)
(* Theorems about TaskCenter for every set of requests, every set of       *)
(* engine outputs and every choice of faulty collaborators.                *)
(***************************************************************************)
EXTENDS TaskCenter, SequenceTheorems, TLAPS

---------------------------------------------------------------------------
(* Lemmas on the derivation of risk summaries and on records *)

(* Deriving a summary from findings yields a well-formed summary, whose    *)
(* risk level is the level RiskLevelOf gives.                              *)
LEMMA DerivedType ==
    ASSUME NEW f \in Findings
    PROVE  /\ RiskLevelOf(f) \in RiskLevels
           /\ DeriveRiskSummary(f) \in DerivedSummaries
           /\ DeriveRiskSummary(f).risk_level = RiskLevelOf(f)
<1>1. RiskLevelOf(f) \in RiskLevels
  BY DEF RiskLevelOf, RiskLevels
<1>2. \A l \in FindingLevels : f[l] \in Nat
  BY DEF Findings
<1>3. TotalFindings(f) \in Nat
  BY <1>2 DEF TotalFindings, FindingLevels, RiskLevels
<1>4. [l \in RiskLevels |-> f[l]] \in [RiskLevels -> Nat]
  BY <1>2 DEF FindingLevels
<1>5. QED
  BY <1>1, <1>3, <1>4 DEF DeriveRiskSummary, DerivedSummaries

(* Without findings the derivation gives the numbers of a placeholder.     *)
LEMMA NothingDerivedFromNoFindings ==
    /\ NoFindings \in Findings
    /\ MockFindings \in Findings
    /\ RiskLevelOf(NoFindings) = "info"
    /\ DeriveRiskSummary(NoFindings) = NothingDerived
<1>1. NoFindings \in Findings
  BY DEF NoFindings, Findings
<1>2. MockFindings \in Findings
  BY <1>1 DEF MockFindings, Findings
<1>3. \A l \in FindingLevels : NoFindings[l] = 0
  BY DEF NoFindings
<1>4. RiskLevelOf(NoFindings) = "info"
  BY <1>3 DEF RiskLevelOf, FindingLevels, RiskLevels
<1>5. TotalFindings(NoFindings) = 0
  BY <1>3 DEF TotalFindings, FindingLevels, RiskLevels
<1>6. [l \in RiskLevels |-> NoFindings[l]] = [l \in RiskLevels |-> 0]
  BY <1>3 DEF FindingLevels
<1>7. QED
  BY <1>1, <1>2, <1>4, <1>5, <1>6 DEF DeriveRiskSummary, NothingDerived

(* Every record the service builds is a record of the store, and coherent. *)
LEMMA InitialRecordType ==
    InitialRecord \in Records /\ Coherent(InitialRecord) /\ InitialRecord # NoRecord
BY NothingDerivedFromNoFindings
   DEF InitialRecord, Records, Coherent, RecordOf, Shell, Shells, NoRecord, NoShell,
       TaskStatuses, RiskLevels, Texts, InterruptionReasons, NothingDerived, DerivedSummaries

\* The record of a finished static analysis: its risk level is the derived one.
LEMMA CompletedStaticAnalysisType ==
    ASSUME NEW f \in Findings
    PROVE  LET record == CompletedStaticAnalysis(f)
           IN  /\ record \in Records
               /\ Coherent(record)
               /\ record.task.status = "finished"
BY DerivedType
   DEF CompletedStaticAnalysis, Records, Coherent, RecordOf, Shell, Shells,
       TaskStatuses, RiskLevels, Texts, InterruptionReasons

\* The record of a failed static analysis: no findings, nothing derived.
LEMMA FailedStaticAnalysisType ==
    ASSUME NEW phase \in Phases
    PROVE  LET record == FailedStaticAnalysis(phase)
           IN  /\ record \in Records
               /\ Coherent(record)
               /\ record.task.status = "failed"
               /\ record.task.summary = phase
BY NothingDerivedFromNoFindings
   DEF FailedStaticAnalysis, Records, Coherent, RecordOf, Shell, Shells, NothingDerived,
       DerivedSummaries, TaskStatuses, RiskLevels, Texts, InterruptionReasons

\* The record of an asset scan that returned, interrupted or not.
LEMMA CompletedAssetScanType ==
    ASSUME NEW f \in Findings, NEW reason \in InterruptionReasons
    PROVE  LET record == CompletedAssetScan(f, reason)
           IN  /\ record \in Records
               /\ Coherent(record)
               /\ record.task.status = IF reason = "none" THEN "finished" ELSE "partial_success"
               /\ record.result.reason = reason
BY DerivedType
   DEF CompletedAssetScan, Records, Coherent, RecordOf, Shell, Shells,
       TaskStatuses, RiskLevels, Texts

\* The record of an asset scan that threw: no findings, nothing derived.
LEMMA FailedAssetScanType ==
    ASSUME NEW reason \in InterruptionReasons
    PROVE  LET record == FailedAssetScan(reason)
           IN  /\ record \in Records
               /\ Coherent(record)
               /\ record.task.status = "failed"
               /\ record.result.reason = reason
BY NothingDerivedFromNoFindings
   DEF FailedAssetScan, Records, Coherent, RecordOf, Shell, Shells, NothingDerived,
       DerivedSummaries, TaskStatuses, RiskLevels, Texts

(* The reason that is stored with an asset scan is an allowed one, and the *)
(* request's own unless that is "none".                                    *)
LEMMA ReasonType ==
    ASSUME NEW requested \in InterruptionReasons,
           NEW engine \in RawReasons,
           NEW message \in ScanErrors
    PROVE  /\ MergedReason(requested, engine) \in InterruptionReasons
           /\ FailureReason(requested, message) \in InterruptionReasons
           /\ requested # "none" => /\ MergedReason(requested, engine) = requested
                                   /\ FailureReason(requested, message) = requested
BY DEF MergedReason, FailureReason, NormalizedReason, RawReasons, InterruptionReasons, ScanErrors

---------------------------------------------------------------------------
(* One step of one request *)

(* What a step of request r leaves alone: every other request.             *)
OthersUnchanged(r) ==
    \A q \in Requests \ {r} :
        /\ pc'[q] = pc[q]
        /\ request'[q] = request[q]
        /\ failure'[q] = failure[q]
        /\ records'[q] = records[q]
        /\ log'[q] = log[q]
        /\ response'[q] = response[q]

(* A request that a step leaves alone stays consistent.                    *)
LEMMA Framed ==
    ASSUME NEW r \in Requests, NEW q \in Requests \ {r},
           OthersUnchanged(r), Consistent(q)
    PROVE  Consistent(q)'
BY DEF OthersUnchanged, Consistent, InProgress, InClient, Untouched, RefusedOutcome,
       SandboxOutcome, AssetScanOutcome, StaticOutcome, Status

(* The events of a trail are events of the log.                            *)
LEMMA EventTypes ==
    /\ Selected \in Events /\ Started \in Events /\ Succeeded \in Events
    /\ \A phase \in Phases : Event("scan_failed", phase) \in Events
BY DEF Selected, Started, Succeeded, Event, Events

(* A sequence that extends s by e alone is Append(s, e).                    *)
LEMMA AppendIs ==
    ASSUME NEW E, NEW s \in Seq(E), NEW e \in E, NEW t \in Seq(E),
           Len(t) = Len(s) + 1, t[Len(s) + 1] = e, \A i \in 1..Len(s) : t[i] = s[i]
    PROVE  Append(s, e) = t
<1> DEFINE u == Append(s, e)
<1>1. /\ u \in Seq(E)
      /\ Len(u) = Len(s) + 1
      /\ u[Len(s) + 1] = e
      /\ \A i \in 1..Len(s) : u[i] = s[i]
  BY AppendProperties
<1>2. Len(s) \in Nat
  OBVIOUS
<1> HIDE DEF u
<1>3. \A i \in 1..Len(u) : u[i] = t[i]
  <2> TAKE i \in 1..Len(u)
  <2>1. CASE i = Len(s) + 1
    BY <2>1, <1>1
  <2>2. CASE i \in 1..Len(s)
    BY <2>2, <1>1
  <2>3. QED
    BY <2>1, <2>2, <1>1, <1>2
<1>4. QED
  BY <1>1, <1>3, SeqEqual, Zenon DEF u

(* Appending to the trails the client writes.                              *)
LEMMA AppendTo0 ==
    ASSUME NEW E, NEW e \in E
    PROVE  Append(<<>>, e) = <<e>>
<1> DEFINE s == <<>>
           t == <<e>>
<1>1. s \in Seq(E) /\ Len(s) = 0
  OBVIOUS
<1>2. t \in Seq(E) /\ Len(t) = 1 /\ t[1] = e
  OBVIOUS
<1>3. Append(s, e) = t
  <2> HIDE DEF s, t
  <2>1. Len(t) = Len(s) + 1 /\ t[Len(s) + 1] = e /\ \A i \in 1..Len(s) : t[i] = s[i]
    BY <1>1, <1>2
  <2>2. QED
    BY <1>1, <1>2, <2>1, AppendIs, Zenon
<1>4. QED
  BY <1>3

\* The event after provider_selected.
LEMMA AppendTo1 ==
    ASSUME NEW E, NEW a \in E, NEW e \in E
    PROVE  Append(<<a>>, e) = <<a, e>>
<1> DEFINE s == <<a>>
           t == <<a, e>>
<1>1. s \in Seq(E) /\ Len(s) = 1 /\ s[1] = a
  OBVIOUS
<1>2. t \in Seq(E) /\ Len(t) = 2 /\ t[1] = a /\ t[2] = e
  OBVIOUS
<1>3. Append(s, e) = t
  <2> HIDE DEF s, t
  <2>1. Len(t) = Len(s) + 1 /\ t[Len(s) + 1] = e /\ \A i \in 1..Len(s) : t[i] = s[i]
    BY <1>1, <1>2
  <2>2. QED
    BY <1>1, <1>2, <2>1, AppendIs, Zenon
<1>4. QED
  BY <1>3

\* The event after scan_started.
LEMMA AppendTo2 ==
    ASSUME NEW E, NEW a \in E, NEW b \in E, NEW e \in E
    PROVE  Append(<<a, b>>, e) = <<a, b, e>>
<1> DEFINE s == <<a, b>>
           t == <<a, b, e>>
<1>1. s \in Seq(E) /\ Len(s) = 2 /\ s[1] = a /\ s[2] = b
  OBVIOUS
<1>2. t \in Seq(E) /\ Len(t) = 3 /\ t[1] = a /\ t[2] = b /\ t[3] = e
  OBVIOUS
<1>3. Append(s, e) = t
  <2> HIDE DEF s, t
  <2>1. Len(t) = Len(s) + 1 /\ t[Len(s) + 1] = e /\ \A i \in 1..Len(s) : t[i] = s[i]
    BY <1>1, <1>2
  <2>2. QED
    BY <1>1, <1>2, <2>1, AppendIs, Zenon
<1>4. QED
  BY <1>3

\* The event after scan_succeeded.
LEMMA AppendTo3 ==
    ASSUME NEW E, NEW a \in E, NEW b \in E, NEW c \in E, NEW e \in E
    PROVE  Append(<<a, b, c>>, e) = <<a, b, c, e>>
<1> DEFINE s == <<a, b, c>>
           t == <<a, b, c, e>>
<1>1. s \in Seq(E) /\ Len(s) = 3 /\ s[1] = a /\ s[2] = b /\ s[3] = c
  OBVIOUS
<1>2. t \in Seq(E) /\ Len(t) = 4 /\ t[1] = a /\ t[2] = b /\ t[3] = c /\ t[4] = e
  OBVIOUS
<1>3. Append(s, e) = t
  <2> HIDE DEF s, t
  <2>1. Len(t) = Len(s) + 1 /\ t[Len(s) + 1] = e /\ \A i \in 1..Len(s) : t[i] = s[i]
    BY <1>1, <1>2
  <2>2. QED
    BY <1>1, <1>2, <2>1, AppendIs, Zenon
<1>4. QED
  BY <1>3

\* The same for a trail of any length the client writes.
LEMMA AppendTrail ==
    ASSUME NEW e \in Events
    PROVE  /\ Append(<<>>, e) = <<e>>
           /\ Append(<<Selected>>, e) = <<Selected, e>>
           /\ Append(<<Selected, Started>>, e) = <<Selected, Started, e>>
           /\ Append(<<Selected, Started, Succeeded>>, e) = <<Selected, Started, Succeeded, e>>
<1>1. Append(<<>>, e) = <<e>> /\ Append(<<Selected>>, e) = <<Selected, e>>
  BY EventTypes, AppendTo0, AppendTo1
<1>2. Append(<<Selected, Started>>, e) = <<Selected, Started, e>>
  BY EventTypes, AppendTo2
<1>3. Append(<<Selected, Started, Succeeded>>, e) = <<Selected, Started, Succeeded, e>>
  BY EventTypes, AppendTo3
<1>4. QED
  BY <1>1, <1>2, <1>3

(* A failure that is logged ends the trail the client has got to.          *)
LEMMA FailureEndsTrail ==
    ASSUME NEW trail \in {<<>>, <<Selected>>, <<Selected, Started>>,
                          <<Selected, Started, Succeeded>>},
           NEW phase \in Phases
    PROVE  Append(trail, Event("scan_failed", phase)) \in FailedTrails(phase)
BY AppendTrail, EventTypes DEF FailedTrails

(* Reporting a failure of a static analysis whose record is pending.       *)
LEMMA ReportingStep ==
    ASSUME TypeOK,
           NEW r \in Requests, Consistent(r),
           pc[r] \in {"dispatching", "selected", "started", "running", "succeeded"},
           NEW phase \in Phases,
           ClientFails(r, phase) \/ HandleSkillsStaticFailure(r, phase)
    PROVE  TypeOK' /\ OthersUnchanged(r) /\ Consistent(r)'
<1> DEFINE failed == Event("scan_failed", phase)
<1>1. /\ failure' = [failure EXCEPT ![r] = phase]
      /\ log' = [log EXCEPT ![r] = Append(@, failed)]
      /\ pc' = [pc EXCEPT ![r] = "failing"]
      /\ UNCHANGED <<request, config, output, records, response>>
  BY DEF ClientFails, HandleSkillsStaticFailure, Emit, Goto, Event
<1>2. log[r] \in {<<>>, <<Selected>>, <<Selected, Started>>, <<Selected, Started, Succeeded>>}
  BY DEF Consistent, InProgress
<1>3. log'[r] = Append(log[r], failed) /\ log'[r] \in FailedTrails(phase)
  BY <1>1, <1>2, FailureEndsTrail DEF TypeOK
<1>4. TypeOK'
  <2>1. log' \in [Requests -> Seq(Events)]
    BY <1>1, EventTypes DEF TypeOK
  <2>2. QED
    BY <1>1, <2>1 DEF TypeOK, Labels
<1>5. OthersUnchanged(r)
  BY <1>1 DEF OthersUnchanged, TypeOK
<1>6. Consistent(r)'
  <2>1. /\ pc'[r] = "failing" /\ failure'[r] = phase
        /\ request'[r].type = "static_analysis"
        /\ records'[r] = InitialRecord
        /\ response'[r] = NoResponse
    BY <1>1 DEF TypeOK, Consistent, InProgress, InClient
  <2>2. QED
    BY <1>3, <2>1 DEF Consistent, InProgress, InClient
<1>7. QED
  BY <1>4, <1>5, <1>6

(* Each action of request r keeps the types and every request's part of    *)
(* the invariant: one lemma per action.                                    *)
LEMMA RefuseRequestStep ==
    ASSUME TypeOK, NEW r \in Requests, Consistent(r), RefuseRequest(r)
    PROVE  TypeOK' /\ OthersUnchanged(r) /\ Consistent(r)'
<1>1. /\ response' = [response EXCEPT ![r] = [code |-> 400, body |-> NoShell]]
      /\ pc' = [pc EXCEPT ![r] = "done"]
      /\ UNCHANGED <<request, config, failure, output, records, log>>
  BY DEF RefuseRequest, Answer, Goto
<1>2. TypeOK'
  BY <1>1 DEF TypeOK, Labels, Responses
<1>3. OthersUnchanged(r)
  BY <1>1 DEF OthersUnchanged, TypeOK
<1>4. Consistent(r)'
  BY <1>1 DEF TypeOK, RefuseRequest, Consistent, InProgress, InClient, Untouched, RefusedOutcome
<1>5. QED
  BY <1>2, <1>3, <1>4

\* Accepting a request gives it a type and a reason, and nothing is stored.
LEMMA AcceptRequestStep ==
    ASSUME TypeOK, NEW r \in Requests, Consistent(r), AcceptRequest(r)
    PROVE  TypeOK' /\ OthersUnchanged(r) /\ Consistent(r)'
<1>1. PICK type \in TaskTypes, raw \in RawReasons :
        /\ request' = [request EXCEPT ![r] =
               [ type |-> type,
                 reason |-> IF type = "asset_scan" THEN NormalizedReason(raw) ELSE "none" ]]
        /\ pc' = [pc EXCEPT ![r] = IF type = "asset_scan" THEN "scanning" ELSE "creating"]
  BY DEF AcceptRequest, Goto
<1>2. pc[r] = "idle" /\ UNCHANGED <<config, failure, output, records, log, response>>
  BY DEF AcceptRequest
<1>3. TypeOK'
  BY <1>1, <1>2
     DEF TypeOK, Labels, NormalizedRequests, NormalizedReason, InterruptionReasons
<1>4. OthersUnchanged(r)
  BY <1>1, <1>2 DEF OthersUnchanged, TypeOK
<1>5. Consistent(r)'
  BY <1>1, <1>2 DEF TypeOK, Consistent, InProgress, InClient, Untouched, TaskTypes
<1>6. QED
  BY <1>3, <1>4, <1>5

(* An asset scan's record is stored and answered in the same stretch.      *)
LEMMA AssetScanAnswered ==
    ASSUME TypeOK, NEW r \in Requests, Consistent(r), pc[r] = "scanning",
           NEW record \in Records, Coherent(record),
           record.task.status
               \in {IF record.result.reason = "none" THEN "finished" ELSE "partial_success",
                    "failed"},
           request[r].reason # "none" => record.result.reason = request[r].reason,
           Save(r, record), Answer(r, 201, record.task),
           UNCHANGED <<request, config, failure, output, log>>
    PROVE  TypeOK' /\ OthersUnchanged(r) /\ Consistent(r)'
<1>1. /\ records' = [records EXCEPT ![r] = record]
      /\ response' = [response EXCEPT ![r] = [code |-> 201, body |-> record.task]]
      /\ pc' = [pc EXCEPT ![r] = "done"]
  BY DEF Save, Answer, Goto
<1>2. record.task \in Shells
  BY DEF Records
<1>3. TypeOK'
  BY <1>1, <1>2 DEF TypeOK, Labels, Responses
<1>4. OthersUnchanged(r)
  BY <1>1 DEF OthersUnchanged, TypeOK
<1>5. records'[r] = record /\ response'[r] = [code |-> 201, body |-> record.task]
      /\ pc'[r] = "done" /\ request'[r] = request[r] /\ log'[r] = log[r]
  BY <1>1 DEF TypeOK
<1>6. request[r].type = "asset_scan" /\ log[r] = <<>>
  BY DEF Consistent, InProgress, Untouched
<1>7. AssetScanOutcome(r)'
  BY <1>5, <1>6 DEF AssetScanOutcome, Status
<1>8. Consistent(r)'
  BY <1>5, <1>7 DEF Consistent, InProgress, InClient
<1>9. QED
  BY <1>3, <1>4, <1>8

\* The engine returns details: a completed scan is stored and answered.
LEMMA AssetScanReturnsStep ==
    ASSUME TypeOK, NEW r \in Requests, Consistent(r), AssetScanReturns(r)
    PROVE  TypeOK' /\ OthersUnchanged(r) /\ Consistent(r)'
<1>1. PICK findings \in Details \cup {NoFindings}, reason \in RawReasons :
        LET record == CompletedAssetScan(findings, MergedReason(request[r].reason, reason))
        IN  Save(r, record) /\ Answer(r, 201, record.task)
  BY DEF AssetScanReturns, StoreCompletedScan
<1> DEFINE merged == MergedReason(request[r].reason, reason)
           record == CompletedAssetScan(findings, merged)
<1>2. request[r].reason \in InterruptionReasons
  BY DEF AssetScanReturns, StoreCompletedScan, TypeOK, NormalizedRequests, Consistent, InProgress, NoRequest
<1>3. findings \in Findings
  BY DetailsAssumption, NothingDerivedFromNoFindings
<1>4. merged \in InterruptionReasons /\ (request[r].reason # "none" => merged = request[r].reason)
  BY <1>2, ReasonType, "other" \in ScanErrors DEF ScanErrors
<1> HIDE DEF merged
<1>5. /\ record \in Records /\ Coherent(record)
      /\ record.task.status = IF merged = "none" THEN "finished" ELSE "partial_success"
      /\ record.result.reason = merged
  BY <1>3, <1>4, CompletedAssetScanType
<1>6. Save(r, record) /\ Answer(r, 201, record.task)
  BY <1>1 DEF merged
<1> HIDE DEF record
<1>7. QED
  BY <1>4, <1>5, <1>6, AssetScanAnswered DEF AssetScanReturns, StoreCompletedScan

\* The engine fails: a failed scan is stored and answered.
LEMMA AssetScanThrowsStep ==
    ASSUME TypeOK, NEW r \in Requests, Consistent(r), AssetScanThrows(r)
    PROVE  TypeOK' /\ OthersUnchanged(r) /\ Consistent(r)'
<1>1. PICK message \in ScanErrors :
        LET record == FailedAssetScan(FailureReason(request[r].reason, message))
        IN  Save(r, record) /\ Answer(r, 201, record.task)
  BY DEF AssetScanThrows, StoreFailedScan
<1> DEFINE reason == FailureReason(request[r].reason, message)
           record == FailedAssetScan(reason)
<1>2. request[r].reason \in InterruptionReasons
  BY DEF AssetScanThrows, StoreFailedScan, TypeOK, NormalizedRequests, Consistent, InProgress, NoRequest
<1>3. reason \in InterruptionReasons /\ (request[r].reason # "none" => reason = request[r].reason)
  BY <1>2, ReasonType, "absent" \in RawReasons DEF RawReasons
<1> HIDE DEF reason
<1>4. /\ record \in Records /\ Coherent(record)
      /\ record.task.status = "failed"
      /\ record.result.reason = reason
  BY <1>3, FailedAssetScanType
<1>5. Save(r, record) /\ Answer(r, 201, record.task)
  BY <1>1 DEF reason
<1> HIDE DEF record
<1>6. QED
  BY <1>3, <1>4, <1>5, AssetScanAnswered DEF AssetScanThrows, StoreFailedScan

\* The pending record is stored; a sandbox run is answered with it.
LEMMA StoreInitialArtifactsStep ==
    ASSUME TypeOK, NEW r \in Requests, Consistent(r), StoreInitialArtifacts(r)
    PROVE  TypeOK' /\ OthersUnchanged(r) /\ Consistent(r)'
<1>1. /\ pc[r] = "creating"
      /\ records' = [records EXCEPT ![r] = InitialRecord]
      /\ UNCHANGED <<request, config, failure, output, log>>
  BY DEF StoreInitialArtifacts, Save
<1>2. /\ InitialRecord \in Records
      /\ InitialRecord.task \in Shells
  BY InitialRecordType DEF Records
<1>3. request[r].type \in {"static_analysis", "sandbox_run"} /\ Untouched(r)
  BY <1>1 DEF Consistent, InProgress
<1>4. CASE request[r].type = "sandbox_run"
  <2>1. /\ response' = [response EXCEPT ![r] = [code |-> 201, body |-> InitialRecord.task]]
        /\ pc' = [pc EXCEPT ![r] = "done"]
    BY <1>4 DEF StoreInitialArtifacts, Answer, Goto
  <2>2. TypeOK'
    BY <1>1, <1>2, <2>1 DEF TypeOK, Labels, Responses
  <2>3. OthersUnchanged(r)
    BY <1>1, <2>1 DEF OthersUnchanged, TypeOK
  <2>4. SandboxOutcome(r)'
    BY <1>1, <1>3, <1>4, <2>1 DEF SandboxOutcome, TypeOK, Untouched
  <2>5. Consistent(r)'
    BY <2>1, <2>4 DEF Consistent, InProgress, InClient, TypeOK
  <2>6. QED
    BY <2>2, <2>3, <2>5
<1>5. CASE request[r].type # "sandbox_run"
  <2>1. pc' = [pc EXCEPT ![r] = "dispatching"] /\ UNCHANGED response
    BY <1>5 DEF StoreInitialArtifacts, Goto
  <2>2. TypeOK'
    BY <1>1, <1>2, <2>1 DEF TypeOK, Labels
  <2>3. OthersUnchanged(r)
    BY <1>1, <2>1 DEF OthersUnchanged, TypeOK
  <2>4. Consistent(r)'
    BY <1>1, <1>3, <1>5, <2>1 DEF Consistent, InProgress, InClient, TypeOK, Untouched
  <2>5. QED
    BY <2>2, <2>3, <2>4
<1>6. QED
  BY <1>4, <1>5

(* A static analysis is given up with a 500 only by a hook or a sink that   *)
(* throws, and stays pending.                                              *)
LEMMA AnswerInternalErrorStep ==
    ASSUME TypeOK, NEW r \in Requests, Consistent(r),
           pc[r] \in {"dispatching", "failing"},
           Faults \cap {"hook", "sink"} # {},
           AnswerInternalError(r)
    PROVE  TypeOK' /\ OthersUnchanged(r) /\ Consistent(r)'
<1>1. /\ response' = [response EXCEPT ![r] = [code |-> 500, body |-> NoShell]]
      /\ pc' = [pc EXCEPT ![r] = "done"]
      /\ UNCHANGED <<request, config, failure, output, records, log>>
  BY DEF AnswerInternalError, Answer, Goto
<1>2. TypeOK'
  BY <1>1 DEF TypeOK, Labels, Responses
<1>3. OthersUnchanged(r)
  BY <1>1 DEF OthersUnchanged, TypeOK
<1>4. /\ request[r].type = "static_analysis"
      /\ records[r] = InitialRecord
      /\ log[r] \in {<<>>} \cup UNION {FailedTrails(phase) : phase \in Phases}
  BY DEF Consistent, InProgress, InClient
<1>5. StaticOutcome(r)'
  BY <1>1, <1>4 DEF StaticOutcome, TypeOK
<1>6. Consistent(r)'
  BY <1>1, <1>5 DEF Consistent, InProgress, InClient, TypeOK
<1>7. QED
  BY <1>2, <1>3, <1>6

\* A hook that throws leaves the task pending, and the POST is answered 500.
LEMMA HookThrowsStep ==
    ASSUME TypeOK, NEW r \in Requests, Consistent(r), HookThrows(r)
    PROVE  TypeOK' /\ OthersUnchanged(r) /\ Consistent(r)'
BY AnswerInternalErrorStep DEF HookThrows

(* An event other than a failure moves the client one await on.            *)
LEMMA SinkRejectsStep ==
    ASSUME TypeOK, NEW r \in Requests, Consistent(r),
           pc[r] \in {"selected", "started", "succeeded"}, SinkRejects(r)
    PROVE  TypeOK' /\ OthersUnchanged(r) /\ Consistent(r)'
BY ReportingStep DEF SinkRejects, Phases

\* The client logs scan_succeeded after the two events before it.
LEMMA ClientSucceedsStep ==
    ASSUME TypeOK, NEW r \in Requests, Consistent(r),
           pc[r] \in {"started", "running"},
           NEW findings \in Findings, ClientSucceeds(r, findings)
    PROVE  TypeOK' /\ OthersUnchanged(r) /\ Consistent(r)'
<1>1. /\ output' = [output EXCEPT ![r] = findings]
      /\ log' = [log EXCEPT ![r] = Append(@, Succeeded)]
      /\ pc' = [pc EXCEPT ![r] = "succeeded"]
      /\ UNCHANGED <<request, config, failure, records, response>>
  BY DEF ClientSucceeds, Emit, Goto, Succeeded, Event
<1>2. log[r] = <<Selected, Started>>
  BY DEF Consistent, InProgress
<1>3. log'[r] = <<Selected, Started, Succeeded>>
  BY <1>1, <1>2, AppendTrail, EventTypes DEF TypeOK
<1>4. TypeOK'
  <2>1. log' \in [Requests -> Seq(Events)]
    BY <1>1, EventTypes DEF TypeOK
  <2>2. QED
    BY <1>1, <2>1 DEF TypeOK, Labels
<1>5. OthersUnchanged(r)
  BY <1>1 DEF OthersUnchanged, TypeOK
<1>6. Consistent(r)'
  BY <1>1, <1>3 DEF TypeOK, Consistent, InProgress, InClient
<1>7. QED
  BY <1>4, <1>5, <1>6

\* The first event of a trail is provider_selected, or its failure.
LEMMA SelectProviderStep ==
    ASSUME TypeOK, NEW r \in Requests, Consistent(r), SelectProvider(r)
    PROVE  TypeOK' /\ OthersUnchanged(r) /\ Consistent(r)'
<1>1. pc[r] = "dispatching"
  BY DEF SelectProvider
<1>2. CASE config.provider = "unsupported"
  BY <1>1, <1>2, ReportingStep DEF SelectProvider, Phases
<1>3. CASE config.provider # "unsupported"
  <2>1. /\ log' = [log EXCEPT ![r] = Append(@, Selected)]
        /\ pc' = [pc EXCEPT ![r] = "selected"]
        /\ UNCHANGED <<request, config, failure, output, records, response>>
    BY <1>3 DEF SelectProvider, Emit, Goto, Selected, Event
  <2>2. log'[r] = <<Selected>>
    BY <1>1, <2>1, AppendTrail, EventTypes DEF TypeOK, Consistent, InProgress
  <2>3. log' \in [Requests -> Seq(Events)]
    BY <2>1, EventTypes DEF TypeOK
  <2>4. TypeOK'
    BY <2>1, <2>3 DEF TypeOK, Labels
  <2>5. OthersUnchanged(r)
    BY <2>1 DEF OthersUnchanged, TypeOK
  <2>6. Consistent(r)'
    BY <1>1, <2>1, <2>2 DEF TypeOK, Consistent, InProgress, InClient
  <2>7. QED
    BY <2>4, <2>5, <2>6
<1>4. QED
  BY <1>2, <1>3

\* The second event is scan_started, or a failure of the sink.
LEMMA StartScanStep ==
    ASSUME TypeOK, NEW r \in Requests, Consistent(r), StartScan(r)
    PROVE  TypeOK' /\ OthersUnchanged(r) /\ Consistent(r)'
<1>1. pc[r] = "selected"
  BY DEF StartScan
<1>2. CASE SinkRejects(r)
  BY <1>1, <1>2, SinkRejectsStep
<1>3. CASE Emit(r, "scan_started", "none") /\ Goto(r, "started")
           /\ UNCHANGED <<request, config, failure, output, records, response>>
  <2>1. /\ log' = [log EXCEPT ![r] = Append(@, Started)]
        /\ pc' = [pc EXCEPT ![r] = "started"]
        /\ UNCHANGED <<request, config, failure, output, records, response>>
    BY <1>3 DEF Emit, Goto, Started, Event
  <2>2. log'[r] = <<Selected, Started>>
    BY <1>1, <2>1, AppendTrail, EventTypes DEF TypeOK, Consistent, InProgress
  <2>3. log' \in [Requests -> Seq(Events)]
    BY <2>1, EventTypes DEF TypeOK
  <2>4. TypeOK'
    BY <2>1, <2>3 DEF TypeOK, Labels
  <2>5. OthersUnchanged(r)
    BY <2>1 DEF OthersUnchanged, TypeOK
  <2>6. Consistent(r)'
    BY <1>1, <2>1, <2>2 DEF TypeOK, Consistent, InProgress, InClient
  <2>7. QED
    BY <2>4, <2>5, <2>6
<1>4. QED
  BY <1>2, <1>3 DEF StartScan

\* The mock answers at once; semgrep is started, or its timeout is refused.
LEMMA RunScanStep ==
    ASSUME TypeOK, NEW r \in Requests, Consistent(r), RunScan(r)
    PROVE  TypeOK' /\ OthersUnchanged(r) /\ Consistent(r)'
<1>1. pc[r] = "started"
  BY DEF RunScan
<1>2. CASE SinkRejects(r)
  BY <1>1, <1>2, SinkRejectsStep
<1>3. CASE ClientSucceeds(r, MockFindings)
  BY <1>1, <1>3, ClientSucceedsStep, NothingDerivedFromNoFindings
<1>4. CASE ClientFails(r, "provider_selection")
  BY <1>1, <1>4, ReportingStep DEF Phases
<1>5. CASE Goto(r, "running")
           /\ UNCHANGED <<request, config, failure, output, records, log, response>>
  <2>1. TypeOK'
    BY <1>5 DEF TypeOK, Labels, Goto
  <2>2. OthersUnchanged(r)
    BY <1>5 DEF OthersUnchanged, TypeOK, Goto
  <2>3. Consistent(r)'
    BY <1>1, <1>5 DEF TypeOK, Goto, Consistent, InProgress, InClient
  <2>4. QED
    BY <2>1, <2>2, <2>3
<1>6. QED
  BY <1>2, <1>3, <1>4, <1>5 DEF RunScan

\* Semgrep fails, its output cannot be mapped, or it has findings.
LEMMA SemgrepReturnsStep ==
    ASSUME TypeOK, NEW r \in Requests, Consistent(r), SemgrepReturns(r)
    PROVE  TypeOK' /\ OthersUnchanged(r) /\ Consistent(r)'
<1>1. pc[r] = "running"
  BY DEF SemgrepReturns
<1>2. CASE ClientFails(r, "runner") \/ ClientFails(r, "mapper")
  BY <1>1, <1>2, ReportingStep DEF Phases
<1>3. ASSUME NEW findings \in Details, ClientSucceeds(r, findings)
      PROVE  TypeOK' /\ OthersUnchanged(r) /\ Consistent(r)'
  BY <1>1, <1>3, ClientSucceedsStep, DetailsAssumption
<1>4. QED
  BY <1>2, <1>3 DEF SemgrepReturns

(* The settled record of a static analysis is stored and its POST answered *)
(* with the task as it was first stored.                                   *)
LEMMA StaticAnswered ==
    ASSUME TypeOK, NEW r \in Requests, Consistent(r),
           pc[r] \in {"succeeded", "failing"},
           NEW record \in Records, Coherent(record),
           \/ /\ record.task.status = "finished"
              /\ log[r] = <<Selected, Started, Succeeded>>
           \/ /\ record.task.status = "failed"
              /\ record.task.summary \in Phases
              /\ log[r] \in FailedTrails(record.task.summary),
           Save(r, record), Answer(r, 201, InitialRecord.task),
           UNCHANGED <<request, config, failure, output, log>>
    PROVE  TypeOK' /\ OthersUnchanged(r) /\ Consistent(r)'
<1>1. /\ records' = [records EXCEPT ![r] = record]
      /\ response' = [response EXCEPT ![r] = [code |-> 201, body |-> InitialRecord.task]]
      /\ pc' = [pc EXCEPT ![r] = "done"]
  BY DEF Save, Answer, Goto
<1>2. InitialRecord.task \in Shells
  BY InitialRecordType DEF Records
<1>3. TypeOK'
  BY <1>1, <1>2 DEF TypeOK, Labels, Responses
<1>4. OthersUnchanged(r)
  BY <1>1 DEF OthersUnchanged, TypeOK
<1>5. /\ records'[r] = record
      /\ response'[r] = [code |-> 201, body |-> InitialRecord.task]
      /\ pc'[r] = "done" /\ request'[r] = request[r] /\ log'[r] = log[r]
  BY <1>1 DEF TypeOK
<1>6. request[r].type = "static_analysis"
  BY DEF Consistent, InProgress, InClient
<1>7. StaticOutcome(r)'
  BY <1>5, <1>6 DEF StaticOutcome, Status
<1>8. Consistent(r)'
  BY <1>5, <1>7 DEF Consistent, InProgress, InClient
<1>9. QED
  BY <1>3, <1>4, <1>8

\* The output is stored as a finished record, or its failure is logged.
LEMMA BackfillResultStep ==
    ASSUME TypeOK, NEW r \in Requests, Consistent(r), BackfillResult(r)
    PROVE  TypeOK' /\ OthersUnchanged(r) /\ Consistent(r)'
<1>1. pc[r] = "succeeded" /\ output[r] \in Findings
  BY DEF BackfillResult, TypeOK
<1>2. CASE SinkRejects(r)
  BY <1>1, <1>2, SinkRejectsStep
<1>3. CASE \/ HandleSkillsStaticFailure(r, "normalizer")
           \/ HandleSkillsStaticFailure(r, "deriver")
  BY <1>1, <1>3, ReportingStep DEF Phases
<1>4. CASE /\ Save(r, CompletedStaticAnalysis(output[r]))
           /\ Answer(r, 201, InitialRecord.task)
           /\ UNCHANGED <<request, config, failure, output, log>>
  <2>1. log[r] = <<Selected, Started, Succeeded>>
    BY <1>1 DEF Consistent, InProgress
  <2>2. /\ CompletedStaticAnalysis(output[r]) \in Records
        /\ Coherent(CompletedStaticAnalysis(output[r]))
        /\ CompletedStaticAnalysis(output[r]).task.status = "finished"
    BY <1>1, CompletedStaticAnalysisType
  <2>3. QED
    BY <1>1, <1>4, <2>1, <2>2, StaticAnswered
<1>5. QED
  BY <1>2, <1>3, <1>4 DEF BackfillResult

\* A failure that has been logged is stored and answered.
LEMMA BackfillFailureStep ==
    ASSUME TypeOK, NEW r \in Requests, Consistent(r), BackfillFailure(r)
    PROVE  TypeOK' /\ OthersUnchanged(r) /\ Consistent(r)'
<1>1. pc[r] = "failing" /\ failure[r] \in Phases /\ log[r] \in FailedTrails(failure[r])
  BY DEF BackfillFailure, Consistent, InProgress
<1>2. CASE "sink" \in Faults /\ AnswerInternalError(r)
  BY <1>1, <1>2, AnswerInternalErrorStep
<1>3. CASE /\ Save(r, FailedStaticAnalysis(failure[r]))
           /\ Answer(r, 201, InitialRecord.task)
           /\ UNCHANGED <<request, config, failure, output, log>>
  <2>1. /\ FailedStaticAnalysis(failure[r]) \in Records
        /\ Coherent(FailedStaticAnalysis(failure[r]))
        /\ FailedStaticAnalysis(failure[r]).task.status = "failed"
        /\ FailedStaticAnalysis(failure[r]).task.summary = failure[r]
    BY <1>1, FailedStaticAnalysisType
  <2>2. QED
    BY <1>1, <1>3, <2>1, StaticAnswered
<1>4. QED
  BY <1>2, <1>3 DEF BackfillFailure

---------------------------------------------------------------------------
(* The inductive invariant *)

(* Every step but a stutter is one request's, and lawful.                  *)
LEMMA StepOfOneRequest ==
    ASSUME IInv, Next
    PROVE  UNCHANGED vars \/ \E r \in Requests : TypeOK' /\ OthersUnchanged(r) /\ Consistent(r)'
<1>1. CASE Listening
  BY <1>1 DEF Listening
<1>2. ASSUME NEW r \in Requests,
             \/ RefuseRequest(r) \/ AcceptRequest(r) \/ AssetScanReturns(r)
             \/ AssetScanThrows(r) \/ SemgrepReturns(r) \/ ServiceStep(r)
      PROVE  TypeOK' /\ OthersUnchanged(r) /\ Consistent(r)'
  <2>1. TypeOK /\ Consistent(r)
    BY DEF IInv
  <2>2. QED
    BY <1>2, <2>1, RefuseRequestStep, AcceptRequestStep, AssetScanReturnsStep,
       AssetScanThrowsStep, SemgrepReturnsStep, StoreInitialArtifactsStep, HookThrowsStep,
       SelectProviderStep, StartScanStep, RunScanStep, BackfillResultStep, BackfillFailureStep
       DEF ServiceStep
<1>3. QED
  BY <1>1, <1>2 DEF Next

\* Before anything has arrived every request is idle and untouched.
LEMMA InitEstablishes == Init => IInv
<1> SUFFICES ASSUME Init PROVE IInv
  OBVIOUS
<1>1. NoFindings \in Findings
  BY NothingDerivedFromNoFindings
<1>2. TypeOK
  BY <1>1 DEF Init, TypeOK, Labels
<1>3. ASSUME NEW r \in Requests PROVE Consistent(r)
  BY DEF Init, Consistent, InProgress, InClient, Untouched
<1>4. QED
  BY <1>2, <1>3 DEF IInv

\* The invariant reads the variables only.
LEMMA StutterKeeps ==
    ASSUME IInv, UNCHANGED vars
    PROVE  IInv'
BY DEF vars, IInv, TypeOK, Consistent, InProgress, InClient, Untouched, RefusedOutcome,
       SandboxOutcome, AssetScanOutcome, StaticOutcome, Status

\* Every step keeps the invariant: one case per action.
LEMMA NextKeeps == IInv /\ [Next]_vars => IInv'
<1> SUFFICES ASSUME IInv, [Next]_vars PROVE IInv'
  OBVIOUS
<1>1. CASE UNCHANGED vars
  BY <1>1, StutterKeeps
<1>2. ASSUME NEW r \in Requests, TypeOK', OthersUnchanged(r), Consistent(r)'
      PROVE  IInv'
  <2>1. ASSUME NEW q \in Requests PROVE Consistent(q)'
    <3>1. CASE q = r
      BY <1>2, <3>1
    <3>2. CASE q \in Requests \ {r}
      BY <1>2, <3>2, Framed DEF IInv
    <3>3. QED
      BY <3>1, <3>2
  <2>2. QED
    BY <1>2, <2>1 DEF IInv
<1>3. QED
  BY <1>1, <1>2, StepOfOneRequest

(* Where a request is suspended always determines what has been stored,    *)
(* logged and answered for it: the invariant every other result rests on.  *)
THEOREM Inductive == Spec => []IInv
BY InitEstablishes, NextKeeps, PTL DEF Spec

(* Every variable always has the type TypeOK gives it.                     *)
THEOREM TypeCorrect == Spec => []TypeOK
<1>1. IInv => TypeOK
  BY DEF IInv
<1>2. QED
  BY <1>1, Inductive, PTL

---------------------------------------------------------------------------
(* What follows from the invariant in one state *)

(* A stored task is settled or still pending, and only an unstored one is   *)
(* neither.                                                                *)
LEMMA StatusOfRecords ==
    ASSUME IInv, NEW r \in Requests
    PROVE  /\ InitialRecord.task.status = "pending"
           /\ NoRecord.task.status = "absent"
           /\ Stored(r) => records[r] \in Records /\ Status(r) \in TaskStatuses
           /\ IsSettled(r) => Stored(r) /\ records[r] # InitialRecord /\ pc[r] = "done"
<1>1. InitialRecord.task.status = "pending" /\ NoRecord.task.status = "absent"
  BY DEF InitialRecord, RecordOf, Shell, NoRecord, NoShell
<1>2. Stored(r) => records[r] \in Records /\ Status(r) \in TaskStatuses
  BY DEF IInv, TypeOK, Stored, Status, Records, Shells
<1>3. pc[r] \in Labels
  BY DEF IInv, TypeOK
<1>4. pc[r] # "done" => records[r] = NoRecord \/ records[r] = InitialRecord
  BY <1>3 DEF IInv, Consistent, InProgress, InClient, Untouched, Labels
<1>5. QED
  BY <1>1, <1>2, <1>4 DEF IsSettled, Status, Stored

(* Task, result and risk summary always tell the same story.               *)
THEOREM ReadsAlwaysAgree == Spec => []ReadsAgree
<1>1. ASSUME IInv PROVE ReadsAgree
  <2> SUFFICES ASSUME NEW r \in Requests, Stored(r) PROVE Coherent(records[r])
    BY DEF ReadsAgree
  <2>1. Consistent(r) /\ pc[r] \in Labels
    BY <1>1 DEF IInv, TypeOK
  <2>2. CASE pc[r] = "done"
    BY <2>1, <2>2, InitialRecordType
       DEF Consistent, RefusedOutcome, SandboxOutcome, AssetScanOutcome, StaticOutcome, Stored
  <2>3. CASE pc[r] # "done"
    BY <2>1, <2>3, InitialRecordType
       DEF Consistent, InProgress, InClient, Untouched, Labels, Stored
  <2>4. QED
    BY <2>2, <2>3
<1>2. QED
  BY <1>1, Inductive, PTL

(* The answer to a POST always accounts for the task it leaves behind.     *)
THEOREM AnswersAccountForTasks == Spec => []AnswerAccountsForTask
<1>1. ASSUME IInv PROVE AnswerAccountsForTask
  <2> SUFFICES ASSUME NEW r \in Requests
               PROVE  /\ response[r].code = 201 =>
                          /\ request[r].type = "asset_scan" =>
                                 IsSettled(r) /\ response[r].body = records[r].task
                          /\ request[r].type = "static_analysis" =>
                                 IsSettled(r) /\ response[r].body = InitialRecord.task
                          /\ request[r].type = "sandbox_run" => records[r] = InitialRecord
                      /\ response[r].code = 500 =>
                             request[r].type = "static_analysis" /\ Status(r) = "pending"
                      /\ response[r].code = 400 => ~Stored(r)
    BY DEF AnswerAccountsForTask
  <2>1. Consistent(r) /\ pc[r] \in Labels
    BY <1>1 DEF IInv, TypeOK
  <2>2. CASE pc[r] # "done"
    <3>1. response[r] = NoResponse
      BY <2>1, <2>2 DEF Consistent, InProgress, InClient, Untouched, Labels
    <3>2. QED
      BY <3>1 DEF NoResponse
  <2>3. CASE pc[r] = "done" /\ RefusedOutcome(r)
    BY <2>3 DEF RefusedOutcome, Stored
  <2>4. CASE pc[r] = "done" /\ SandboxOutcome(r)
    BY <2>4 DEF SandboxOutcome
  <2>5. CASE pc[r] = "done" /\ AssetScanOutcome(r)
    BY <2>5 DEF AssetScanOutcome, IsSettled
  <2>6. CASE pc[r] = "done" /\ StaticOutcome(r)
    BY <1>1, <2>6, StatusOfRecords DEF StaticOutcome, IsSettled, Status
  <2>7. QED
    BY <2>1, <2>2, <2>3, <2>4, <2>5, <2>6 DEF Consistent
<1>2. QED
  BY <1>1, Inductive, PTL

(* No read ever finds an asset scan half made.                             *)
THEOREM AssetScansStoredWhole == Spec => []AssetScanStoredWhole
<1>1. ASSUME IInv PROVE AssetScanStoredWhole
  <2> SUFFICES ASSUME NEW r \in Requests, request[r].type = "asset_scan", Stored(r)
               PROVE  /\ IsSettled(r)
                      /\ Status(r) # "failed" =>
                             (Status(r) = "partial_success"
                                 <=> records[r].result.reason # "none")
                      /\ request[r].reason # "none" =>
                             records[r].result.reason = request[r].reason
    BY DEF AssetScanStoredWhole
  <2>1. Consistent(r) /\ pc[r] \in Labels
    BY <1>1 DEF IInv, TypeOK
  <2>2. pc[r] = "done"
    BY <2>1 DEF Consistent, InProgress, InClient, Untouched, Labels, Stored
  <2>3. AssetScanOutcome(r)
    BY <2>1, <2>2
       DEF Consistent, RefusedOutcome, SandboxOutcome, StaticOutcome, Stored
  <2>4. QED
    BY <2>3 DEF AssetScanOutcome, IsSettled
<1>2. QED
  BY <1>1, Inductive, PTL

(* A trail that was cut short ends with the event of the failure.          *)
LEMMA CutTrailEndsWithFailure ==
    ASSUME NEW phase \in Phases, NEW trail \in FailedTrails(phase)
    PROVE  trail[Len(trail)].event = "scan_failed"
<1> DEFINE failed == Event("scan_failed", phase)
<1>1. failed.event = "scan_failed"
  BY DEF Event
<1> HIDE DEF failed
<1>2. trail \in { <<failed>>, <<Selected, failed>>, <<Selected, Started, failed>>,
                  <<Selected, Started, Succeeded, failed>> }
  BY DEF FailedTrails, failed
<1>3. trail[Len(trail)] = failed
  BY <1>2
<1>4. QED
  BY <1>1, <1>3

(* An accepted request is answered 500 only for the hook or the sink: with  *)
(* the default wiring, where neither throws, never.                        *)
THEOREM DefaultWiringHandlesErrors == Spec => []NoInternalErrors
<1>1. ASSUME IInv PROVE NoInternalErrors
  <2> SUFFICES ASSUME NEW r \in Requests, response[r].code = 500
               PROVE  /\ Faults \cap {"hook", "sink"} # {}
                      /\ log[r] = <<>> \/ log[r][Len(log[r])].event = "scan_failed"
    BY DEF NoInternalErrors
  <2>1. Consistent(r) /\ pc[r] \in Labels
    BY <1>1 DEF IInv, TypeOK
  <2>2. pc[r] = "done"
    <3>1. CASE pc[r] # "done"
      <4>1. response[r] = NoResponse
        BY <2>1, <3>1 DEF Consistent, InProgress, InClient, Untouched, Labels
      <4>2. QED
        BY <4>1 DEF NoResponse
    <3>2. QED
      BY <3>1
  <2>3. /\ Faults \cap {"hook", "sink"} # {}
        /\ log[r] \in {<<>>} \cup UNION {FailedTrails(phase) : phase \in Phases}
    BY <2>1, <2>2
       DEF Consistent, RefusedOutcome, SandboxOutcome, AssetScanOutcome, StaticOutcome
  <2>4. ASSUME NEW phase \in Phases, log[r] \in FailedTrails(phase)
        PROVE  log[r][Len(log[r])].event = "scan_failed"
    BY <2>4, CutTrailEndsWithFailure
  <2>5. QED
    BY <2>3, <2>4
<1>2. QED
  BY <1>1, Inductive, PTL

(* A sequence of events explains a record whose summary is `text` the way   *)
(* LogExplainsRecord asks for.                                             *)
FailuresIn(trail) == {i \in DOMAIN trail : trail[i].event = "scan_failed"}

WellFormedTrail(trail) ==
    /\ FailuresIn(trail) \subseteq {Len(trail)}
    /\ \A i \in DOMAIN trail \ FailuresIn(trail) : i \in 1..3 /\ trail[i].event = Trail[i]

(* The trail up to any await of the client is well formed, without failure. *)
LEMMA TrailWithoutFailure ==
    ASSUME NEW trail \in {<<>>, <<Selected>>, <<Selected, Started>>,
                          <<Selected, Started, Succeeded>>}
    PROVE  WellFormedTrail(trail) /\ FailuresIn(trail) = {}
<1>1. /\ Selected.event = "provider_selected"
      /\ Started.event = "scan_started"
      /\ Succeeded.event = "scan_succeeded"
  BY DEF Selected, Started, Succeeded, Event
<1>2. /\ Trail[1] = "provider_selected"
      /\ Trail[2] = "scan_started"
      /\ Trail[3] = "scan_succeeded"
  BY DEF Trail
<1>3. DOMAIN trail \subseteq 1..3 /\ \A i \in DOMAIN trail : trail[i].event = Trail[i]
  <2>1. CASE trail = <<>>
    BY <2>1
  <2>2. CASE trail = <<Selected>>
    BY <1>1, <1>2, <2>2
  <2>3. CASE trail = <<Selected, Started>>
    BY <1>1, <1>2, <2>3
  <2>4. CASE trail = <<Selected, Started, Succeeded>>
    BY <1>1, <1>2, <2>4
  <2>5. QED
    BY <2>1, <2>2, <2>3, <2>4
<1>4. \A i \in 1..3 : Trail[i] # "scan_failed"
  BY <1>2
<1>5. QED
  BY <1>3, <1>4 DEF WellFormedTrail, FailuresIn

(* A failed trail is well formed, and its last event is the failure.       *)
LEMMA TrailWithFailure ==
    ASSUME NEW phase \in Phases, NEW trail \in FailedTrails(phase)
    PROVE  /\ WellFormedTrail(trail)
           /\ FailuresIn(trail) # {}
           /\ trail[Len(trail)].phase = phase
<1> DEFINE failed == Event("scan_failed", phase)
<1>1. /\ Selected.event = "provider_selected"
      /\ Started.event = "scan_started"
      /\ Succeeded.event = "scan_succeeded"
      /\ failed.event = "scan_failed" /\ failed.phase = phase
  BY DEF Selected, Started, Succeeded, Event
<1>2. /\ Trail[1] = "provider_selected"
      /\ Trail[2] = "scan_started"
      /\ Trail[3] = "scan_succeeded"
  BY DEF Trail
<1>3. trail \in {<<failed>>, <<Selected, failed>>, <<Selected, Started, failed>>,
                 <<Selected, Started, Succeeded, failed>>}
  BY DEF FailedTrails
<1> HIDE DEF failed
<1>4. /\ Len(trail) \in 1..4
      /\ DOMAIN trail = 1..Len(trail)
      /\ trail[Len(trail)] = failed
      /\ \A i \in 1..Len(trail) : i # Len(trail) => i \in 1..3 /\ trail[i].event = Trail[i]
  <2>1. CASE trail = <<failed>>
    BY <1>1, <1>2, <2>1
  <2>2. CASE trail = <<Selected, failed>>
    BY <1>1, <1>2, <2>2
  <2>3. CASE trail = <<Selected, Started, failed>>
    BY <1>1, <1>2, <2>3
  <2>4. CASE trail = <<Selected, Started, Succeeded, failed>>
    BY <1>1, <1>2, <2>4
  <2>5. QED
    BY <1>3, <2>1, <2>2, <2>3, <2>4
<1>5. \A i \in 1..3 : Trail[i] # "scan_failed"
  BY <1>2
<1>6. FailuresIn(trail) = {Len(trail)}
  <2>1. ASSUME NEW i \in 1..Len(trail) PROVE trail[i].event = "scan_failed" <=> i = Len(trail)
    BY <1>1, <1>4, <1>5
  <2>2. Len(trail) \in 1..Len(trail)
    <3>1. \A n \in 1..4 : n \in 1..n
      OBVIOUS
    <3>2. QED
      BY <1>4, <3>1, Zenon
  <2>3. QED
    BY <1>4, <2>1, <2>2, Zenon DEF FailuresIn
<1>7. QED
  BY <1>1, <1>4, <1>6 DEF WellFormedTrail

(* The diagnostic events of a static analysis always explain its record.   *)
THEOREM LogAlwaysExplains == Spec => []LogExplainsRecord
<1>1. ASSUME IInv PROVE LogExplainsRecord
  <2> SUFFICES ASSUME NEW r \in Requests
               PROVE  /\ WellFormedTrail(log[r])
                      /\ Stored(r) /\ Status(r) = "finished"
                             /\ request[r].type = "static_analysis" =>
                         Len(log[r]) = 3 /\ FailuresIn(log[r]) = {}
                      /\ Stored(r) /\ Status(r) = "failed"
                             /\ request[r].type = "static_analysis" =>
                         /\ FailuresIn(log[r]) # {}
                         /\ log[r][Len(log[r])].phase = records[r].task.summary
    BY DEF LogExplainsRecord, FailedEvents, WellFormedTrail, FailuresIn
  <2>1. Consistent(r) /\ pc[r] \in Labels
    BY <1>1 DEF IInv, TypeOK
  <2>2. \/ log[r] \in {<<>>, <<Selected>>, <<Selected, Started>>,
                       <<Selected, Started, Succeeded>>}
        \/ \E phase \in Phases : log[r] \in FailedTrails(phase)
    <3>1. CASE pc[r] # "done"
      BY <2>1, <3>1 DEF Consistent, InProgress, Untouched, Labels
    <3>2. CASE pc[r] = "done" /\ StaticOutcome(r)
      <4>1. ASSUME log[r] \in UNION {FailedTrails(phase) : phase \in Phases}
            PROVE  \E phase \in Phases : log[r] \in FailedTrails(phase)
        BY <4>1
      <4>2. \/ log[r] = <<>>
            \/ log[r] \in UNION {FailedTrails(phase) : phase \in Phases}
            \/ log[r] = <<Selected, Started, Succeeded>>
            \/ \E phase \in Phases : log[r] \in FailedTrails(phase)
        BY <3>2, Zenon DEF StaticOutcome
      <4>3. QED
        BY <4>1, <4>2, Zenon
    <3>3. CASE pc[r] = "done" /\ ~StaticOutcome(r)
      BY <2>1, <3>3 DEF Consistent, RefusedOutcome, SandboxOutcome, AssetScanOutcome
    <3>4. QED
      BY <3>1, <3>2, <3>3
  <2>3. WellFormedTrail(log[r])
    BY <2>2, TrailWithoutFailure, TrailWithFailure
  <2>4. ASSUME request[r].type = "static_analysis", IsSettled(r)
        PROVE  \/ Status(r) = "finished" /\ log[r] = <<Selected, Started, Succeeded>>
               \/ /\ Status(r) = "failed"
                  /\ records[r].task.summary \in Phases
                  /\ log[r] \in FailedTrails(records[r].task.summary)
    <3>1. pc[r] = "done" /\ records[r] # InitialRecord /\ Stored(r)
      BY <1>1, <2>4, StatusOfRecords
    <3>2. StaticOutcome(r)
      BY <2>1, <2>4, <3>1
         DEF Consistent, RefusedOutcome, SandboxOutcome, AssetScanOutcome, Stored
    <3>3. QED
      BY <3>1, <3>2 DEF StaticOutcome
  <2>5. Len(<<Selected, Started, Succeeded>>) = 3
    OBVIOUS
  <2>6. QED
    BY <2>3, <2>4, <2>5, TrailWithoutFailure, TrailWithFailure DEF IsSettled
<1>2. QED
  BY <1>1, Inductive, PTL

---------------------------------------------------------------------------
(* What a step may change *)

(* The effect of a step of request r on what its client sees.              *)
Effect(r, record, answer) ==
    /\ records' = [records EXCEPT ![r] = record]
    /\ response' = [response EXCEPT ![r] = answer]

(* A step changes nothing a client sees, or one request that is neither    *)
(* stored settled nor answered is moved on in one of five ways.            *)
VisibleStep(r) ==
    \/ UNCHANGED <<records, response>>
    \/ /\ records[r] = NoRecord
       /\ response[r] = NoResponse
       /\ \/ Effect(r, NoRecord, [code |-> 400, body |-> NoShell])
          \/ Effect(r, InitialRecord, NoResponse)
          \/ \E record \in Records : Effect(r, record, [code |-> 201, body |-> record.task])
    \/ /\ records[r] = InitialRecord
       /\ response[r] = NoResponse
       /\ \/ Effect(r, InitialRecord, [code |-> 500, body |-> NoShell])
          \/ \E record \in Records :
                /\ record.task.status \in {"finished", "failed"}
                /\ Effect(r, record, [code |-> 201, body |-> InitialRecord.task])

\* A step shows a client the record and answer of one request at most.
LEMMA OneVisibleStep ==
    ASSUME IInv, Next
    PROVE  UNCHANGED <<records, response>> \/ \E r \in Requests : VisibleStep(r)
<1>1. CASE Listening
  BY <1>1 DEF Listening, vars
<1> SUFFICES ASSUME NEW r \in Requests,
                    \/ RefuseRequest(r) \/ AcceptRequest(r) \/ AssetScanReturns(r)
                    \/ AssetScanThrows(r) \/ SemgrepReturns(r) \/ ServiceStep(r)
             PROVE  VisibleStep(r)
  BY <1>1 DEF Next
<1>2. /\ TypeOK /\ Consistent(r)
      /\ records[r] \in Records \cup {NoRecord}
      /\ records = [records EXCEPT ![r] = records[r]]
      /\ response = [response EXCEPT ![r] = response[r]]
  BY DEF IInv, TypeOK
<1>3. ASSUME NEW phase, ClientFails(r, phase) \/ HandleSkillsStaticFailure(r, phase)
      PROVE  VisibleStep(r)
  BY <1>3 DEF ClientFails, HandleSkillsStaticFailure, VisibleStep
<1>4. ASSUME NEW findings, ClientSucceeds(r, findings) PROVE VisibleStep(r)
  BY <1>4 DEF ClientSucceeds, VisibleStep
<1>5. CASE RefuseRequest(r)
  <2>1. records[r] = NoRecord /\ response[r] = NoResponse /\ records' = records
    BY <1>2, <1>5 DEF RefuseRequest, Consistent, InProgress, Untouched
  <2>2. Effect(r, NoRecord, [code |-> 400, body |-> NoShell])
    BY <1>2, <1>5, <2>1 DEF RefuseRequest, Answer, Effect
  <2>3. QED
    BY <2>1, <2>2 DEF VisibleStep
<1>6. CASE AcceptRequest(r)
  BY <1>6 DEF AcceptRequest, VisibleStep
<1>7. CASE AssetScanReturns(r) \/ AssetScanThrows(r)
  <2>1. records[r] = NoRecord /\ response[r] = NoResponse
    BY <1>2, <1>7 DEF AssetScanReturns, StoreCompletedScan, AssetScanThrows, StoreFailedScan, Consistent, InProgress, Untouched
  <2>2. PICK record : Effect(r, record, [code |-> 201, body |-> record.task])
    BY <1>7 DEF AssetScanReturns, StoreCompletedScan, AssetScanThrows, StoreFailedScan, Save, Answer, Effect
  <2>3. record \in Records
    <3>1. TypeOK' /\ Consistent(r)' /\ response'[r].code = 201
      BY <1>2, <1>7, <2>2, AssetScanReturnsStep, AssetScanThrowsStep DEF Effect, TypeOK
    <3>2. records'[r] = record /\ records'[r] \in Records \cup {NoRecord}
      BY <2>2, <3>1 DEF Effect, TypeOK
    <3>3. pc'[r] = "done" /\ request'[r].type = "asset_scan"
      BY <1>2, <1>7 DEF AssetScanReturns, StoreCompletedScan, AssetScanThrows, StoreFailedScan, Answer, Goto, TypeOK,
         Consistent, InProgress
    <3>4. records'[r] \in Records
      BY <3>1, <3>3 DEF Consistent, RefusedOutcome, SandboxOutcome, AssetScanOutcome,
         StaticOutcome
    <3>5. QED
      BY <3>2, <3>4
  <2>4. QED
    BY <2>1, <2>2, <2>3 DEF VisibleStep
<1>8. CASE StoreInitialArtifacts(r)
  <2>1. records[r] = NoRecord /\ response[r] = NoResponse
    BY <1>2, <1>8 DEF StoreInitialArtifacts, Consistent, InProgress, Untouched
  <2>2. \/ Effect(r, InitialRecord, NoResponse)
        \/ Effect(r, InitialRecord, [code |-> 201, body |-> InitialRecord.task])
    BY <1>2, <1>8, <2>1 DEF StoreInitialArtifacts, Save, Answer, Effect
  <2>3. QED
    BY <2>1, <2>2, InitialRecordType DEF VisibleStep
<1>9. CASE /\ pc[r] \in {"dispatching", "failing"}
           /\ AnswerInternalError(r)
  <2>1. records[r] = InitialRecord /\ response[r] = NoResponse /\ records' = records
    BY <1>2, <1>9 DEF AnswerInternalError, Consistent, InProgress, InClient
  <2>2. Effect(r, InitialRecord, [code |-> 500, body |-> NoShell])
    BY <1>2, <1>9, <2>1 DEF AnswerInternalError, Answer, Effect
  <2>3. QED
    BY <2>1, <2>2 DEF VisibleStep
<1>10. ASSUME pc[r] \in {"succeeded", "failing"},
              NEW record \in Records, record.task.status \in {"finished", "failed"},
              Save(r, record), Answer(r, 201, InitialRecord.task)
       PROVE  VisibleStep(r)
  <2>1. records[r] = InitialRecord /\ response[r] = NoResponse
    BY <1>2, <1>10 DEF Consistent, InProgress, InClient
  <2>2. Effect(r, record, [code |-> 201, body |-> InitialRecord.task])
    BY <1>10 DEF Save, Answer, Effect
  <2>3. QED
    BY <1>10, <2>1, <2>2, Zenon DEF VisibleStep
<1>11. CASE BackfillResult(r)
  <2>1. output[r] \in Findings /\ pc[r] = "succeeded"
    BY <1>2, <1>11 DEF TypeOK, BackfillResult
  <2>2. QED
    BY <1>3, <1>10, <1>11, <2>1, CompletedStaticAnalysisType DEF BackfillResult, SinkRejects
<1>12. CASE BackfillFailure(r)
  <2>1. failure[r] \in Phases /\ pc[r] = "failing"
    BY <1>2, <1>12 DEF BackfillFailure, Consistent, InProgress
  <2>2. QED
    BY <1>9, <1>10, <1>12, <2>1, FailedStaticAnalysisType DEF BackfillFailure
<1>13. CASE HookThrows(r)
  BY <1>9, <1>13 DEF HookThrows
<1>14. CASE SelectProvider(r)
  BY <1>3, <1>14 DEF SelectProvider, VisibleStep
<1>15. CASE StartScan(r)
  BY <1>3, <1>15 DEF StartScan, SinkRejects, VisibleStep
<1>16. CASE RunScan(r)
  BY <1>3, <1>4, <1>16 DEF RunScan, SinkRejects, VisibleStep
<1>17. CASE SemgrepReturns(r)
  BY <1>3, <1>4, <1>17 DEF SemgrepReturns
<1>18. QED
  BY <1>5, <1>6, <1>7, <1>8, <1>11, <1>12, <1>13, <1>14, <1>15, <1>16, <1>17 DEF ServiceStep

(* Nothing about a task changes once it is settled or its POST answered.   *)
THEOREM SettledStaysFinal == Spec => SettledIsFinal
<1> DEFINE Final ==
        \A r \in Requests :
            IsSettled(r) \/ response[r] # NoResponse =>
                records'[r] = records[r] /\ response'[r] = response[r]
<1>1. ASSUME IInv, Next PROVE Final
  <2>1. CASE UNCHANGED <<records, response>>
    BY <2>1
  <2>2. ASSUME NEW q \in Requests, VisibleStep(q) PROVE Final
    <3> SUFFICES ASSUME NEW r \in Requests, IsSettled(r) \/ response[r] # NoResponse
                 PROVE  records'[r] = records[r] /\ response'[r] = response[r]
      OBVIOUS
    <3>1. CASE r = q
      <4>1. response[r] = NoResponse =>
                ~(records[r] = NoRecord) /\ ~(records[r] = InitialRecord)
        BY <1>1, StatusOfRecords DEF Stored
      <4>2. QED
        BY <2>2, <3>1, <4>1 DEF VisibleStep
    <3>2. CASE r # q
      <4>1. \/ UNCHANGED <<records, response>>
            \/ \E record, answer : Effect(q, record, answer)
        BY <2>2 DEF VisibleStep
      <4>2. QED
        BY <1>1, <3>2, <4>1 DEF Effect, IInv, TypeOK
    <3>3. QED
      BY <3>1, <3>2
  <2>3. QED
    BY <1>1, <2>1, <2>2, OneVisibleStep
<1>2. IInv /\ [Next]_vars => [Final]_vars
  BY <1>1
<1>3. QED
  BY <1>2, Inductive, PTL DEF Spec, SettledIsFinal

---------------------------------------------------------------------------
(* The task center implements the abstract task lifecycle *)

(* A step that changes one request's record and answer changes the same    *)
(* request's abstract status and answer.                                   *)
LEMMA EffectOnLifecycle ==
    ASSUME IInv, NEW r \in Requests, NEW record, NEW answer, Effect(r, record, answer)
    PROVE  /\ statusBar' = [statusBar EXCEPT ![r] = record.task.status]
           /\ answerBar' = [answerBar EXCEPT ![r] = AnswerKind(answer.code)]
BY DEF Effect, statusBar, answerBar, IInv, TypeOK

(* What a client makes of each answer code.                                *)
LEMMA AnswerKinds ==
    /\ AnswerKind(0) = "none"
    /\ AnswerKind(201) = "created"
    /\ AnswerKind(400) = "invalid"
    /\ AnswerKind(500) = "error"
BY DEF AnswerKind

THEOREM ImplementsTaskLifecycle == Spec => ImplementsLifecycle
<1>1. Init => Lifecycle!LifecycleInit
  BY AnswerKinds
     DEF Init, Lifecycle!LifecycleInit, statusBar, answerBar, NoRecord, NoShell, NoResponse
<1>2. ASSUME IInv, Next PROVE [Lifecycle!LifecycleNext]_(Lifecycle!lifecycleVars)
  <2>1. CASE UNCHANGED <<records, response>>
    BY <2>1 DEF Lifecycle!lifecycleVars, statusBar, answerBar
  <2>2. ASSUME NEW r \in Requests, VisibleStep(r)
        PROVE  \/ UNCHANGED <<records, response>>
               \/ Lifecycle!LifecycleNext
    <3>1. /\ statusBar[r] = records[r].task.status
          /\ answerBar[r] = AnswerKind(response[r].code)
          /\ NoRecord.task.status = "absent"
          /\ InitialRecord.task.status = "pending"
          /\ NoResponse.code = 0
          /\ statusBar = [statusBar EXCEPT ![r] = statusBar[r]]
          /\ answerBar = [answerBar EXCEPT ![r] = answerBar[r]]
      BY <1>2, StatusOfRecords DEF statusBar, answerBar, NoResponse
    <3>2. CASE records[r] = NoRecord /\ response[r] = NoResponse
               /\ Effect(r, NoRecord, [code |-> 400, body |-> NoShell])
      <4>1. Lifecycle!Refuse(r)
        BY <1>2, <3>1, <3>2, EffectOnLifecycle, AnswerKinds DEF Lifecycle!Refuse
      <4>2. QED
        BY <4>1 DEF Lifecycle!LifecycleNext
    <3>3. CASE records[r] = NoRecord /\ response[r] = NoResponse
               /\ Effect(r, InitialRecord, NoResponse)
      <4>1. Lifecycle!Publish(r)
        BY <1>2, <3>1, <3>3, EffectOnLifecycle, AnswerKinds DEF Lifecycle!Publish
      <4>2. QED
        BY <4>1 DEF Lifecycle!LifecycleNext
    <3>4. ASSUME records[r] = NoRecord, response[r] = NoResponse, NEW record \in Records,
                 Effect(r, record, [code |-> 201, body |-> record.task])
          PROVE  Lifecycle!LifecycleNext
      <4>1. record.task.status \in Lifecycle!Statuses \ {"absent"}
        BY DEF Records, Shells, TaskStatuses, Lifecycle!Statuses, Lifecycle!Settled
      <4>2. Lifecycle!PublishAndAnswer(r)
        BY <1>2, <3>1, <3>4, <4>1, EffectOnLifecycle, AnswerKinds
           DEF Lifecycle!PublishAndAnswer
      <4>3. QED
        BY <4>2 DEF Lifecycle!LifecycleNext
    <3>5. CASE records[r] = InitialRecord /\ response[r] = NoResponse
               /\ Effect(r, InitialRecord, [code |-> 500, body |-> NoShell])
      <4>1. Lifecycle!Abandon(r)
        BY <1>2, <3>1, <3>5, EffectOnLifecycle, AnswerKinds DEF Lifecycle!Abandon
      <4>2. QED
        BY <4>1 DEF Lifecycle!LifecycleNext
    <3>6. ASSUME records[r] = InitialRecord, response[r] = NoResponse, NEW record \in Records,
                 record.task.status \in {"finished", "failed"},
                 Effect(r, record, [code |-> 201, body |-> InitialRecord.task])
          PROVE  Lifecycle!LifecycleNext
      <4>1. Lifecycle!SettleAndAnswer(r)
        BY <1>2, <3>1, <3>6, EffectOnLifecycle, AnswerKinds DEF Lifecycle!SettleAndAnswer
      <4>2. QED
        BY <4>1 DEF Lifecycle!LifecycleNext
    <3>7. QED
      BY <2>2, <3>2, <3>3, <3>4, <3>5, <3>6 DEF VisibleStep
  <2>3. QED
    BY <1>2, <2>1, <2>2, OneVisibleStep
    DEF Lifecycle!lifecycleVars, statusBar, answerBar
<1>3. UNCHANGED vars => UNCHANGED Lifecycle!lifecycleVars
  BY DEF vars, Lifecycle!lifecycleVars, statusBar, answerBar
<1>4. QED
  BY <1>1, <1>2, <1>3, Inductive, PTL
     DEF Spec, ImplementsLifecycle, Lifecycle!LifecycleSpec

============================================================================
