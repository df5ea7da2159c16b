---------------------------- MODULE TaskCenter ----------------------------
(***************************************************************************)
(* The backend's task center: what happens to every POST /api/tasks from   *)
(* its arrival to its answer, in the interleavings of one Node process.    *)
(*                                                                         *)
(* A request runs without interruption from one await to the next, so an   *)
(* action is a stretch of createTask (and of the engine client it calls)   *)
(* between two awaits; pc[r] names the await that request r is suspended   *)
(* at.  Between two actions any other request, and any read of the store,  *)
(* may run.  The store is memory of that process: nothing survives it.     *)
(*                                                                         *)
(* Task ids are unique by assumption (a timestamp and 24 random bits), so  *)
(* a request names its task.                                               *)
(***************************************************************************)
EXTENDS RiskDerivation, Sequences

CONSTANTS
    Requests,   \* the POST requests
    Details,    \* what the engines may find: a set of Findings
    Faults      \* which injected collaborators may throw

(***************************************************************************)
(* The collaborators the constructors accept and cannot vouch for: the     *)
(* onDispatch hook, the runtime log sink, the mapper of semgrep output,    *)
(* and the engine service that derives a finished record.  The default     *)
(* wiring of createTaskCenterModule injects none of them.                  *)
(***************************************************************************)
Collaborators == {"hook", "sink", "mapper", "deriver"}

ASSUME DetailsAssumption == Details \subseteq Findings
ASSUME FaultsAssumption == Faults \subseteq Collaborators

VARIABLES
    pc,         \* the await each request is suspended at
    request,    \* the normalized request, once it is accepted
    config,     \* the environment the engine client reads on each dispatch
    failure,    \* the phase of the failure a request is reporting
    output,     \* the findings of the engine a request is reporting
    records,    \* the repository: a record of each stored task
    log,        \* the diagnostic events sent to the log sink, per task
    response    \* the answer to each request

vars == <<pc, request, config, failure, output, records, log, response>>

---------------------------------------------------------------------------
(* Requests *)

TaskTypes == {"asset_scan", "static_analysis", "sandbox_run"}

InterruptionReasons == {"none", "budget", "timeout", "manual_stop"}

\* What parameters.audit.interruption_reason may hold: nothing, an allowed
\* reason, or any other string.
RawReasons == InterruptionReasons \cup {"absent", "unlisted"}

\* The reason normalizeAssetScanParameters stores in the task's parameters.
NormalizedReason(raw) == IF raw \in InterruptionReasons THEN raw ELSE "none"

NoRequest == [type |-> "none", reason |-> "none"]

NormalizedRequests == [type : TaskTypes, reason : InterruptionReasons]

(* The engine client's configuration: SKILLS_STATIC_ENGINE_PROVIDER, and   *)
(* whether SKILLS_STATIC_SEMGREP_TIMEOUT_MS is a positive number.          *)
Configs == [provider : {"mock", "semgrep", "unsupported"}, timeoutValid : BOOLEAN]

---------------------------------------------------------------------------
(* Stored records: the same outcome is written into a task, a result and a *)
(* risk summary, which the three read routes serve one at a time.          *)

Phases == {"provider_selection", "runner", "mapper", "normalizer", "deriver"}
TaskStatuses == {"pending", "finished", "partial_success", "failed"}

\* The summary text, by what tells one from another.
Texts == {"accepted", "completed", "partially_completed", "scan_failed"} \cup Phases

Shells == [status : TaskStatuses, risk_level : RiskLevels, summary : Texts]

Records ==
    [ task : Shells,
      result : [shell : Shells, findings : Findings, reason : InterruptionReasons],
      riskSummary : [shell : Shells, derived : DerivedSummaries] ]

NoShell == [status |-> "absent", risk_level |-> "info", summary |-> "accepted"]
NoRecord == [task |-> NoShell]

Shell(st, risk, text) == [status |-> st, risk_level |-> risk, summary |-> text]

RecordOf(shell, findings, reason, derived) ==
    [ task |-> shell,
      result |-> [shell |-> shell, findings |-> findings, reason |-> reason],
      riskSummary |-> [shell |-> shell, derived |-> derived] ]

NothingDerived ==
    [risk_level |-> "info", total_findings |-> 0, counts |-> [l \in RiskLevels |-> 0]]

\* The record of createInitialArtifacts, for a task type whose adapter
\* answers with empty placeholder details.
InitialRecord ==
    RecordOf(Shell("pending", "info", "accepted"), NoFindings, "none", NothingDerived)

\* Mutant: the shells keep the risk level of the pending record.
CompletedStaticAnalysisKeepingRisk(findings) ==
    RecordOf(Shell("finished", "info", "completed"), findings, "none",
             DeriveRiskSummary(findings))

CompletedStaticAnalysis(findings) ==
    LET derived == DeriveRiskSummary(findings)
    IN  RecordOf(Shell("finished", derived.risk_level, "completed"), findings, "none", derived)

FailedStaticAnalysis(phase) ==
    RecordOf(Shell("failed", "info", phase), NoFindings, "none", NothingDerived)

\* Mutant: the engine's reason overrides the request's.
MergedReasonOfEngine(requested, engine) ==
    IF engine # "absent" THEN NormalizedReason(engine) ELSE requested

\* Which reason survives when the request and the engine both give one.
MergedReason(requested, engine) ==
    IF requested # "none" THEN requested
    ELSE IF engine # "absent" THEN NormalizedReason(engine)
    ELSE requested

CompletedAssetScan(findings, reason) ==
    LET derived == DeriveRiskSummary(findings)
        shell == IF reason = "none"
                 THEN Shell("finished", derived.risk_level, "completed")
                 ELSE Shell("partial_success", derived.risk_level, "partially_completed")
    IN  RecordOf(shell, findings, reason, derived)

FailedAssetScan(reason) ==
    RecordOf(Shell("failed", "info", "scan_failed"), NoFindings, reason, NothingDerived)

\* The reason of a failed scan: the request's, or what the error's text says.
FailureReason(requested, message) ==
    IF requested # "none" THEN requested
    ELSE IF message \in {"timeout", "budget"} THEN message
    ELSE "none"

---------------------------------------------------------------------------
(* What the engine client makes of its engines *)

\* createMockSkillsStaticEngineResult: one high and one medium rule hit.
MockFindings == [NoFindings EXCEPT !["high"] = 1, !["medium"] = 1]

(* The normalizer rejects the whole output when a rule hit lacks a         *)
(* severity of the platform, a message, a file path, or half of its line   *)
(* region: the mapper lets such hits through, here as hits of level        *)
(* "unknown".                                                              *)
NormalizerAccepts(findings) == findings["unknown"] = 0

\* What the client's own text of a scan error can tell, and what else it may say.
ScanErrors == {"timeout", "budget", "other"}

---------------------------------------------------------------------------
(* Events, answers and the steps they are made of *)

Events ==
    [ event : {"provider_selected", "scan_started", "scan_succeeded", "scan_failed"},
      phase : Phases \cup {"none"} ]

Event(name, phase) == [event |-> name, phase |-> phase]
Selected == Event("provider_selected", "none")
Started == Event("scan_started", "none")
Succeeded == Event("scan_succeeded", "none")

\* What the POST is answered: a status code and, with 201, the task it returns.
NoResponse == [code |-> 0, body |-> NoShell]
Responses == [code : {201, 400, 500}, body : Shells \cup {NoShell}]

(* Suspended at: nothing yet ("idle"), the initial artifacts ("creating"   *)
(* or, for an asset scan, the engine process: "scanning"), the onDispatch  *)
(* hook ("dispatching"), the log sink after an event ("selected",          *)
(* "started", "succeeded", "failing"), the semgrep process ("running");    *)
(* answered ("done").                                                      *)
Labels ==
    { "idle", "creating", "scanning", "dispatching", "selected", "started",
      "running", "succeeded", "failing", "done" }

Goto(r, label) == pc' = [pc EXCEPT ![r] = label]

Emit(r, event, phase) == log' = [log EXCEPT ![r] = Append(@, Event(event, phase))]

\* repository.save: the record replaces the one stored under the task's id.
Save(r, record) == records' = [records EXCEPT ![r] = record]

Answer(r, code, body) ==
    /\ response' = [response EXCEPT ![r] = [code |-> code, body |-> body]]
    /\ Goto(r, "done")

\* An error that is none of the service's own reaches AppModule.handle.
AnswerInternalError(r) ==
    /\ Answer(r, 500, NoShell)
    /\ UNCHANGED <<request, config, failure, output, records, log>>

\* Mutant: a failure is thrown on without an event.
ClientFailsSilently(r, phase) ==
    /\ failure' = [failure EXCEPT ![r] = phase]
    /\ Goto(r, "failing")
    /\ UNCHANGED <<request, config, output, records, log, response>>

\* The catch of the client's dispatch: the failure is logged, then thrown.
ClientFails(r, phase) ==
    /\ failure' = [failure EXCEPT ![r] = phase]
    /\ Emit(r, "scan_failed", phase)
    /\ Goto(r, "failing")
    /\ UNCHANGED <<request, config, output, records, response>>

\* Mutant: every failure the service handles is logged as the normalizer's.
HandleSkillsStaticFailureAsNormalizer(r, phase) ==
    /\ failure' = [failure EXCEPT ![r] = phase]
    /\ Emit(r, "scan_failed", "normalizer")
    /\ Goto(r, "failing")
    /\ UNCHANGED <<request, config, output, records, response>>

\* Mutant: malformed output leaves the pending shell as it is.
HandleSkillsStaticFailureKeepingShell(r, phase) ==
    /\ Answer(r, 201, InitialRecord.task)
    /\ UNCHANGED <<request, config, failure, output, records, log>>

\* The service's own handler of output it cannot use: logged, then stored.
HandleSkillsStaticFailure(r, phase) ==
    /\ failure' = [failure EXCEPT ![r] = phase]
    /\ Emit(r, "scan_failed", phase)
    /\ Goto(r, "failing")
    /\ UNCHANGED <<request, config, output, records, response>>

\* The client has an engine output to report.
ClientSucceeds(r, findings) ==
    /\ output' = [output EXCEPT ![r] = findings]
    /\ Emit(r, "scan_succeeded", "none")
    /\ Goto(r, "succeeded")
    /\ UNCHANGED <<request, config, failure, records, response>>

\* While the client waits for its log sink, a sink that throws is taken for
\* a failure of the mapper.
SinkRejects(r) ==
    /\ "sink" \in Faults
    /\ ClientFails(r, "mapper")

---------------------------------------------------------------------------
(* The actions *)

Init ==
    /\ pc = [r \in Requests |-> "idle"]
    /\ request = [r \in Requests |-> NoRequest]
    /\ config \in Configs
    /\ failure = [r \in Requests |-> "none"]
    /\ output = [r \in Requests |-> NoFindings]
    /\ records = [r \in Requests |-> NoRecord]
    /\ log = [r \in Requests |-> <<>>]
    /\ response = [r \in Requests |-> NoResponse]

\* A body that is no valid task request.
RefuseRequest(r) ==
    /\ pc[r] = "idle"
    /\ Answer(r, 400, NoShell)
    /\ UNCHANGED <<request, config, failure, output, records, log>>

\* Mutant: the pending record of an asset scan is stored before its engine runs.
AcceptRequestStoringScan(r) ==
    /\ pc[r] = "idle"
    /\ \E raw \in RawReasons :
        request' = [request EXCEPT ![r] =
            [type |-> "asset_scan", reason |-> NormalizedReason(raw)]]
    /\ Goto(r, "scanning")
    /\ Save(r, InitialRecord)
    /\ UNCHANGED <<config, failure, output, log, response>>

\* createTask, up to its first await: an asset scan waits for its engine there.
AcceptRequest(r) ==
    /\ pc[r] = "idle"
    /\ \E type \in TaskTypes, raw \in RawReasons :
        /\ request' = [request EXCEPT ![r] =
               [ type |-> type,
                 reason |-> IF type = "asset_scan" THEN NormalizedReason(raw) ELSE "none" ]]
        /\ Goto(r, IF type = "asset_scan" THEN "scanning" ELSE "creating")
    /\ UNCHANGED <<config, failure, output, records, log, response>>

(* The engine's details are stored.  The pending record is saved, completed *)
(* and saved again with no await in between: only the completed record can *)
(* be read.                                                                *)
StoreCompletedScan(r, findings, reason) ==
    LET record == CompletedAssetScan(findings, MergedReason(request[r].reason, reason))
    IN  /\ pc[r] = "scanning"
        /\ Save(r, record)
        /\ Answer(r, 201, record.task)
        /\ UNCHANGED <<request, config, failure, output, log>>

\* The engine's failure is stored.
StoreFailedScan(r, message) ==
    LET record == FailedAssetScan(FailureReason(request[r].reason, message))
    IN  /\ pc[r] = "scanning"
        /\ Save(r, record)
        /\ Answer(r, 201, record.task)
        /\ UNCHANGED <<request, config, failure, output, log>>

\* The engine process answers with details, or with none.
AssetScanReturns(r) ==
    \E findings \in Details \cup {NoFindings}, reason \in RawReasons :
        StoreCompletedScan(r, findings, reason)

\* Mutant: a failed scan is stored as if it were still to come.
AssetScanThrowsKeepingPending(r) ==
    /\ pc[r] = "scanning"
    /\ Save(r, InitialRecord)
    /\ Answer(r, 201, InitialRecord.task)
    /\ UNCHANGED <<request, config, failure, output, log>>

\* The engine process fails, in itself or as the bridge reports it.
AssetScanThrows(r) == \E message \in ScanErrors : StoreFailedScan(r, message)

\* The pending record is stored.  A sandbox run has no engine client.
StoreInitialArtifacts(r) ==
    /\ pc[r] = "creating"
    /\ Save(r, InitialRecord)
    /\ IF request[r].type = "sandbox_run"
       THEN Answer(r, 201, InitialRecord.task)
       ELSE Goto(r, "dispatching") /\ UNCHANGED response
    /\ UNCHANGED <<request, config, failure, output, log>>

\* The hook runs outside of the client's try: its error is nobody's to handle.
HookThrows(r) ==
    /\ pc[r] = "dispatching"
    /\ "hook" \in Faults
    /\ AnswerInternalError(r)

SelectProvider(r) ==
    /\ pc[r] = "dispatching"
    /\ IF config.provider = "unsupported"
       THEN ClientFails(r, "provider_selection")
       ELSE /\ Emit(r, "provider_selected", "none")
            /\ Goto(r, "selected")
            /\ UNCHANGED <<request, config, failure, output, records, response>>

\* Mutant: one engine process at a time, and a scan waits for its turn.
StartScanInTurn(r) ==
    /\ pc[r] = "selected"
    /\ \A q \in Requests : pc[q] # "scanning"
    /\ Emit(r, "scan_started", "none")
    /\ Goto(r, "started")
    /\ UNCHANGED <<request, config, failure, output, records, response>>

StartScan(r) ==
    /\ pc[r] = "selected"
    /\ \/ SinkRejects(r)
       \/ /\ Emit(r, "scan_started", "none")
          /\ Goto(r, "started")
          /\ UNCHANGED <<request, config, failure, output, records, response>>

\* The mock answers at once; semgrep's timeout is resolved before it is run.
RunScan(r) ==
    /\ pc[r] = "started"
    /\ \/ SinkRejects(r)
       \/ config.provider = "mock" /\ ClientSucceeds(r, MockFindings)
       \/ /\ config.provider = "semgrep"
          /\ ~config.timeoutValid
          /\ ClientFails(r, "provider_selection")
       \/ /\ config.provider = "semgrep"
          /\ config.timeoutValid
          /\ Goto(r, "running")
          /\ UNCHANGED <<request, config, failure, output, records, log, response>>

(* Nothing to scan with or to scan, no binary, a bad exit, a timeout or an *)
(* output that is no JSON; else the output is mapped.                      *)
SemgrepReturns(r) ==
    /\ pc[r] = "running"
    /\ \/ ClientFails(r, "runner")
       \/ "mapper" \in Faults /\ ClientFails(r, "mapper")
       \/ \E findings \in Details : ClientSucceeds(r, findings)

\* Mutant: the finished record is stored inside of what the deriver's catch guards.
BackfillResultThenFails(r) ==
    /\ pc[r] = "succeeded"
    /\ NormalizerAccepts(output[r])
    /\ Save(r, CompletedStaticAnalysis(output[r]))
    /\ failure' = [failure EXCEPT ![r] = "deriver"]
    /\ Goto(r, "failing")
    /\ UNCHANGED <<request, config, output, log, response>>

\* Mutant: an error of the deriver is not caught.
BackfillResultUnguarded(r) ==
    /\ pc[r] = "succeeded"
    /\ NormalizerAccepts(output[r])
    /\ \/ "deriver" \in Faults /\ AnswerInternalError(r)
       \/ /\ Save(r, CompletedStaticAnalysis(output[r]))
          /\ Answer(r, 201, InitialRecord.task)
          /\ UNCHANGED <<request, config, failure, output, log>>

\* The client returns its receipt and the service normalizes and stores it.
BackfillResult(r) ==
    /\ pc[r] = "succeeded"
    /\ \/ SinkRejects(r)
       \/ /\ ~NormalizerAccepts(output[r])
          /\ HandleSkillsStaticFailure(r, "normalizer")
       \/ /\ NormalizerAccepts(output[r])
          /\ "deriver" \in Faults
          /\ HandleSkillsStaticFailure(r, "deriver")
       \/ /\ NormalizerAccepts(output[r])
          /\ Save(r, CompletedStaticAnalysis(output[r]))
          /\ Answer(r, 201, InitialRecord.task)
          /\ UNCHANGED <<request, config, failure, output, log>>

\* The failure has been logged: it is stored, unless the sink threw.
BackfillFailure(r) ==
    /\ pc[r] = "failing"
    /\ \/ "sink" \in Faults /\ AnswerInternalError(r)
       \/ /\ Save(r, FailedStaticAnalysis(failure[r]))
          /\ Answer(r, 201, InitialRecord.task)
          /\ UNCHANGED <<request, config, failure, output, log>>

ServiceStep(r) ==
    \/ StoreInitialArtifacts(r)
    \/ HookThrows(r)
    \/ SelectProvider(r)
    \/ StartScan(r)
    \/ RunScan(r)
    \/ BackfillResult(r)
    \/ BackfillFailure(r)

AllAnswered == \A r \in Requests : pc[r] = "done"

\* The server goes on listening when it has nothing to do.
Listening == AllAnswered /\ UNCHANGED vars

Next ==
    \/ \E r \in Requests :
        \/ RefuseRequest(r)
        \/ AcceptRequest(r)
        \/ AssetScanReturns(r)
        \/ AssetScanThrows(r)
        \/ SemgrepReturns(r)
        \/ ServiceStep(r)
    \/ Listening

Spec == Init /\ [][Next]_vars

(***************************************************************************)
(* Fairness.  The event loop runs every stretch that is ready to run, so   *)
(* each request's own steps are fair, those that wait for the log sink     *)
(* too; execFile kills semgrep when its timeout expires, so semgrep        *)
(* returns.  Nothing bounds the asset-scan engine process: that it exits   *)
(* is an assumption on the engine, kept apart.                             *)
(***************************************************************************)
ServiceFairness ==
    \A r \in Requests : WF_vars(ServiceStep(r)) /\ WF_vars(SemgrepReturns(r))

EngineFairness ==
    \A r \in Requests : WF_vars(AssetScanReturns(r) \/ AssetScanThrows(r))

FairSpec == Spec /\ ServiceFairness

---------------------------------------------------------------------------
(* Properties *)

TypeOK ==
    /\ pc \in [Requests -> Labels]
    /\ request \in [Requests -> NormalizedRequests \cup {NoRequest}]
    /\ config \in Configs
    /\ failure \in [Requests -> Phases \cup {"none"}]
    /\ output \in [Requests -> Findings]
    /\ records \in [Requests -> Records \cup {NoRecord}]
    /\ log \in [Requests -> Seq(Events)]
    /\ response \in [Requests -> Responses \cup {NoResponse}]

Stored(r) == records[r] # NoRecord
Status(r) == records[r].task.status
IsSettled(r) == Status(r) \in {"finished", "partial_success", "failed"}

(* Whichever of the three read routes serves a stored task, it tells the   *)
(* same story: task, result and risk summary carry one status, risk level  *)
(* and text, and the numbers of the summary are those of the findings in   *)
(* the result (createInitialArtifacts and the four create...Artifacts).    *)
Coherent(record) ==
    /\ record.result.shell = record.task
    /\ record.riskSummary.shell = record.task
    /\ record.riskSummary.derived = DeriveRiskSummary(record.result.findings)
    /\ record.task.risk_level = RiskLevelOf(record.result.findings)

ReadsAgree == \A r \in Requests : Stored(r) => Coherent(records[r])

(* What the answer to a POST says of the task it leaves behind (createTask *)
(* and its early returns).  201: an asset scan is answered with the task   *)
(* as stored, and settled; a static analysis with a pending task although  *)
(* the stored one is settled; a sandbox run stays pending.  500: a static  *)
(* analysis is left pending.  400: nothing is left.                        *)
AnswerAccountsForTask ==
    \A r \in Requests :
        /\ response[r].code = 201 =>
            /\ request[r].type = "asset_scan" => IsSettled(r) /\ response[r].body = records[r].task
            /\ request[r].type = "static_analysis" =>
                   IsSettled(r) /\ response[r].body = InitialRecord.task
            /\ request[r].type = "sandbox_run" => records[r] = InitialRecord
        /\ response[r].code = 500 =>
               request[r].type = "static_analysis" /\ Status(r) = "pending"
        /\ response[r].code = 400 => ~Stored(r)

(* No read ever finds an asset scan half made: while its engine runs it is *)
(* not in the store, and once there it is settled, its status telling      *)
(* whether it was interrupted, and a reason named by the request is the    *)
(* one stored (createTask, attachAssetScanExecutionContext,                *)
(* deriveAssetScanCompletionStatus).                                       *)
AssetScanStoredWhole ==
    \A r \in Requests : request[r].type = "asset_scan" /\ Stored(r) =>
        /\ IsSettled(r)
        /\ Status(r) # "failed" =>
               (Status(r) = "partial_success" <=> records[r].result.reason # "none")
        /\ request[r].reason # "none" => records[r].result.reason = request[r].reason

(* The diagnostic events of a static analysis explain its record: they are *)
(* provider_selected, scan_started, scan_succeeded, cut short by at most   *)
(* one scan_failed; a finished task has the full trail without a failure   *)
(* and a failed one the phase its summary names (the client's dispatch,    *)
(* handleSkillsStaticFailure).                                             *)
Trail == <<"provider_selected", "scan_started", "scan_succeeded">>

FailedEvents(r) == {i \in DOMAIN log[r] : log[r][i].event = "scan_failed"}

LogExplainsRecord ==
    \A r \in Requests :
        /\ FailedEvents(r) \subseteq {Len(log[r])}
        /\ \A i \in DOMAIN log[r] \ FailedEvents(r) : i \in 1..3 /\ log[r][i].event = Trail[i]
        /\ Stored(r) /\ Status(r) = "finished" /\ request[r].type = "static_analysis" =>
               Len(log[r]) = 3 /\ FailedEvents(r) = {}
        /\ Stored(r) /\ Status(r) = "failed" /\ request[r].type = "static_analysis" =>
               /\ FailedEvents(r) # {}
               /\ log[r][Len(log[r])].phase = records[r].task.summary

(* An accepted request is answered 500 only when the hook has thrown,      *)
(* before anything is logged, or the sink, on the event of a failure:      *)
(* every other failure of a static analysis is turned into a stored record *)
(* (the two catch clauses of createTask).                                  *)
NoInternalErrors ==
    \A r \in Requests : response[r].code = 500 =>
        /\ Faults \cap {"hook", "sink"} # {}
        /\ log[r] = <<>> \/ log[r][Len(log[r])].event = "scan_failed"

(* Nothing about a task changes once it is settled, nor once its POST is   *)
(* answered: there is no background work (createTask returns after its     *)
(* last save).                                                             *)
SettledIsFinal ==
    [][\A r \in Requests :
          IsSettled(r) \/ response[r] # NoResponse =>
              records'[r] = records[r] /\ response'[r] = response[r]]_vars

(* Every accepted request that is no asset scan is answered, even when     *)
(* asset scans hang: no request waits for another's engine (await points   *)
(* of createTask).  Holds under ServiceFairness alone.                     *)
OtherRequestsAreAnswered ==
    \A r \in Requests :
        request[r].type \in {"static_analysis", "sandbox_run"} ~> pc[r] = "done"

(* If the asset-scan engine process always exits, every accepted request   *)
(* is answered, and every task but a sandbox run or one abandoned with a   *)
(* 500 is settled by then.                                                 *)
EveryRequestIsAnswered ==
    EngineFairness =>
        \A r \in Requests :
            request[r] # NoRequest ~>
                /\ response[r] # NoResponse
                /\ IsSettled(r) \/ request[r].type = "sandbox_run" \/ response[r].code = 500

---------------------------------------------------------------------------
(* What a document says and the code does not do: it is violated.          *)

(* docs/api-contract.md:70, pending: "the task is created and has not      *)
(* started to execute".  A static analysis stays pending while its scan    *)
(* runs, until it is settled: "running" is never stored.                   *)
PendingMeansNotStarted ==
    \A r \in Requests : Status(r) = "pending" => Started \notin {log[r][i] : i \in DOMAIN log[r]}

---------------------------------------------------------------------------
(* Why the properties hold: where a request is suspended determines what   *)
(* has been stored, logged and answered for it.                            *)

\* The trails that end in a failure of the given phase.
FailedTrails(phase) ==
    LET failed == Event("scan_failed", phase)
    IN  { <<failed>>, <<Selected, failed>>, <<Selected, Started, failed>>,
          <<Selected, Started, Succeeded, failed>> }

Untouched(r) == records[r] = NoRecord /\ response[r] = NoResponse /\ log[r] = <<>>

InClient(r) ==
    pc[r] \in {"dispatching", "selected", "started", "running", "succeeded", "failing"}

\* An accepted request that is suspended somewhere in createTask.
InProgress(r) ==
    /\ pc[r] = "idle" => request[r] = NoRequest /\ Untouched(r)
    /\ pc[r] = "scanning" => request[r].type = "asset_scan" /\ Untouched(r)
    /\ pc[r] = "creating" =>
           request[r].type \in {"static_analysis", "sandbox_run"} /\ Untouched(r)
    /\ InClient(r) =>
           /\ request[r].type = "static_analysis"
           /\ records[r] = InitialRecord
           /\ response[r] = NoResponse
    /\ pc[r] = "dispatching" => log[r] = <<>>
    /\ pc[r] = "selected" => log[r] = <<Selected>>
    /\ pc[r] \in {"started", "running"} => log[r] = <<Selected, Started>>
    /\ pc[r] = "succeeded" => log[r] = <<Selected, Started, Succeeded>>
    /\ pc[r] = "failing" => failure[r] \in Phases /\ log[r] \in FailedTrails(failure[r])

\* The outcomes a request can have been answered with.
RefusedOutcome(r) ==
    response[r].code = 400 /\ request[r] = NoRequest /\ records[r] = NoRecord /\ log[r] = <<>>

SandboxOutcome(r) ==
    /\ request[r].type = "sandbox_run"
    /\ response[r].code = 201
    /\ records[r] = InitialRecord
    /\ log[r] = <<>>

AssetScanOutcome(r) ==
    LET reason == records[r].result.reason
    IN  /\ request[r].type = "asset_scan"
        /\ response[r] = [code |-> 201, body |-> records[r].task]
        /\ records[r] \in Records
        /\ Coherent(records[r])
        /\ Status(r) \in {IF reason = "none" THEN "finished" ELSE "partial_success", "failed"}
        /\ request[r].reason # "none" => reason = request[r].reason
        /\ log[r] = <<>>

StaticOutcome(r) ==
    /\ request[r].type = "static_analysis"
    /\ \/ /\ response[r].code = 500
          /\ records[r] = InitialRecord
          /\ Faults \cap {"hook", "sink"} # {}
          /\ log[r] \in {<<>>} \cup UNION {FailedTrails(phase) : phase \in Phases}
       \/ /\ response[r] = [code |-> 201, body |-> InitialRecord.task]
          /\ records[r] \in Records
          /\ Coherent(records[r])
          /\ \/ Status(r) = "finished" /\ log[r] = <<Selected, Started, Succeeded>>
             \/ /\ Status(r) = "failed"
                /\ records[r].task.summary \in Phases
                /\ log[r] \in FailedTrails(records[r].task.summary)

(* The inductive invariant: a request is in progress, with what its pc     *)
(* allows, or answered, with one of the outcomes of createTask.            *)
Consistent(r) ==
    /\ InProgress(r)
    /\ pc[r] = "done" =>
           RefusedOutcome(r) \/ SandboxOutcome(r) \/ AssetScanOutcome(r) \/ StaticOutcome(r)

IInv == TypeOK /\ \A r \in Requests : Consistent(r)

---------------------------------------------------------------------------
(* The task center implements the abstract task lifecycle.                 *)

AnswerKind(code) ==
    CASE code = 0 -> "none"
      [] code = 201 -> "created"
      [] code = 400 -> "invalid"
      [] code = 500 -> "error"

statusBar == [r \in Requests |-> records[r].task.status]
answerBar == [r \in Requests |-> AnswerKind(response[r].code)]

Lifecycle == INSTANCE TaskLifecycle WITH status <- statusBar, answer <- answerBar

(* Every step of the task center is a step of TaskLifecycle, or none: a    *)
(* client that reads at any moment sees a task appear once, settle at most *)
(* once, and stay as it was when its POST was answered.                    *)
ImplementsLifecycle == Lifecycle!LifecycleSpec

===========================================================================
