------------------------- MODULE AssetScanRunProofs -------------------------
(***************************************************************************)
(* Proofs about AssetScanRun, for any set of requests.  Its inductive      *)
(* invariant is that of TaskCenter and RunInv together: that the engine of *)
(* TaskCenter may answer what the child has printed rests on RunInv, and   *)
(* RunInv rests on where TaskCenter says a request is suspended.           *)
(***************************************************************************)
EXTENDS AssetScanRun, TaskCenterProofs

---------------------------------------------------------------------------
(* What the two processes compute *)

(* A result of the runtime is reported with findings the engine may have   *)
(* and a reason the contract knows.                                        *)
LEMMA DetailsType ==
    ASSUME NEW requested \in InterruptionReasons, NEW result \in RuntimeResults
    PROVE  /\ DetailsOf(requested, result) \in Reports
           /\ DetailsOf(requested, result).findings = result.findings
BY DEF DetailsOf, ResolvedReason, Reports, RuntimeResults

\* Both kinds of result are results of the runtime.
LEMMA ResultTypes ==
    /\ \A findings \in Details : FinishedResult(findings) \in RuntimeResults
    /\ \A words \in SUBSET Words :
           /\ FailedResult(words) \in RuntimeResults
           /\ FailedResult(words).reason \in Words \cup {"none"}
<1>1. Details \subseteq Findings /\ NoFindings \in Findings
  BY DetailsAssumption, NothingDerivedFromNoFindings
<1>2. \A words \in SUBSET Words : ReasonFromError(words) \in Words \cup {"none"}
  BY DEF ReasonFromError, Words
<1>3. QED
  BY <1>1, <1>2 DEF FinishedResult, FailedResult, RuntimeResults, InterruptionReasons, Words

\* The text of a rejected promise is one of those TaskCenter knows.
LEMMA MessageType ==
    ASSUME NEW words \in SUBSET Words
    PROVE  MessageOf(words) \in ScanErrors
BY DEF MessageOf, ScanErrors

---------------------------------------------------------------------------
(* One step of one child *)

\* The part of RunTypeOK that is not TaskCenter's.
EngineTypeOK ==
    /\ engine \in [Requests -> {"none", "running", "reported", "exited", "crashed"}]
    /\ runtime \in [Requests -> RuntimeResults \cup {NoRuntimeResult}]
    /\ stdout \in [Requests -> Reports]
    /\ stderr \in [Requests -> SUBSET Words]

\* What a step of r's child, or of its client, leaves alone.
OtherRunsUnchanged(r) ==
    \A q \in Requests \ {r} :
        /\ pc'[q] = pc[q]
        /\ request'[q] = request[q]
        /\ records'[q] = records[q]
        /\ engine'[q] = engine[q]
        /\ runtime'[q] = runtime[q]
        /\ stdout'[q] = stdout[q]
        /\ stderr'[q] = stderr[q]

\* A run that a step leaves alone stays consistent.
LEMMA RunFramed ==
    ASSUME NEW r \in Requests, NEW q \in Requests \ {r},
           OtherRunsUnchanged(r), RunConsistent(q)
    PROVE  RunConsistent(q)'
BY DEF OtherRunsUnchanged, RunConsistent, StoredScan, Stored

\* A scan that waits for its child: what TaskCenter's invariant says of it.
LEMMA WhileScanning ==
    ASSUME IInv, NEW r \in Requests, pc[r] = "scanning"
    PROVE  /\ request[r].type = "asset_scan"
           /\ request[r] \in NormalizedRequests
           /\ request[r].reason \in InterruptionReasons
           /\ records[r] = NoRecord
<1>1. Consistent(r) /\ TypeOK
  BY DEF IInv
<1>2. request[r].type = "asset_scan" /\ records[r] = NoRecord
  BY <1>1 DEF Consistent, InProgress, Untouched
<1>3. request[r] \in NormalizedRequests
  BY <1>1, <1>2 DEF TypeOK, NoRequest
<1>4. QED
  BY <1>2, <1>3 DEF NormalizedRequests

\* What every step of one run establishes.
RunStep(r) ==
    /\ [Next]_vars
    /\ EngineTypeOK'
    /\ OtherRunsUnchanged(r)
    /\ RunConsistent(r)'

\* The child is spawned when its request is accepted, with nothing printed yet.
LEMMA SpawnEngineStep ==
    ASSUME IInv, RunInv, NEW r \in Requests, SpawnEngine(r)
    PROVE  RunStep(r)
<1>1. AcceptRequest(r) /\ TypeOK /\ Consistent(r) /\ RunConsistent(r) /\ EngineTypeOK
  BY DEF SpawnEngine, IInv, RunInv, RunTypeOK, EngineTypeOK
<1>2. Next
  BY <1>1 DEF Next
<1>3. /\ pc[r] = "idle" /\ request[r] = NoRequest /\ records[r] = NoRecord
  BY <1>1 DEF AcceptRequest, Consistent, InProgress, Untouched
<1>4. /\ engine[r] = "none" /\ runtime[r] = NoRuntimeResult
  BY <1>1, <1>3 DEF RunConsistent, NoRequest
<1>5. /\ records' = records
      /\ OthersUnchanged(r)
      /\ pc'[r] = IF request'[r].type = "asset_scan" THEN "scanning" ELSE "creating"
  <2>1. PICK type \in TaskTypes, raw \in RawReasons :
          /\ request' = [request EXCEPT ![r] =
                 [ type |-> type,
                   reason |-> IF type = "asset_scan" THEN NormalizedReason(raw) ELSE "none" ]]
          /\ pc' = [pc EXCEPT ![r] = IF type = "asset_scan" THEN "scanning" ELSE "creating"]
    BY <1>1 DEF AcceptRequest, Goto
  <2>2. request'[r].type = type
    BY <1>1, <2>1 DEF TypeOK
  <2>3. OthersUnchanged(r)
    BY <1>1, <2>1 DEF TypeOK, OthersUnchanged, AcceptRequest
  <2>4. QED
    BY <1>1, <2>1, <2>2, <2>3 DEF TypeOK, AcceptRequest
<1>6. /\ engine' = [engine EXCEPT ![r] =
             IF request'[r].type = "asset_scan" THEN "running" ELSE "none"]
      /\ UNCHANGED <<runtime, stdout, stderr>>
  BY DEF SpawnEngine
<1>7. EngineTypeOK' /\ OtherRunsUnchanged(r)
  BY <1>1, <1>5, <1>6 DEF EngineTypeOK, OtherRunsUnchanged, OthersUnchanged
<1>8. RunConsistent(r)'
  <2>1. engine'[r] = IF request'[r].type = "asset_scan" THEN "running" ELSE "none"
    BY <1>1, <1>6 DEF EngineTypeOK
  <2>2. ~StoredScan(r)'
    BY <1>3, <1>5 DEF StoredScan, Stored
  <2>3. QED
    BY <1>1, <1>4, <1>5, <1>6, <2>1, <2>2 DEF RunConsistent, NoRuntimeResult, Words
<1>9. QED
  BY <1>2, <1>7, <1>8 DEF RunStep

\* The bridge prints what the runtime returned: the task center sees nothing of it.
LEMMA ReportStep ==
    ASSUME IInv, RunInv, NEW r \in Requests,
           NEW result \in RuntimeResults, Report(r, result),
           result.findings \in Details \cup {NoFindings},
           result.status = "failed" => result.reason \in Words \cup {"none"},
           result.status = "finished" => result.reason = "absent",
           stderr' \in [Requests -> SUBSET Words],
           \A q \in Requests \ {r} : stderr'[q] = stderr[q]
    PROVE  RunStep(r)
<1>1. TypeOK /\ RunConsistent(r) /\ EngineTypeOK
  BY DEF RunInv, RunTypeOK, EngineTypeOK
<1>2. /\ engine[r] = "running"
      /\ runtime' = [runtime EXCEPT ![r] = result]
      /\ stdout' = [stdout EXCEPT ![r] = DetailsOf(request[r].reason, result)]
      /\ engine' = [engine EXCEPT ![r] = "reported"]
      /\ UNCHANGED vars
  BY DEF Report
<1>3. pc[r] = "scanning"
  BY <1>1, <1>2 DEF RunConsistent
<1>4. /\ request[r].type = "asset_scan" /\ request[r].reason \in InterruptionReasons
      /\ records[r] = NoRecord
  BY <1>3, WhileScanning
<1>5. /\ DetailsOf(request[r].reason, result) \in Reports
      /\ DetailsOf(request[r].reason, result).findings = result.findings
  BY <1>4, DetailsType
<1>6. EngineTypeOK'
  BY <1>1, <1>2, <1>5 DEF EngineTypeOK
<1>7. OtherRunsUnchanged(r)
  BY <1>1, <1>2 DEF EngineTypeOK, OtherRunsUnchanged, vars
<1>8. RunConsistent(r)'
  <2>1. /\ engine'[r] = "reported" /\ runtime'[r] = result
        /\ stdout'[r] = DetailsOf(request[r].reason, result)
        /\ request'[r] = request[r] /\ pc'[r] = "scanning" /\ records'[r] = NoRecord
    BY <1>1, <1>2, <1>3, <1>4 DEF EngineTypeOK, vars
  <2>2. result # NoRuntimeResult
    BY DEF RuntimeResults, NoRuntimeResult
  <2>3. ~StoredScan(r)'
    BY <2>1 DEF StoredScan, Stored
  <2>4. QED
    BY <1>4, <1>5, <2>1, <2>2, <2>3 DEF RunConsistent
<1>9. QED
  BY <1>2, <1>6, <1>7, <1>8 DEF RunStep

\* A child that ends leaves its printed line as it is.
LEMMA EngineEndsStep ==
    ASSUME IInv, RunInv, NEW r \in Requests, EngineEnds(r)
    PROVE  RunStep(r)
<1>1. TypeOK /\ RunConsistent(r) /\ EngineTypeOK
  BY DEF RunInv, RunTypeOK, EngineTypeOK
<1>2. /\ engine[r] \in {"running", "reported"}
      /\ UNCHANGED <<runtime, stdout>>
      /\ UNCHANGED vars
  BY DEF EngineEnds, EngineDies, EngineExits
<1>3. \/ /\ engine' = [engine EXCEPT ![r] = "crashed"]
         /\ \E words \in SUBSET Words : stderr' = [stderr EXCEPT ![r] = @ \cup words]
      \/ /\ engine[r] = "reported"
         /\ engine' = [engine EXCEPT ![r] = "exited"]
         /\ stderr' = stderr
  BY DEF EngineEnds, EngineDies, EngineExits
<1>4. pc[r] = "scanning"
  BY <1>1, <1>2 DEF RunConsistent
<1>5. request[r].type = "asset_scan" /\ records[r] = NoRecord
  BY <1>4, WhileScanning
<1>6. EngineTypeOK'
  BY <1>1, <1>2, <1>3 DEF EngineTypeOK
<1>7. OtherRunsUnchanged(r)
  BY <1>1, <1>2, <1>3 DEF EngineTypeOK, OtherRunsUnchanged, vars
<1>8. RunConsistent(r)'
  <2>1. /\ \/ engine'[r] = "crashed"
           \/ engine'[r] = "exited" /\ engine[r] = "reported"
        /\ runtime'[r] = runtime[r] /\ stdout'[r] = stdout[r]
        /\ request'[r] = request[r] /\ pc'[r] = "scanning" /\ records'[r] = NoRecord
    BY <1>1, <1>2, <1>3, <1>4, <1>5 DEF EngineTypeOK, vars
  <2>2. ~StoredScan(r)'
    BY <2>1 DEF StoredScan, Stored
  <2>3. QED
    BY <1>1, <1>5, <2>1, <2>2 DEF RunConsistent
<1>9. QED
  BY <1>2, <1>6, <1>7, <1>8 DEF RunStep

(* The client stores what it makes of the child's end: one of the engines' *)
(* answers, or failures, that TaskCenter allows for.                       *)
LEMMA ClientSettlesStep ==
    ASSUME IInv, RunInv, NEW r \in Requests, ClientSettles(r)
    PROVE  RunStep(r)
<1>1. TypeOK /\ RunConsistent(r) /\ EngineTypeOK
  BY DEF RunInv, RunTypeOK, EngineTypeOK
<1> DEFINE completed ==
              CompletedAssetScan(stdout[r].findings,
                  MergedReason(request[r].reason, stdout[r].reason))
           failed ==
              FailedAssetScan(FailureReason(request[r].reason, MessageOf(stderr[r])))
<1>2. /\ pc[r] = "scanning"
      /\ pc' = [pc EXCEPT ![r] = "done"]
      /\ UNCHANGED <<request, engineVars>>
      /\ \/ engine[r] = "exited" /\ records' = [records EXCEPT ![r] = completed]
         \/ engine[r] = "crashed" /\ records' = [records EXCEPT ![r] = failed]
  BY DEF ClientSettles, ClientResolves, ClientRejects, StoreCompletedScan, StoreFailedScan,
         Save, Answer, Goto
<1>3. AssetScanReturns(r) \/ AssetScanThrows(r)
  <2>1. CASE ClientResolves(r)
    <3>1. /\ stdout[r].findings \in Details \cup {NoFindings}
          /\ stdout[r].reason \in RawReasons
      BY <1>1 DEF RunConsistent, EngineTypeOK, Reports, RawReasons
    <3>2. QED
      BY <2>1, <3>1 DEF ClientResolves, AssetScanReturns
  <2>2. CASE ClientRejects(r)
    <3>1. MessageOf(stderr[r]) \in ScanErrors
      BY <1>1, MessageType DEF EngineTypeOK
    <3>2. QED
      BY <2>2, <3>1 DEF ClientRejects, AssetScanThrows
  <2>3. QED
    BY <2>1, <2>2 DEF ClientSettles
<1>4. Next
  BY <1>3 DEF Next
<1>5. EngineTypeOK'
  BY <1>1, <1>2 DEF EngineTypeOK, engineVars
<1>6. OtherRunsUnchanged(r)
  BY <1>1, <1>2 DEF TypeOK, OtherRunsUnchanged, engineVars
<1>7. RunConsistent(r)'
  <2>1. request[r].type = "asset_scan"
    BY <1>2, WhileScanning
  <2>2. /\ pc'[r] = "done" /\ request'[r] = request[r] /\ engine'[r] = engine[r]
        /\ runtime'[r] = runtime[r] /\ stdout'[r] = stdout[r] /\ stderr'[r] = stderr[r]
        /\ records'[r] = IF engine[r] = "exited" THEN completed ELSE failed
    BY <1>1, <1>2 DEF TypeOK, engineVars
  <2> HIDE DEF completed, failed
  <2>3. StoredScan(r)' =>
            records'[r] = IF engine'[r] = "exited"
               THEN CompletedAssetScan(stdout'[r].findings,
                        MergedReason(request'[r].reason, stdout'[r].reason))
               ELSE FailedAssetScan(FailureReason(request'[r].reason, MessageOf(stderr'[r])))
    BY <2>2, Zenon DEF completed, failed
  <2>4. engine[r] \in {"exited", "crashed"}
    BY <1>2
  <2>5. QED
    BY <1>1, <2>1, <2>2, <2>3, <2>4 DEF RunConsistent
<1>8. QED
  BY <1>4, <1>5, <1>6, <1>7 DEF RunStep

\* The other steps of the task center touch no asset scan.
LEMMA OtherStepStep ==
    ASSUME IInv, RunInv, NEW r \in Requests, OtherStep(r)
    PROVE  RunStep(r)
<1>1. TypeOK /\ Consistent(r) /\ RunConsistent(r) /\ EngineTypeOK
  BY DEF IInv, RunInv, RunTypeOK, EngineTypeOK
<1>2. Next
  BY DEF OtherStep, Next
<1>3. OthersUnchanged(r)
  BY <1>1, RefuseRequestStep, SemgrepReturnsStep, StoreInitialArtifactsStep, HookThrowsStep,
     SelectProviderStep, StartScanStep, RunScanStep, BackfillResultStep, BackfillFailureStep
     DEF OtherStep, ServiceStep
<1>4. UNCHANGED request /\ UNCHANGED engineVars
  BY DEF OtherStep, RefuseRequest, SemgrepReturns, ServiceStep, StoreInitialArtifacts,
         HookThrows, SelectProvider, StartScan, RunScan, BackfillResult, BackfillFailure,
         SinkRejects, ClientFails, ClientSucceeds, HandleSkillsStaticFailure,
         AnswerInternalError
<1>5. pc[r] \in {"idle", "creating"} \/ InClient(r)
  BY DEF OtherStep, RefuseRequest, SemgrepReturns, ServiceStep, StoreInitialArtifacts,
         HookThrows, SelectProvider, StartScan, RunScan, BackfillResult, BackfillFailure,
         InClient
<1>6. request[r].type # "asset_scan"
  BY <1>1, <1>5 DEF Consistent, InProgress, NoRequest
<1>7. pc'[r] # "scanning"
  <2>1. pc' \in [Requests -> Labels]
            /\ (Consistent(r)' /\ request'[r] = request[r])
    BY <1>1, <1>4, RefuseRequestStep, SemgrepReturnsStep, StoreInitialArtifactsStep,
       HookThrowsStep, SelectProviderStep, StartScanStep, RunScanStep, BackfillResultStep,
       BackfillFailureStep
       DEF OtherStep, ServiceStep, TypeOK
  <2>2. QED
    BY <1>6, <2>1 DEF Consistent, InProgress
<1>8. EngineTypeOK' /\ OtherRunsUnchanged(r)
  BY <1>1, <1>3, <1>4 DEF EngineTypeOK, OtherRunsUnchanged, OthersUnchanged, engineVars
<1>9. RunConsistent(r)'
  BY <1>1, <1>4, <1>6, <1>7 DEF RunConsistent, StoredScan, engineVars
<1>10. QED
  BY <1>2, <1>8, <1>9 DEF RunStep

---------------------------------------------------------------------------
(* The inductive invariant, and what follows from it *)

\* Every step is TaskCenter's or none, and a step of one run or of nobody.
LEMMA StepOfOneRun ==
    ASSUME IInv, RunInv, RunNext
    PROVE  UNCHANGED runVars \/ \E r \in Requests : RunStep(r)
<1>1. CASE Listening /\ UNCHANGED engineVars
  BY <1>1 DEF Listening, runVars
<1>2. CASE \E r \in Requests : SpawnEngine(r)
  BY <1>2, SpawnEngineStep
<1>3. CASE \E r \in Requests : PipelineReturns(r)
  <2>1. PICK r \in Requests, findings \in Details :
            Report(r, FinishedResult(findings)) /\ UNCHANGED stderr
    BY <1>3 DEF PipelineReturns
  <2>2. FinishedResult(findings) \in RuntimeResults
    BY ResultTypes
  <2>3. stderr' \in [Requests -> SUBSET Words]
    BY <2>1 DEF RunInv, RunTypeOK
  <2>4. RunStep(r)
    BY <2>1, <2>2, <2>3, ReportStep DEF FinishedResult
  <2>5. QED
    BY <2>4
<1>4. CASE \E r \in Requests : PipelineThrows(r)
  <2>1. PICK r \in Requests, words \in SUBSET Words :
            /\ Report(r, FailedResult(words))
            /\ stderr' = [stderr EXCEPT ![r] = @ \cup words]
    BY <1>4 DEF PipelineThrows
  <2>2. /\ FailedResult(words) \in RuntimeResults
        /\ FailedResult(words).reason \in Words \cup {"none"}
    BY <2>1, ResultTypes
  <2>3. /\ stderr' \in [Requests -> SUBSET Words]
        /\ \A q \in Requests \ {r} : stderr'[q] = stderr[q]
    BY <2>1 DEF RunInv, RunTypeOK
  <2>4. RunStep(r)
    BY <2>1, <2>2, <2>3, ReportStep DEF FailedResult
  <2>5. QED
    BY <2>4
<1>5. CASE \E r \in Requests : EngineEnds(r)
  BY <1>5, EngineEndsStep
<1>6. CASE \E r \in Requests : ClientSettles(r)
  BY <1>6, ClientSettlesStep
<1>7. CASE \E r \in Requests : OtherStep(r)
  BY <1>7, OtherStepStep
<1>8. QED
  BY <1>1, <1>2, <1>3, <1>4, <1>5, <1>6, <1>7 DEF RunNext

\* Before anything has arrived there is no child.
LEMMA RunInitEstablishes == RunInit => IInv /\ RunInv
<1> SUFFICES ASSUME RunInit PROVE IInv /\ RunInv
  OBVIOUS
<1>1. IInv /\ TypeOK
  BY InitEstablishes DEF RunInit, IInv
<1>2. NoFindings \in Findings
  BY NothingDerivedFromNoFindings
<1>3. RunTypeOK
  BY <1>1, <1>2 DEF RunInit, RunTypeOK, Reports, NoReport, InterruptionReasons
<1>4. ASSUME NEW r \in Requests PROVE RunConsistent(r)
  <2>1. /\ engine[r] = "none" /\ runtime[r] = NoRuntimeResult /\ stdout[r] = NoReport
        /\ pc[r] = "idle" /\ request[r] = NoRequest /\ records[r] = NoRecord
    BY DEF RunInit, Init
  <2>2. QED
    BY <2>1 DEF RunConsistent, StoredScan, Stored, NoRequest, NoReport, NoRuntimeResult
<1>5. QED
  BY <1>1, <1>3, <1>4 DEF RunInv

\* Every step keeps both invariants, and is a step of TaskCenter or none.
LEMMA RunNextKeeps ==
    IInv /\ RunInv /\ [RunNext]_runVars => [Next]_vars /\ IInv' /\ RunInv'
<1> SUFFICES ASSUME IInv, RunInv, [RunNext]_runVars
             PROVE  [Next]_vars /\ IInv' /\ RunInv'
  OBVIOUS
<1>1. CASE UNCHANGED runVars
  <2>1. UNCHANGED vars /\ UNCHANGED engineVars
    BY <1>1 DEF runVars
  <2>2. IInv'
    BY <2>1, StutterKeeps
  <2>3. RunInv'
    BY <2>1, <2>2 DEF IInv, RunInv, RunTypeOK, RunConsistent, StoredScan, Stored, vars,
                      engineVars
  <2>4. QED
    BY <2>1, <2>2, <2>3
<1>2. ASSUME NEW r \in Requests, RunStep(r)
      PROVE  [Next]_vars /\ IInv' /\ RunInv'
  <2>1. [Next]_vars /\ EngineTypeOK' /\ OtherRunsUnchanged(r) /\ RunConsistent(r)'
    BY <1>2 DEF RunStep
  <2>2. IInv'
    BY <2>1, NextKeeps
  <2>3. ASSUME NEW q \in Requests PROVE RunConsistent(q)'
    <3>1. CASE q = r
      BY <2>1, <3>1
    <3>2. CASE q \in Requests \ {r}
      BY <2>1, <3>2, RunFramed DEF RunInv
    <3>3. QED
      BY <3>1, <3>2
  <2>4. RunTypeOK'
    BY <2>1, <2>2 DEF IInv, RunTypeOK, EngineTypeOK
  <2>5. QED
    BY <2>1, <2>2, <2>3, <2>4 DEF RunInv
<1>3. QED
  BY <1>1, <1>2, StepOfOneRun

(* What a child has done always determines what its outputs hold and what  *)
(* is made of them.                                                        *)
THEOREM RunInductive == RunSpec => [](IInv /\ RunInv)
BY RunInitEstablishes, RunNextKeeps, PTL DEF RunSpec

(* The child process, the bridge and the client are one of the engines     *)
(* TaskCenter allows for: every theorem about Spec holds of them.          *)
THEOREM RunImplementsTaskCenter == RunSpec => ImplementsTaskCenter
<1>1. RunInit => Init
  BY DEF RunInit
<1>2. QED
  BY <1>1, RunInductive, RunNextKeeps, PTL DEF RunSpec, Spec, ImplementsTaskCenter

(* The record of a scan always tells how its child ended, and never keeps  *)
(* a line that was printed by a child that died.                           *)
THEOREM RecordAlwaysTellsExit == RunSpec => []RecordTellsExit
<1>1. IInv /\ RunInv => RecordTellsExit
  <2> SUFFICES ASSUME IInv, RunInv, NEW r \in Requests, StoredScan(r)
               PROVE  /\ engine[r] \in {"exited", "crashed"}
                      /\ Status(r) = "failed" <=> engine[r] = "crashed"
                      /\ records[r].result.findings =
                             IF engine[r] = "crashed" THEN NoFindings ELSE runtime[r].findings
    BY DEF RecordTellsExit
  <2>1. RunConsistent(r) /\ RunTypeOK
    BY DEF RunInv
  <2>2. pc[r] # "scanning"
    BY WhileScanning DEF StoredScan, Stored
  <2>3. engine[r] \in {"exited", "crashed"}
    BY <2>1, <2>2 DEF RunConsistent, RunTypeOK, StoredScan
  <2>4. CASE engine[r] = "exited"
    <3>1. records[r] = CompletedAssetScan(stdout[r].findings,
                           MergedReason(request[r].reason, stdout[r].reason))
      BY <2>1, <2>4 DEF RunConsistent
    <3>2. stdout[r].findings = runtime[r].findings
      BY <2>1, <2>4 DEF RunConsistent, DetailsOf
    <3>3. Status(r) # "failed" /\ records[r].result.findings = stdout[r].findings
      BY <3>1 DEF CompletedAssetScan, RecordOf, Shell, Status
    <3>4. QED
      BY <2>4, <3>2, <3>3
  <2>5. CASE engine[r] = "crashed"
    <3>1. records[r] = FailedAssetScan(FailureReason(request[r].reason, MessageOf(stderr[r])))
      BY <2>1, <2>5 DEF RunConsistent
    <3>2. Status(r) = "failed" /\ records[r].result.findings = NoFindings
      BY <3>1 DEF FailedAssetScan, RecordOf, Shell, Status
    <3>3. QED
      BY <2>5, <3>2
  <2>6. QED
    BY <2>3, <2>4, <2>5
<1>2. QED
  BY <1>1, RunInductive, PTL

(* A reason the runtime read from an error always survives both merges.    *)
THEOREM EngineReasonAlwaysSurvives == RunSpec => []EngineReasonSurvives
<1>1. IInv /\ RunInv => EngineReasonSurvives
  <2> SUFFICES ASSUME IInv, RunInv, NEW r \in Requests, StoredScan(r),
                      engine[r] = "exited", runtime[r].reason \in Words
               PROVE  /\ Status(r) = "partial_success"
                      /\ request[r].reason = "none" =>
                             records[r].result.reason = runtime[r].reason
    BY DEF EngineReasonSurvives
  <2> DEFINE reason == MergedReason(request[r].reason, stdout[r].reason)
  <2>1. /\ records[r] = CompletedAssetScan(stdout[r].findings, reason)
        /\ stdout[r] = DetailsOf(request[r].reason, runtime[r])
    BY DEF RunInv, RunConsistent
  <2>2. stdout[r].reason = ResolvedReason(request[r].reason, runtime[r].reason)
    BY <2>1 DEF DetailsOf
  <2>3. /\ reason # "none"
        /\ request[r].reason = "none" => reason = runtime[r].reason
    BY <2>2 DEF MergedReason, ResolvedReason, NormalizedReason, InterruptionReasons, Words
  <2> HIDE DEF reason
  <2>4. Status(r) = "partial_success" /\ records[r].result.reason = reason
    BY <2>1, <2>3 DEF CompletedAssetScan, RecordOf, Shell, Status
  <2>5. QED
    BY <2>3, <2>4
<1>2. QED
  BY <1>1, RunInductive, PTL

===========================================================================
