--------------------------- MODULE AssetScanRun ---------------------------
(***************************************************************************)
(* The task center with the process an asset scan runs in.                 *)
(*                                                                         *)
(* TaskCenter lets the engine answer with any details or fail in any way.  *)
(* Here the engine is the child that ProcessAssetScanEngineClient spawns:  *)
(* the bridge reads the task, runs the pipeline, prints one line of JSON   *)
(* and exits.  Every step of the task center but those that end a scan is  *)
(* as it was, so scans interleave with each other and with the rest.       *)
(*                                                                         *)
(* The client trusts nothing but the exit code: it keeps the two outputs   *)
(* until the child has closed them and reads the one or the other.         *)
(***************************************************************************)
EXTENDS TaskCenter

VARIABLES
    engine,     \* the child of each request
    runtime,    \* what runAssetScanTask returned in it
    stdout,     \* the line the bridge printed
    stderr      \* the telling words in what it wrote as errors

engineVars == <<engine, runtime, stdout, stderr>>
runVars == <<vars, engineVars>>

---------------------------------------------------------------------------
(* The engine's result *)

\* The words of an error's text that a reason is read from.
Words == {"timeout", "budget"}

\* deriveInterruptionReasonFromError: "timeout" is looked for first.
ReasonFromError(words) ==
    IF "timeout" \in words THEN "timeout"
    ELSE IF "budget" \in words THEN "budget"
    ELSE "none"

\* The reason is "absent" where the pipeline gives no execution context.
RuntimeResults ==
    [ status : {"finished", "failed"}, findings : Findings,
      reason : InterruptionReasons \cup {"absent"} ]

NoRuntimeResult == [status |-> "none", findings |-> NoFindings, reason |-> "absent"]

\* The pipeline itself never sets an interruption reason.
FinishedResult(findings) ==
    [status |-> "finished", findings |-> findings, reason |-> "absent"]

FailedResult(words) ==
    [status |-> "failed", findings |-> NoFindings, reason |-> ReasonFromError(words)]

\* Mutant: the request's reason wins even when it is only the default.
ResolvedReasonOfRequest(requested, reason) == requested

\* resolveInterruptionReason of the bridge.
ResolvedReason(requested, reason) ==
    IF requested # "none" THEN requested
    ELSE IF reason \in InterruptionReasons THEN reason
    ELSE requested

Reports == [findings : Findings, reason : InterruptionReasons]
NoReport == [findings |-> NoFindings, reason |-> "none"]

\* The details the bridge prints: the status of the result is not among them.
DetailsOf(requested, result) ==
    [ findings |-> result.findings,
      reason |-> ResolvedReason(requested, result.reason) ]

\* deriveAssetScanInterruptionReason reads the same words in the same order.
MessageOf(words) ==
    IF "timeout" \in words THEN "timeout"
    ELSE IF "budget" \in words THEN "budget"
    ELSE "other"

---------------------------------------------------------------------------
(* The actions of the child *)

RunInit ==
    /\ Init
    /\ engine = [r \in Requests |-> "none"]
    /\ runtime = [r \in Requests |-> NoRuntimeResult]
    /\ stdout = [r \in Requests |-> NoReport]
    /\ stderr = [r \in Requests |-> {}]

\* The adapter of an accepted asset scan spawns its child.
SpawnEngine(r) ==
    /\ AcceptRequest(r)
    /\ engine' = [engine EXCEPT
           ![r] = IF request'[r].type = "asset_scan" THEN "running" ELSE "none"]
    /\ UNCHANGED <<runtime, stdout, stderr>>

\* The bridge prints the details of a result and comes to its end.
Report(r, result) ==
    /\ engine[r] = "running"
    /\ runtime' = [runtime EXCEPT ![r] = result]
    /\ stdout' = [stdout EXCEPT ![r] = DetailsOf(request[r].reason, result)]
    /\ engine' = [engine EXCEPT ![r] = "reported"]
    /\ UNCHANGED vars

PipelineReturns(r) ==
    /\ \E findings \in Details : Report(r, FinishedResult(findings))
    /\ UNCHANGED stderr

\* Whatever the pipeline throws is logged and made a result of its own.
PipelineThrows(r) ==
    \E words \in SUBSET Words :
        /\ Report(r, FailedResult(words))
        /\ stderr' = [stderr EXCEPT ![r] = @ \cup words]

(* The child ends with an exit code other than 0: it never started, it was *)
(* killed, an error was caught by nobody, or the bridge caught one outside *)
(* of the pipeline (a rule file, a task without a target) and exits with 1.*)
EngineDies(r) ==
    /\ engine[r] \in {"running", "reported"}
    /\ \E words \in SUBSET Words : stderr' = [stderr EXCEPT ![r] = @ \cup words]
    /\ engine' = [engine EXCEPT ![r] = "crashed"]
    /\ UNCHANGED <<runtime, stdout>>
    /\ UNCHANGED vars

\* Mutant: the child exits while its pipeline is still at work.
EngineExitsEarly(r) ==
    /\ engine[r] \in {"running", "reported"}
    /\ engine' = [engine EXCEPT ![r] = "exited"]
    /\ UNCHANGED <<runtime, stdout, stderr>>
    /\ UNCHANGED vars

\* Nothing is left to do in the child: it exits with code 0.
EngineExits(r) ==
    /\ engine[r] = "reported"
    /\ engine' = [engine EXCEPT ![r] = "exited"]
    /\ UNCHANGED <<runtime, stdout, stderr>>
    /\ UNCHANGED vars

\* Mutant: the client takes the line as soon as it is complete.
ClientResolvesEarly(r) ==
    /\ engine[r] \in {"reported", "exited"}
    /\ StoreCompletedScan(r, stdout[r].findings, stdout[r].reason)
    /\ UNCHANGED engineVars

\* The outputs are closed after an exit with 0: the line is parsed and stored.
ClientResolves(r) ==
    /\ engine[r] = "exited"
    /\ StoreCompletedScan(r, stdout[r].findings, stdout[r].reason)
    /\ UNCHANGED engineVars

\* Mutant: a child that dies with its line printed is waited for in vain.
ClientRejectsWithoutLine(r) ==
    /\ engine[r] = "crashed"
    /\ runtime[r] = NoRuntimeResult
    /\ StoreFailedScan(r, MessageOf(stderr[r]))
    /\ UNCHANGED engineVars

\* Mutant: createTask has no catch for the error of a scan.
ClientRejectsUncaught(r) ==
    /\ engine[r] = "crashed"
    /\ pc[r] = "scanning"
    /\ AnswerInternalError(r)
    /\ UNCHANGED engineVars

\* After any other end the error that is stored quotes all of stderr.
ClientRejects(r) ==
    /\ engine[r] = "crashed"
    /\ StoreFailedScan(r, MessageOf(stderr[r]))
    /\ UNCHANGED engineVars

\* The steps of the task center that have no part in an asset scan.
OtherStep(r) ==
    /\ RefuseRequest(r) \/ SemgrepReturns(r) \/ ServiceStep(r)
    /\ UNCHANGED engineVars

EngineEnds(r) == EngineDies(r) \/ EngineExits(r)
ClientSettles(r) == ClientResolves(r) \/ ClientRejects(r)

RunNext ==
    \/ \E r \in Requests :
        \/ SpawnEngine(r)
        \/ PipelineReturns(r)
        \/ PipelineThrows(r)
        \/ EngineEnds(r)
        \/ ClientSettles(r)
        \/ OtherStep(r)
    \/ Listening /\ UNCHANGED engineVars

RunSpec == RunInit /\ [][RunNext]_runVars

(* The event loop of the platform is fair.  Nothing is assumed of the      *)
(* child: a probe reads the body of a response, and waits for the other    *)
(* end of a web socket to close, without a time limit.                     *)
FairRunSpec == RunSpec /\ \A r \in Requests : WF_runVars(ClientSettles(r))

---------------------------------------------------------------------------
(* Properties *)

RunTypeOK ==
    /\ TypeOK
    /\ engine \in [Requests -> {"none", "running", "reported", "exited", "crashed"}]
    /\ runtime \in [Requests -> RuntimeResults \cup {NoRuntimeResult}]
    /\ stdout \in [Requests -> Reports]
    /\ stderr \in [Requests -> SUBSET Words]

StoredScan(r) == request[r].type = "asset_scan" /\ Stored(r)

(* The record of a scan tells how its child ended: failed, and then        *)
(* without findings even if a line was printed, exactly if it did not exit *)
(* with 0; otherwise it holds the findings the runtime returned            *)
(* (ProcessAssetScanEngineClient.scan, createTask).                        *)
RecordTellsExit ==
    \A r \in Requests : StoredScan(r) =>
        /\ engine[r] \in {"exited", "crashed"}
        /\ Status(r) = "failed" <=> engine[r] = "crashed"
        /\ records[r].result.findings =
               IF engine[r] = "crashed" THEN NoFindings ELSE runtime[r].findings

(* Two processes merge the reason of a scan, and a reason the runtime read *)
(* from an error survives both merges: unless the request names one, it is *)
(* stored, and the scan counts as interrupted (docs/api-contract.md:262    *)
(* and 266; resolveInterruptionReason, attachAssetScanExecutionContext).   *)
EngineReasonSurvives ==
    \A r \in Requests :
        StoredScan(r) /\ engine[r] = "exited" /\ runtime[r].reason \in Words =>
            /\ Status(r) = "partial_success"
            /\ request[r].reason = "none" => records[r].result.reason = runtime[r].reason

(* A scan whose child has ended, in whatever way, is stored and answered,  *)
(* even while the children of other scans hang.                            *)
EndedScanIsAnswered ==
    \A r \in Requests : engine[r] \in {"exited", "crashed"} ~> pc[r] = "done" /\ Stored(r)

(* docs/api-contract.md:73, failed: "the engine failed or the platform     *)
(* failed to process".  The bridge drops the status of the result, so a    *)
(* failure of the pipeline whose text holds neither word is stored as a    *)
(* finished scan without findings.                                         *)
EngineFailureIsStored ==
    \A r \in Requests :
        StoredScan(r) /\ runtime[r].status = "failed" => Status(r) # "finished"

---------------------------------------------------------------------------
(* Why the properties hold: what the child has done determines what the    *)
(* two outputs hold, and what the client makes of them.                    *)

RunConsistent(r) ==
    /\ engine[r] = "none" <=> request[r].type # "asset_scan"
    /\ engine[r] \in {"reported", "exited"} =>
           /\ runtime[r] # NoRuntimeResult
           /\ stdout[r] = DetailsOf(request[r].reason, runtime[r])
    /\ engine[r] \in {"none", "running"} => runtime[r] = NoRuntimeResult
    /\ stdout[r].findings \in Details \cup {NoFindings}
    /\ engine[r] \in {"running", "reported"} => pc[r] = "scanning"
    /\ pc[r] = "scanning" => engine[r] # "none"
    /\ runtime[r].status = "failed" => runtime[r].reason \in Words \cup {"none"}
    /\ runtime[r].status = "finished" => runtime[r].reason = "absent"
    /\ StoredScan(r) =>
           records[r] =
               IF engine[r] = "exited"
               THEN CompletedAssetScan(stdout[r].findings,
                        MergedReason(request[r].reason, stdout[r].reason))
               ELSE FailedAssetScan(FailureReason(request[r].reason, MessageOf(stderr[r])))

RunInv == RunTypeOK /\ \A r \in Requests : RunConsistent(r)

(* The process is one of the engines TaskCenter allows for: what is shown  *)
(* of the task center holds with this engine in it.                        *)
ImplementsTaskCenter == Spec

============================================================================
