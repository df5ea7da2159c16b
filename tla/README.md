# A verification of the agent security platform

TLA+ modules, TLC configurations and TLAPS proofs for the platform in this
repository: a console (React), a backend with a task center (Node), and engines
that the task center calls (an asset-scan process, a static-analysis runner). The
modules are translated from the source files named below and in `PROJECT.json`
(`map`), definition by definition.

Paths are relative to `src/`; `tc/` stands for `backend/src/modules/task-center/`,
`asset/` for `engines/asset-scan/src/`, `fe/` for `frontend/src/`.

## 1. Inventory

| component | state it keeps | operations | interacts with |
|---|---|---|---|
| Task center service (`tc/task-center.service.ts`, `task-engine.service.ts`, `dto/`, `task-center.controller.ts`) | none of its own between requests: a request's state is on the stack of an async function, between two awaits | `createTask` (validate, ask the adapter, dispatch to the client, store, answer), `getTaskById`, `getTaskResult`, `getRiskSummary`, `listTasks`, `listTaskResults` | repository (calls), adapters and clients (awaits) |
| Repository (`tc/repositories/in-memory-task.repository.ts`) | a `Map` from task id to the triple task / result / risk summary | `save` replaces, `findById` copies | memory only: a restart loses all |
| Skills-static engine client (`tc/clients/skills-static.engine-client.ts`, `tc/skills-static/*`) | the environment, read at each dispatch | choose a provider, log four kinds of event, run the mock or a semgrep process, map, normalise and derive | log sink and hook (injected, awaited), `execFile` with a timeout |
| Asset-scan adapter and client (`tc/adapters/asset-scan.adapter.ts`, `asset-scan-engine-client.ts`) | the two outputs of a child process | spawn, write the task to stdin, resolve or reject at `close` | child process |
| Asset-scan bridge and runtime (`asset/bridge/scan-task.ts`, `asset/runtime/run-task.ts`) | one task per process | parse the task, run the pipeline, print one line, exit | stdin, stdout, stderr, exit code |
| Asset-scan pipeline (`asset/runtime/pipeline.ts`, `port-scan`, `protocol-identification`, `asset-probe`, `asset-discovery`, `asset-fingerprint`, `classification`, `asset/probes/*`) | lists of ports, probes and assets built phase by phase | scan ports in parallel, identify protocols in turn, probe, fingerprint, classify | sockets, HTTP, YAML rules |
| File scanners (`asset/scanners/*`) | temporary directories | run gitleaks and trivy when they are installed, append findings | child processes, file system |
| Console detail page (`fe/pages/TaskDetailPage.tsx`, `fe/services/*`) | the shown detail, a waiting flag, one abort controller per effect | three GETs per visit, composition with fallbacks and mocks, cleanup | read routes of the task center |
| Console list and overview | one GET and what it returned | render | read routes |
| Fingerprint library sync (`scripts/dev/intel/fofa-fingerprint-library-sync.ts`) | numbered sample files in two directories | filter candidates, list, number on, write | file system, itself at other times |
| Task submission and report (`scripts/dev/intel/fofa-api-task-scan.ts`, `fofa-task-batch-report.ts`) | the results so far, lost with the process | ask FOFA for a listing, post one asset scan after another; read result and risk summary of each task | FOFA API, task center API |
| Port verification (`scripts/dev/intel/fofa-mainline-portscan.ts`, `fofa-portscan-workflow.ts`) | evidence, samples and counters, then four files | naabu, `nmap --open`, `nmap -sV`, GET of `/api/tags` for each target; write three layers, then the summary | child processes with timers, file system |
| Six steps (`scripts/dev/intel/fofa-six-step-minimal.ts`, `oss-port-collector.ts`) | the assets so far, then two files | converge an export, naabu and nmap, match, assess, write | child processes with timers, file system |
| HTTP shell (`backend/src/app.module.ts`, `common/http/*`) | none | route, parse JSON, turn errors into answers | task center controller |
| Shared contracts (`shared/*`) | none | normalise and validate payloads field by field, beside normalisers of the backend's own | task center (writes), console (reads) |

`PROJECT.json` lists each with what is modelled of it.

### What is hard

- **Interleaving at awaits.** One Node process serves all POSTs; `createTask` awaits
  the adapter, the hook, the log sink (up to four times) and the client. At each
  await any other request and any read runs. A static analysis is stored *pending*
  before its scan runs and replaced later; an asset scan is not stored until its
  child process has ended. What a read sees in between is nobody's unit test.
- **Nested error handling.** Four catch clauses (the client's dispatch, the
  service's around derivation, around dispatch, and around the adapter) and one in
  the HTTP shell decide whether an error becomes a stored failed record, a stored
  *finished* one, or a 500 that leaves a task pending forever.
- **Two processes and three opinions.** The request, the runtime and the bridge may
  each give an interruption reason; they are merged twice, in two processes, and
  only the exit code tells the client whether the printed line counts.
- **No time limit on the child.** A hanging engine must delay nobody else.
- **Timers that do not cover the wait.** A fetch is aborted by a timer that is cleared
  when the headers arrive; the body is read after that. TLS and HEAD have idle timers,
  which a peer that keeps sending resets.
- **One list for all evidence.** Features of all ports and scanners are collected in one
  list and matched without regard to where they came from, some of them twice.
- **Two normalisers for one payload.** The backend accepts requests and engine outputs
  by rules of its own and the console by those of the contracts, and one hit that the
  console does not like costs it the whole result.
- **Partial failure of a loop over the network.** A submission that fails in the middle
  forgets the tasks it has created, and a client that gives up does not stop its scan.
- **Commands that fail, hang, or could not be started.** The port verification has four
  routes through its loop and counts on each; a timer whose option is no number is none.
- **Stale and mixed reads.** The console composes three GETs that see three moments
  of one task, and React keeps the page while the URL moves to another task.

### What makes each component correct

- Task center: the three views of a stored task agree at every moment; a task is
  settled at most once and never changes after its POST was answered; the answer
  accounts for what was left behind; no failure is lost, and the diagnostic log names
  the failure that is stored; every accepted request is answered.
- Asset-scan process: the record tells how the child ended; a reason found by the
  runtime is not lost; a scan whose child ended is answered.
- Console page: it shows the task of its URL, nothing older than the visit, never
  goes back in a task's life, and stops waiting.
- Discovery: however the answers of several lookups overlap, the host of the URL is
  the one that is scanned.
- Pipeline: the report accounts for each open port, whatever order connect, error and
  timeout fire in; nothing counts twice and nothing is pieced together from several
  services; aggregates fit the findings; the scan ends.
- Library sync: no sample is overwritten that a run could have known of, whatever died
  before it; what a run reports is there.
- Contracts: what the backend lets pass the console shows, whole; limits are within
  their ranges and are those that were stored.
- Submission and report: a submission that returns names one task for each record, and
  a task that nobody can name belongs to an attempt that ended with an exception; the
  report tells what the store says.
- Port verification: the summary fits the layers whichever route each target took, and
  is written when they are complete; the tool ends whatever its commands do.
- Six steps: what is reported was seen, and nothing is reported twice.

## 2. Modules

```
RiskDerivation   pure: findings -> risk summary
    ^
TaskCenter ---- implements ----> TaskLifecycle   abstract: what a client may rely on
    ^    ^
    |    TaskCenterProofs
    |    ^
AssetScanRun ---- implements ----> TaskCenter
    ^    |
AssetScanRunProofs

TaskLifecycle    Contracts       pure: the payloads between task center and console
    ^             ^    ^
    ConsoleDetail      ContractsProofs
            ^           ^
         ConsoleDetailProofs

Classification   pure: features -> fingerprints, findings, scores, aggregates
    ^
ScanPipeline     one run of the pipeline, after discovery
    ^
ScanPipelineProofs

AssetDiscovery   which address that run scans
    ^
AssetDiscoveryProofs

LibrarySync      the sample library that the intelligence scripts keep
    ^
LibrarySyncProofs

TaskSubmission   PortVerification   SixStep     the other intelligence scripts
          ^             ^             ^
          +-------- IntelScripts -----+
                        ^
                 IntelScriptsProofs
```

An arrow without a word points to what a module extends. `MC*` modules give constants
their values for TLC.

### RiskDerivation
`deriveAssetScanRiskSummary` and `deriveStaticAnalysisRiskSummary` over a bag of
finding levels: a list of findings is abstracted to how many it has of each level.
`"unknown"` stands for any level the five `RiskLevel`s do not hold (the asset-scan
engine's findings are not validated); it counts in the total and nowhere else. The
two functions of the code compute the same numbers and are one operator here.

### TaskLifecycle
What a client may rely on: per task a status (`"absent"` while reads answer
TASK_NOT_FOUND) and the answer to its POST. A task becomes visible once, settles at
most once, may be answered without being settled, may be abandoned (500), and never
changes after its answer. It mentions no engine, no record and no log.

### TaskCenter
One action per stretch of code between two awaits; `pc[r]` is the await that request
`r` is suspended at.

| `pc` | suspended in | actions that leave it |
|---|---|---|
| `idle` | not arrived | `RefuseRequest` (400), `AcceptRequest` |
| `scanning` | `createInitialDetails` of the asset-scan adapter | `AssetScanReturns`, `AssetScanThrows` |
| `creating` | `createInitialDetails` of the other two adapters | `StoreInitialArtifacts` |
| `dispatching` | the `onDispatch` hook | `HookThrows`, `SelectProvider` |
| `selected`, `started`, `succeeded`, `failing` | the log sink after an event | `StartScan`, `RunScan`, `BackfillResult`, `BackfillFailure` |
| `running` | `execFile` of semgrep | `SemgrepReturns` |
| `done` | answered | |

State: `request` (type and normalised interruption reason), `config` (the
environment the client reads), `failure` and `output` (what is in flight), `records`
(the repository), `log` (events per task), `response`. `Faults` is the set of injected
collaborators that may throw: the default wiring injects none, tests and embedders
do. An asset scan saves twice in one stretch (pending, then completed): one action.
A record holds the three parts separately (`task`, `result`, `riskSummary`), because
the code builds them separately and the read routes serve them separately.

### AssetScanRun
TaskCenter with the child process in it. `engine[r]` is `none`, `running`, `reported`
(the line is printed), `exited` (0) or `crashed` (anything else). The child's actions
are `PipelineReturns`, `PipelineThrows` (with the telling words its text may hold),
`EngineDies` at any moment, also after printing, and `EngineExits`; the client's are
`ClientResolves` and `ClientRejects`. Error texts are abstracted to which of the words
"timeout" and "budget" they contain, the only thing the code reads out of them.

### ConsoleDetail
The detail page beside `TaskLifecycle` (which TaskCenter implements): each visit runs
an effect with three GETs, each answered at its own moment by the status the task has
then, or not served (unreachable, or contract-invalid). `Open` from another task's
page keeps the page's state, as React does when only the route parameter changes;
`Leave` unmounts. `Show` is the `.then` of the effect, which checks `isActive`.
Actions of an aborted effect still happen: its GETs count as failed, its promise is
fulfilled and ignored.

### Classification
Fingerprints by weighted signals (`asset-fingerprint.service.ts`), the twelve rules of
`risk-rules.v1.yaml`, composite scores, levels and aggregates
(`classification.service.ts`), as operators. A feature is a type, an abstract value
(what signals and rules tell apart) and where it came from, which the code does not
keep; a set of such records has one element per entry of the code's list. Fractions are
hundredths. `Rounded` is `Math.round` of the double the code computes: of the sums that
end in a half, exactly two (86.5 and 89.5) come out just below it in double arithmetic.

### ScanPipeline
One run of `pipeline.ts` after discovery. `phase` is the await of `run` that is due.

| `phase` | what happens | actions |
|---|---|---|
| `discovering` | an address is found, or not | `SelectAsset`, `Throw` |
| `scanning` | all sockets race with their timers | `Connect`, `Refuse`, `ConnectTimeout`, `PortScanEnds` |
| `identifying` | port after port: TLS, then HEAD, then a guess | `PeerIdentifies`, `TlsFails`, `HeadFails`, `IdentificationEnds` |
| `probing` | port after port, probe after probe | `ProbeDeclines`, `TcpProbe`, `HttpProbeFails`, `HttpHeaders`, `HttpBody`, `WsMessage`, `WsFails`, `ProbesEnd` |
| `enhancing` | the file scanners, all at once, then the report | `CheckAvailable`, `RunScanners`, `ScannerEnds`, `Report` |

State besides: `socket` (one per port), `protocols` (what was identified), `cursor` (the
turn of the loop at hand), `attempt` (TLS or HEAD), `answering` (the status of an answer
whose body is awaited), `features`, `endpoints`, `scanner`, `leaks` (what the scanners
reported) and `report`. A peer answers anything: any status, any subset of what a probe
looks for. Ports, probes and the catalogue of fingerprints are constants.

### AssetDiscovery
The seeds of a task in turn; each lookup is one step and may answer anything, the same
question differently included. `MergeAsset` is the merge by address in which the first
domain stays, and `Merged` folds it over what one lookup names; `Selected` is the choice for the host name of the URL. `heard` is history:
every candidate in the order in which it was merged.

### LibrarySync
Invocations of the library sync over the two directories, which outlive them.

| `phase[r]` | the await | actions |
|---|---|---|
| `idle` | mkdir, and the candidate files | `ReadCandidates`, `ReadThrows` |
| `listing` | two `readdir` at once | `ListDirectory`, `Die` |
| `writing` | `writeFile`, which truncates (`OpenSample`) and then writes (`WriteSample`) | these, `Return`, `Die` |

State besides: `library` (what each numbered file holds: nothing, parts, an older sample
or a candidate's), `todo`, `seen` and `listed` (what the run found), `written`, `opened`,
and `overlapped` (history). `Filter` is what the code's `filter` does to a list, as a
function on places, because the provers cannot look into `SelectSeq`. A candidate is abstracted to what the three filters read.

### TaskSubmission
Two clients of the backend. The backend is what clients can tell of it: ids are issued
in turn, `PostTask` starts an engine, `EndScan` stores its record as a whole and answers
(TaskCenter's `AssetScanStoredWhole`), `Restart` takes records, scans and connections. A
static analysis that the report is asked for too is in the store from the start and is
settled later.

| `phase` | the await | actions |
|---|---|---|
| `listing` | the request to FOFA | `ReadListing`, `ListingFails` |
| `posting` | none: the next row is at hand | `PostTask`, `RowUnusable`, `PostRefused`, `ReturnTasks` |
| `waiting` | the answer to a POST | `ReadAnswer`, `GiveUp` |
| `returned`, `thrown` | the process has ended | `TryAgain`, `StartReport` |

The report (`reporting`) reads the result and then the risk summary of each id:
`ReadResult`, `ReadRiskSummary`, `ReportThrows`, `ReturnReport`. `thrown` is history.

### PortVerification
`step` is the command or the file the tool waits for: `ReadTasks`; per target
`StartTarget` or `SkipNaabu`, `NaabuEnds`, `OpenCheckEnds` (when naabu's runner could not
be created, now or at an earlier target), `NmapEnds`, `ProbeEnds`; then `ExportLayers`,
`WriteSummary`, `ReturnSummary` with `OpenFile` (which truncates), `WriteFile` and
`WriteFails` for each file, and `Die` at any moment. `TimerFires` ends a command as
failed if its timeout is a number. What a command prints is abstracted to what the loop
reads from it: is the port open, is the product known. `looked` and `seenOpen` are
history.

### SixStep
`ReadExport` with `uniqueByIpPort` as a fold that stops at the limit, `NaabuCollects`, `NmapFingerprints` with
the weights of the four signals in hundredths, `Summarise`, `WriteReport`. `maxTargets` is
counted in halves, because half a target is floored to a limit of none.

### IntelScripts
The three tools above in one module; they share only the files that a user hands on, so
a behaviour runs one of them.

### Contracts
The normalisers on both sides of the API as operators on JSON values: those of the
backend (`task-center.service.ts`, `dto/`, `skills-static/`) and those of `shared/utils`
that the console uses. A value is a record of its kind, which is what the guards look
at, and of what it holds; the fields of an object are a function on their names, and a
field that is undefined is not in its domain. `Kept` is the pattern all normalisers
share: copy the fields that are known and have the right kind. Numbers are in halves, so
that some are not whole. A stable sort is a permutation (`Orders`).

## 3. Runs

All with small sets of model values. Every passing run checks deadlock except the
console's, which ends when its visits are used up and its tasks are answered; a pipeline
or a discovery that has ended stays where it is (`Stop`), so that any other standstill
is found.

| run | instance | what it shows |
|---|---|---|
| `task_center` | 2 requests, 3 engine outputs, all collaborators may throw | the inductive invariant (types included), agreement of reads, answers, whole asset scans, the log, no 500 unless hook or sink throw; finality and the refinement of TaskLifecycle; liveness of requests that are no asset scan, *with engines that may hang*, and of every request if engines exit |
| `asset_scan_run` | 2 requests, children that may hang or die | the record tells how the child ended, reasons survive, the refinement of TaskCenter, a scan whose child ended is answered |
| `console_detail` | a backend task and a mock, 2 visits, GETs that fail; payloads whose fields are missing, of another kind, or at and beyond their limits | the page's four properties; what the backend lets pass the console shows |
| `scan_pipeline` | three ports (the port of the URL, Dify's; Ollama's, whose peer may never end a body; OpenClaw's), four probes, three fingerprints, both file scanners | types and the inductive invariant; what every report says of ports, fingerprints, findings and aggregates; the scan ends unless the endless peer was open |
| `asset_discovery` | up to three seeds of six kinds, lookups that name up to two assets | what merged assets hold, which address is scanned |
| `library_sync` | three invocations at any distance, two pairs of candidate files, a stock with a gap | no sample is lost but to a race, crashes leave gaps in no numbering, a file without a sample has a cause |
| `intel_scripts` | one tool at a time: four listings, two attempts, one restart; three task files; three exports, four values of `maxTargets` | a submission names its tasks, the report tells the store, the summary fits the layers, reported assets were seen; the tools end |
| `six_step_live` | the same exports | the disagreement on live targets of section 6, violated |
| `scan_pipeline_scores` | one port, gitleaks | the disagreement on overall scores of section 6, violated |
| `task_center_pending_status`, `asset_scan_run_failure`, `console_detail_invalid` | 1 request | the disagreements of section 6, each violated |

Types are conjuncts of the inductive invariants (`IInv`, `RunInv`, `ScanInv`, `SyncInv`,
`SubmissionInv`, `VerificationInv`) and of `AnswersAreOfTheVisit`,
`AssetsSummariseAnswers` and `SixStepInv`.

**Why the bounds are enough.** Requests share nothing but the repository (one key
each) and the event loop; a property that fails needs one request's own steps, or one
request delaying another, so two suffice (and the proofs cover any number). The three
outputs are: nothing found; findings of two levels, several of one; and a finding of no
level, which the normaliser rejects and the asset-scan path accepts. `log` is bounded by
the code itself (four events). `MaxVisits = 2` is the least at which two effects
overlap; a third visit adds an effect whose predecessors are all inactive, like the
second's. In `scan_pipeline` three ports are the least with which a fingerprint could be
pieced together from two services while a third gives the top category; the probes are
those of `probes.v2.yaml` that matter to these ports, one of each handler and of each
kind of request; `MaxReported = 1` bounds what one scanner reports (a rule looks for one
matching feature, so more of them only repeat). In `asset_discovery` two seeds are the
least that can overlap and a third may take what both named; the six seeds are one of
each branch, twice for host names; `MaxAnswer = 2` is the least with which a lookup
names something new beside what was known. `library_sync` needs three invocations: one
that died, and two that race after it; one of the two batches files two positive samples
and a negative one (so that numbers are counted on), the other one of each, and between
them their candidates take every branch of the filters. Invocations are symmetric. In `intel_scripts` a
listing holds one asset twice, so that tasks are told apart by nothing but their ids,
or ends with a row that throws before or after the first POST; two attempts are the
least at which a task of the first may be taken for one of the second, and one restart
comes at every moment between two calls. Two targets are the least at which naabu is
given up for a later one; the exports repeat records and name more targets than the
least limits allow. In `console_detail` every field that a guard looks at is given each
way the guard tells apart, in all combinations within an object: eight ways to give a
limit, both ends crossed; audits that are known, made up and of another kind; hits with one line, two, in
order or not, traces empty, partly amiss or no list, in pairs for the order.
`PayloadsAreReadable` does not depend on the state and is evaluated in the initial one;
`PayloadsAreMixed` says that some payloads are accepted and some are not.

**Mutants.** Each property comes with a mutant of the code's behaviour that breaks
it (definitions whose comment starts with "Mutant", listed in `PROJECT.json`): for
instance `BackfillResultThenFails` stores inside the guarded block,
`MergedReasonOfEngine` lets the engine's reason override the request's,
`ShowAny` forgets `isActive`.

**Fairness.** `ServiceFairness` is weak fairness of each request's own steps: the
event loop runs every stretch whose promise is settled, and `execFile` is given a
timeout, so semgrep returns. It includes the wait for hook and log sink, which are
assumed to settle, by fulfilling or rejecting. Nothing is assumed of the asset-scan
child in `FairSpec` and `FairRunSpec`, because nothing in the code bounds it (no
timeout in the client; `max_runtime_seconds` is passed on and enforced by nobody; the
HTTP probe reads a body after its timer was cleared); `EveryRequestIsAnswered` takes
that it exits (`EngineFairness`) as its hypothesis, and says so. In `ConsoleDetail` each GET ends (served, or given up by
the browser) and fulfilled promises run. In `FairScanSpec` only `BoundedStep` is fair:
what a timer bounds (DNS, sockets, TLS and HEAD of a peer that falls silent, fetch until
the headers, WebSocket, the scanners' processes) and what needs nobody else. The body of
an answer has no timer, so its end is fair only for ports outside `EndlessPorts`, whose
peers finish what they send; a peer inside may also keep TLS and HEAD from timing out.
Nothing is assumed of which way a wait ends.
`SubmissionFairness` is weak fairness of the submission's and the report's own steps: a
call ends by an answer or by the timeout that fetch has by itself; engines may hang.
`VerificationFairness` is that of `Work`: the tool, its timers and the file system, not
the commands, which may hang; so `ToolsEnd` asks for both timeouts to be numbers.

## 4. Proofs

`TaskCenterProofs` proves, for any set of requests, any set of engine outputs and any
set of faulty collaborators (assumptions: `Details` are bags of findings, `Faults` are
collaborators):

| theorem | statement |
|---|---|
| `Inductive` | `Spec => []IInv` |
| `TypeCorrect` | `Spec => []TypeOK` |
| `ReadsAlwaysAgree` | the three read routes tell one story |
| `AnswersAccountForTasks` | the answer accounts for the task left behind |
| `AssetScansStoredWhole` | no asset scan is read half made |
| `DefaultWiringHandlesErrors` | no 500 unless hook or sink throw |
| `LogAlwaysExplains` | the events explain the record |
| `SettledStaysFinal` | settled or answered tasks never change |
| `ImplementsTaskLifecycle` | TaskCenter implements TaskLifecycle |

**The argument.** None of the properties is inductive: that a finished static analysis
has three events in its log depends on what the log held while its scan ran, and that
depends on where the request is suspended. `IInv` says it all at once: `InProgress(r)`
gives for every `pc` what is stored, logged and answered, and for `pc = "done"` the
request has one of four outcomes (`RefusedOutcome`, `SandboxOutcome`,
`AssetScanOutcome`, `StaticOutcome`). TLC checks `IInv` in `task_center`. The proof
that it is inductive has one lemma per action, each showing that the action keeps the
types, leaves other requests alone (`OthersUnchanged`, `Framed`) and re-establishes
`Consistent(r)`; `NextKeeps` combines them. The properties then follow in one state
from `IInv`; `SettledStaysFinal` and the refinement use that each step changes the
visible part of one request at most (`OneVisibleStep`).

Lemmas about data: the derivation is of its type and gives the placeholder's numbers
for no findings; every record constructor builds a coherent record of the store; what
appending does to each trail the client writes.

`AssetScanRunProofs` does the same for the composition. Its joint invariant is
`IInv /\ RunInv`: where a child is determines what its outputs hold, and what its record
may say.

| theorem | statement |
|---|---|
| `RunInductive` | `RunSpec => [](IInv /\ RunInv)` |
| `RunImplementsTaskCenter` | the child, the bridge and the client are one of the engines that TaskCenter allows for, so its theorems hold of them |
| `RecordAlwaysTellsExit` | the record tells how the child ended |
| `EngineReasonAlwaysSurvives` | a reason read from an error survives both merges |

`ScanPipelineProofs` proves, for any ports, probes, catalogue of fingerprints and subset
of the two scanners:

| theorem | statement |
|---|---|
| `PipelineInductive` | `Spec => []ScanInv` |
| `PipelineTypeCorrect` | types; a body is awaited only for an HTTP probe that wants one |
| `ReportAlwaysAccounts` | the report tells of each open port what was identified |
| `AggregatesAlwaysFit` | score, level and privilege are those of the rules' findings |
| `FingerprintsAlwaysCombine` | a balanced fingerprint is reported on evidence of both kinds, about content and not |
| `ExposedModelApiAlwaysCritical` | an open list of models makes the report critical, unless a lesser category is among the matches |
| `FeaturesAlwaysHaveOrigins` | a feature is of an open port on which a probe looks for it, or comes from a file scanner |
| `TiedCatalogueIsOfOnePort` | with a tied catalogue, the features of one port suffice for each reported fingerprint |
| `CompositeScoreMonotone`, `LevelMonotone` | a worse rule scores no less, rounding included; a higher score has no lower level |

That the report accounts for all ports is not inductive: it needs that the loop over the
ports has passed each of them. `ScanInv` says that while ports are identified `protocols`
holds exactly the open ports before the cursor, that after it none is missing and the
port of the URL is not left as bare TCP, and that a report is what `BuildResult` makes of
the state. The lemma about the loops (`AfterIs`) says what comes after a turn; those
about scores say what `Min` and `Max` return, that each score is a whole number from 0 to
100, and what the aggregates of any set of findings are.

`FingerprintsAlwaysCombine` and `ExposedModelApiAlwaysCritical` are about every catalogue,
so they say what they need of it.
`IsBalanced` asks that neither the signals about content nor the others reach the
threshold alone; of the fingerprints of `fingerprints.v2.yaml` it is false of one only
(section 6). The argument compares two sums, of what was found and of what one kind of
evidence can give at most (`TotalMonotone`: a list that is nowhere greater has no greater
sum, by its least counterexample). For the second, `TopIs` shows that there is a top match
and that its category is one of those matched; then one rule of two fires, and the lower
of their scores is exactly the threshold of "critical".

That no fingerprint is pieced together from several services is not true of every
catalogue, so `TiedCatalogueIsOfOnePort` has a hypothesis, `IsTiedCatalogue`: each
fingerprint is out of reach, or there is a port such that no probe on another one, and no
scanner, shows what counts for it. The run's catalogue meets it, and TLC evaluates that
(`CatalogueAssumption` of `MCScanPipeline`). The proof needs a second invariant,
`FeaturesHaveOrigins`, which ties each feature to the probes on its port; then the
features of the one port that matters give at least the confidence that all of them
give (`ConfidenceGrows`), and if that port is closed they give none. Of the fingerprints in
`fingerprints.v2.yaml`, Ollama and AutoGPT are tied, and Dify, AnythingLLM and the one of
MCP servers cannot be reached with its probes. OpenClaw and Langflow name three ports each,
so in the file they are not tied: there the weights must make the difference, and
neither the theorem nor the run, whose catalogue has one port of OpenClaw, says that they do.

`LibrarySyncProofs` proves, for any number of invocations, any candidate files and any
finite stock:

| theorem | statement |
|---|---|
| `SyncInductive` | `Spec => []SyncInv` |
| `NumbersStayDense` | the numbers go on from the stock without a gap |
| `LoneRunsAreWhole` | a run that nothing disturbed returns with each of its candidates in a sample of its own |
| `UnreadableHasItsCause` | a file that cannot be read was there before, or is being written, or its writer has died |
| `SettledForGood` | a file that every working run has found never changes again |

`SyncInv` has two parts. `NumbersInv` says that the numbers a run has used from its
listing on are taken and that a run has used none before it has listed; that the next
number is greater than all listed is the lemma `NumberIs`, which needs that a finite set
of numbers has a maximum (`MaxIs`). `SamplesInv` says what the files of a lone run hold,
number by number, and that every other run that works and has listed has found them,
which is why no other run opens one of them again.

`ConsoleDetailProofs` proves, for any tasks, mocks, troubles and number of visits:

| theorem | statement |
|---|---|
| `ConsoleInductive` | `ConsoleSpec => []ConsoleInv` |
| `PageAlwaysShowsItsTask` | a page that waits for nothing shows the task of its URL, or none |
| `AnswersStayOfTheVisit` | what the page shows was read during the visit |
| `PageNeverGoesBack` | no part of a task on the page goes back to an earlier state |
| `PayloadsAlwaysReadable` | what the backend lets pass the console takes (from `PayloadsMatch`) |

`ConsoleInv` is `PageShowsItsTask /\ AnswersAreOfTheVisit`: the two are inductive
together only, because what a stale effect may do depends on `isActive`, and how old its
answers may be on which visit it is of. The page rests on the task center through
`StatusMovesOn`: a step of TaskLifecycle lowers no status and leaves a settled one alone.

`AssetDiscoveryProofs` proves, for any addresses, hosts, seeds and lookups:

| theorem | statement |
|---|---|
| `DiscoveryInductive` | `Spec => []DiscoveryInv` |
| `AssetsAlwaysSummarise` | one asset per address heard of, in the order of first mention, with all its sources under its first name |
| `TargetAlwaysScanned` | what is scanned is of the target, under the condition of section 6 |

`DiscoveryInv` adds to the summary that the selection is made of the assets, and that the
target as the only seed leads to nothing else. `MergeKeeps` shows that one merge keeps the
summary; what the fold `Merged` does with a list of any length is shown without the
induction theorems (their parameter is an operator): a fold has its equation
(`FoldExists`), and a prefix at which the summary fails would have a least length
(`FoldKeeps`).

`IntelScriptsProofs` proves, for any listings and numbers of attempts and restarts, task
files of any length, any export and any limit, however commands and files fail:

| theorem | statement |
|---|---|
| `SubmissionInductive` | `Spec => []SubmissionInv` |
| `TasksAreNamed` | a submission that returns names one task of its own for each record, in their order |
| `ReportFitsStore` | an entry of the report tells what the store says when it is made |
| `VerificationInductive` | `Spec => []VerificationInv` |
| `SummaryAlwaysFits` | the counters of the summary are the numbers of the entries, whichever route each target took |
| `SummaryIsAlwaysLast` | a summary lies beside complete layers of the same run only |
| `SixStepInductive` | `Spec => []SixStepInv` |
| `ReportedAlwaysSeen` | a report holds the converged targets, and only assets that were seen open, with the signals and the level they give |

`SubmissionInv` relates the ids that were issued, the responses on their way and the
results: a task that nobody can name is of an attempt that threw, or is waited for.
`VerificationInv` has a part for the loop (counters are cardinalities of entries, so each
route needs how a set grows by one, `FiledEntry` and its like) and a part for the files.
`SixStepInv` says that the matches are of targets before the one at hand, in their order.
Its two folds, `uniqueByIpPort` and the sum of the weights, are treated like `Merged`.

`ContractsProofs` proves, for any bodies, details and outputs of any shape and any names
of private fields (assumptions: numerals stand for numbers, clients' numbers are
numbers, no field of a hit has a private name):

| theorem | statement |
|---|---|
| `LimitsHold` | each normalised limit is a whole number within its range |
| `AcceptedTasksAreReadable` | the console takes a task made of an accepted request in any state of its life, and shows all of it |
| `ContextsAreShown` | the console shows the limits that were stored, and a reason of the contract |
| `AcceptedOutputsAreReadable` | an accepted output becomes a result the console takes, and shows hit by hit |
| `PayloadsMatch` | all three: `ConsoleReadsTheBackend`, which the run evaluates on its payloads |

There is no state, so the argument goes field by field: what `Spread`, `Kept`, `Only` and
`Without` make of a domain and of the values in it, then for each object which fields it
has and of which kinds, then that two such functions agree on a common domain
(`Extensionality`).

**Only model-checked.** Liveness (`OtherRequestsAreAnswered`, `EveryRequestIsAnswered`,
`EndedScanIsAnswered`, `LoadingEnds`, `ScanEnds`, `ToolsEnd`), which the prover does not
reach. Every safety property of a passing run is stated by a theorem, `EvidenceOfOnePort`
under the hypothesis above. Those of the violated runs are not true, so none states them.

## 5. Not modelled

- Routing, JSON parsing and the wording of answers and summaries; a summary text is
  what tells it from another.
- A library sync that is repeated after a failure files the same candidates again under
  new numbers; nothing asks for a sample to be filed once.
- Task ids are unique by assumption. The code takes a timestamp and six hexadecimal
  digits, so a collision within a millisecond is possible and would replace a record.
- Crash and restart of the backend: the repository is memory, so there is nothing to
  recover. The children of a crashed backend go on and their output is lost.
- `max_runtime_seconds` is normalised, stored and shown (Contracts), and enforced by
  nobody, so it has no effect on the behaviour of the other models.
- Of the normalisers of `shared/`: the risk summary, the details of a sandbox (no engine
  writes any), and what is inside free-form objects (`metadata`, `evidence`), which is
  copied as it is.
- Of `oss-port-collector.ts`: the collector for nmap alone and the fallback from one
  collector to the next, which the six steps do not use. Credentials, the FOFA query and
  the output formats of the tools are left out.
- The engine and client registries: filled once, at start-up.
- The order and the texts of findings, their evidence and recommendations; tags, ids
  and timestamps of assets. That gitleaks' temporary directory is named by `Date.now()`
  alone, so that two scans in one millisecond would share it, needs two runs at once.
- Sandbox engine: a skeleton without code. A `sandbox_run` task stays pending, which
  is modelled.

## 6. Where the documents and the code disagree

| what the text says | what the code does | run |
|---|---|---|
| `docs/api-contract.md:73`: `failed` means the engine failed or the platform failed to process | `asset/bridge/scan-task.ts:91` copies the details and drops the status of a failed run: a pipeline that threw is stored as `finished` without findings, unless its text holds "timeout" or "budget" | `asset_scan_run_failure` |
| `docs/api-contract.md:70-71`: `pending` is created and not started, `running` is dispatched and executing | a static analysis is pending while its scan runs; `running` is never stored | `task_center_pending_status` |
| `docs/api-contract.md:1367`: contract-invalid responses must stay visible | `fe/services/task-service.ts:207` returns null for a task without a mock; the page says it is not available yet | `console_detail_invalid` |
| `docs/asset-scan-深化拓展-阶段一实现计划.md:429`, `:431`: the overall score and privilege are the highest of all findings | `asset/runtime/pipeline.ts:165` appends the findings of the file scanners after the aggregates were taken | `scan_pipeline_scores` |
| `docs/fofa-six-step-minimal.md:23`: `step2_live_targets` depends on reachability, ports and timeouts | `scripts/dev/intel/fofa-six-step-minimal.ts:393` counts the assets that match, as the two steps after it do | `six_step_live` |

Not against any text, and worth knowing:

- `TargetIsScanned` holds under a condition. If every address of the target was first
  named by other seeds (two host names that share an address, the target's second), its
  name is lost in merging and `selectAsset` falls back to the first asset of all, which
  may be a host that the URL does not name.
- Any status but 401 and 403 makes an endpoint unauthenticated, also a 404
  (`asset/probes/http.handler.ts:43`), and the path of a request is a feature whatever
  its answer. `FingerprintsCombineEvidence` shows that this alone names no product that is
  balanced; in the model, as in the code, it does let a rule fire on an endpoint that is not there.
- The fingerprint of MCP servers has signals about content only (60 and 20 of 100 for
  two marks of JSON-RPC, threshold 70), so that content alone suffices for it, whatever
  port it came from. No probe of `probes.v2.yaml` extracts either mark, so with the
  shipped probes it is never reported.
- The signals of Dify and of AnythingLLM add up to 50 of 100 (`fingerprints.v2.yaml:195-205`,
  `:223-233`), so neither is ever reported.
- A report with an exposed model API is only "high" when an application or an MCP server
  is matched with more confidence: its category decides which rules fire, and its lower
  privilege takes the score of `unauthorized_sensitive_endpoint` from 75 to 72.
- `docs/architecture.md:340` says that malformed engine output preserves the pending
  shell; the service replaces it by a failed record (`tc/task-center.service.ts:418`).
- The console's normaliser drops `overall_risk_score`, `overall_risk_level` and
  `max_privilege` of an asset scan (`shared/utils/normalizers.ts:192-288`), which the
  engine reports and the backend serves; and a hit whose trace is empty loses it.
- A submission that throws names none of the tasks it has created, and trying again
  creates them anew; `LostTasksAreOfThrownAttempts` says that these are the only tasks
  that get lost.
- `misconfiguration_http_sensitive` asks for an API path on some port and for HTTP on
  some port, not for both on one (`classification.service.ts:209-220`).
- `http_root_head` asks for an `http_header`, and `feature-extractor.util.ts:19-41` has no
  branch for that type: the feature never exists, so the rules that look for one
  (`info_leak_version`, `misconfiguration_cors`, `weak_auth_basic`) never fire.

## 7. Plan

In this order; each with its runs and proofs. Every safety property of a passing run
is a theorem.

1. **TaskCenter, TaskLifecycle, RiskDerivation** with their proofs: done.
2. **AssetScanRun** with its proofs: done.
3. **ConsoleDetail** with its proofs: done.
4. **Classification, ScanPipeline** with their proofs: done. Left: the composition with
   AssetScanRun, of whose engine it is to be a refinement (`PipelineReturns`,
   `PipelineThrows`, or a hang); and a condition weaker than
   `IsTiedCatalogue`, for products that may run on several ports.
5. **AssetDiscovery** with its proofs: done; to be composed with ScanPipeline, whose
   `SelectAsset` and `Throw` are its two ends.
6. **Contracts** with their proofs: done. Left: the risk summary.
7. **LibrarySync** with its proofs: done.
8. **TaskSubmission, PortVerification, SixStep** with their proofs: done. Left: the
   fallback from one collector to the next.
