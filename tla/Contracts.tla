----------------------------- MODULE Contracts -----------------------------
(***************************************************************************)
(* The payloads between the task center and the console.  Both ends        *)
(* normalise them, with normalisers of their own: the backend what clients *)
(* and engines send, the shared contracts what the console receives.  The  *)
(* console throws a payload away as a whole if one required field of it    *)
(* is amiss, so whatever the backend lets pass the console has to accept.  *)
(*                                                                         *)
(* A JSON value carries the kind its guard looks at.  The value of an      *)
(* object is a function on its fields, that of an array a function on its  *)
(* positions; a field that is undefined is not there.  An array of strings *)
(* is of the kind "strings", and so is the empty array.                    *)
(***************************************************************************)
EXTENDS Integers

CONSTANTS
  PrivateFields,  \* the names that begin with engine_private_
  Numerals,       \* [text -> what Number() makes of it], for the texts of numbers
  Bodies,         \* what clients may send to POST /api/tasks: JSON values
  ScanDetails,    \* the details an asset-scan engine may answer: fields
  Outputs         \* what a static-analysis engine may put out: JSON values

\* Numbers are counted in halves: some of them are not whole.
ASSUME NumeralsAssumption == Numerals \in [DOMAIN Numerals -> Int]

Value(kind, of) == [kind |-> kind, of |-> of]
Text(s)   == Value("string", s)
Object(f) == Value("object", f)

Fits(value, kind) == value.kind = kind \/ (kind = "array" /\ value.kind = "strings")

\* The field is there, with a value of the kind.
Has(fields, name, kind) == name \in DOMAIN fields /\ Fits(fields[name], kind)

\* What an object is is told by its required fields.
Shaped(value, kinds, required) ==
  value.kind = "object" /\ \A f \in required : Has(value.of, f, kinds[f])

\* A normaliser copies the fields it knows, each if it has the right kind.
Kept(fields, kinds) ==
  [f \in {g \in DOMAIN kinds : Has(fields, g, kinds[g])} |-> fields[f]]

\* {...a, ...b}
Spread(a, b) == [f \in DOMAIN a \cup DOMAIN b |-> IF f \in DOMAIN b THEN b[f] ELSE a[f]]

Only(fields, names)    == [f \in DOMAIN fields \cap names |-> fields[f]]
Without(fields, names) == [f \in DOMAIN fields \ names |-> fields[f]]

ObjectIn(fields, name) == IF Has(fields, name, "object") THEN fields[name].of
                                                         ELSE Only(fields, {})

\* readOptionalString: an empty text is none.
NonEmpty(fields, names) ==
  Only(fields, {f \in names : Has(fields, f, "string") /\ fields[f].of # ""})

-----------------------------------------------------------------------------
(* Targets, and the requests to create a task.                             *)

TaskTypes  == {"asset_scan", "static_analysis", "sandbox_run"}
EngineType == [asset_scan |-> "asset_scan", static_analysis |-> "skills_static",
               sandbox_run |-> "sandbox"]
TaskStatuses == {"pending", "running", "finished", "failed", "blocked", "partial_success"}
RiskLevels == {"info", "low", "medium", "high", "critical"}

TargetKinds == [target_type |-> "string", target_value |-> "string",
                display_name |-> "string", location |-> "string", metadata |-> "object"]

\* Both ends agree on targets to the letter.
TargetAccepted(fields) ==
  /\ "target" \in DOMAIN fields
  /\ Shaped(fields.target, TargetKinds, {"target_type", "target_value"})

normalizeTaskTarget(value) == Object(Kept(value.of, TargetKinds))

RequestKinds == [task_type |-> "string", title |-> "string", requested_by |-> "string",
                 parameters |-> "object"]

RequestAccepted(value) ==
  /\ Shaped(value, RequestKinds, {"task_type", "title"})
  /\ value.of.task_type.of \in TaskTypes
  /\ TargetAccepted(value.of)

normalizeCreateTaskRequest(value) ==
  Spread(Kept(value.of, RequestKinds), [target |-> normalizeTaskTarget(value.of.target)])

-----------------------------------------------------------------------------
(* The parameters of an asset scan.                                        *)

Limits ==
  [ max_targets                    |-> [min |-> 1,  max |-> 5000, default |-> 100],
    max_ports_per_target           |-> [min |-> 1,  max |-> 128,  default |-> 24],
    max_runtime_seconds            |-> [min |-> 60, max |-> 7200, default |-> 900],
    target_http_rps_cap            |-> [min |-> 1,  max |-> 20,   default |-> 2],
    max_tcp_concurrency_per_target |-> [min |-> 1,  max |-> 64,   default |-> 10] ]

Within(n, range) == IF n < range.min THEN range.min ELSE IF n > range.max THEN range.max ELSE n

\* Numbers and their texts are floored and clamped; whatever else there is gives way.
normalizeIntegerWithinRange(fields, name) ==
  IF Has(fields, name, "number")
    THEN Within(fields[name].of \div 2, Limits[name])
    ELSE IF Has(fields, name, "string") /\ fields[name].of \in DOMAIN Numerals
    THEN Within(Numerals[fields[name].of] \div 2, Limits[name])
    ELSE Limits[name].default

InterruptionReasons == {"none", "budget", "timeout", "manual_stop"}

AllowedReason(fields) ==
  IF Has(fields, "interruption_reason", "string")
     /\ fields.interruption_reason.of \in InterruptionReasons
    THEN fields.interruption_reason.of ELSE "none"

\* The limits clients give as numbers are counted in halves too.
ASSUME LimitsAssumption ==
  \A body \in Bodies, l \in DOMAIN Limits :
    body.kind = "object" /\ Has(ObjectIn(body.of, "parameters"), l, "number") =>
      body.of.parameters.of[l].of \in Int

normalizeAssetScanParameters(given, request, timestamp) ==
  LET audit == Spread(ObjectIn(given, "audit"),
                      [requested_at |-> timestamp,
                       interruption_reason |-> Text(AllowedReason(ObjectIn(given, "audit")))])
      named == Spread(NonEmpty(given, {"query", "source"}), NonEmpty(request, {"requested_by"}))
  IN  Spread(given,
             Spread([f \in DOMAIN Limits |->
                       Value("number", 2 * normalizeIntegerWithinRange(given, f))],
                    [audit |-> Object(Spread(audit, named))]))

-----------------------------------------------------------------------------
(* The task of a request, in any state of its life.                        *)

\* [parameters |-> ...] unless the request has none and its task needs none.
ParametersOf(request, timestamp) ==
  IF request.task_type.of = "asset_scan"
    THEN [parameters |-> Object(normalizeAssetScanParameters(
                                  ObjectIn(request, "parameters"), request, timestamp))]
    ELSE Only(request, {"parameters"})

\* Only a scan that has ended has the field finished_at.
Task(request, id, timestamp, status, level, summary, updated, finished) ==
  Object(Spread(
    [task_id |-> id, task_type |-> request.task_type,
     engine_type |-> Text(EngineType[request.task_type.of]),
     status |-> Text(status), title |-> request.title, target |-> request.target,
     risk_level |-> Text(level), summary |-> summary,
     created_at |-> timestamp, updated_at |-> updated],
    Spread(Spread(NonEmpty(request, {"requested_by"}), ParametersOf(request, timestamp)),
           [f \in finished |-> updated])))

TaskKinds ==
  [task_id |-> "string", task_type |-> "string", engine_type |-> "string",
   status |-> "string", title |-> "string", created_at |-> "string", updated_at |-> "string",
   requested_by |-> "string", parameters |-> "object", risk_level |-> "string",
   summary |-> "string", error_message |-> "string", started_at |-> "string",
   finished_at |-> "string", metadata |-> "object"]

ResultRefKinds == [result_type |-> "string", result_id |-> "string"]

TaskReadable(value) ==
  /\ Shaped(value, TaskKinds, {"task_id", "task_type", "engine_type", "status", "title",
                                 "created_at", "updated_at"})
  /\ TargetAccepted(value.of)
  /\ value.of.task_type.of \in TaskTypes
  /\ value.of.status.of \in TaskStatuses
  /\ value.of.engine_type.of = EngineType[value.of.task_type.of]
  /\ Has(value.of, "risk_level", "string") => value.of.risk_level.of \in RiskLevels \cup {""}

normalizeTask(value) ==
  LET referred == "result_ref" \in DOMAIN value.of
                    /\ Shaped(value.of.result_ref, ResultRefKinds, DOMAIN ResultRefKinds)
  IN  Object(Spread(Spread(Kept(value.of, TaskKinds),
                           [target |-> normalizeTaskTarget(value.of.target)]),
                    [f \in {g \in {"result_ref"} : referred} |->
                       Object(Kept(value.of.result_ref.of, ResultRefKinds))]))

-----------------------------------------------------------------------------
(* The execution context of an asset scan.                                 *)

AuditFields == {"query", "source", "requested_by", "requested_at"}

\* The reason of the request goes before that of the engine, unless it is none.
MergedReason(asked, audit) ==
  IF Has(asked, "interruption_reason", "string") /\ asked.interruption_reason.of # "none"
    THEN AllowedReason(asked) ELSE AllowedReason(audit)

\* What the request says replaces what the engine says, also where it says nothing.
attachAssetScanExecutionContext(details, parameters) ==
  LET existing == ObjectIn(details, "execution_context")
      asked    == ObjectIn(parameters, "audit")
      audit    == ObjectIn(existing, "audit")
  IN  Spread(details, [execution_context |->
        Object(Spread(Without(existing, DOMAIN Limits),
               Spread(Only(parameters, DOMAIN Limits),
                      [audit |-> Object(Spread(Without(audit, AuditFields),
                                        Spread(Only(asked, AuditFields),
                                            [interruption_reason |-> Text(MergedReason(asked, audit))])))])))])

AssetScanKinds ==
  [fingerprint |-> "object", confidence |-> "number", matched_features |-> "array",
   open_ports |-> "array", http_endpoints |-> "array", auth_detected |-> "boolean",
   findings |-> "array"]

\* The audit of the console: texts, and a reason it knows.
KnownAudit(audit) ==
  Spread(Kept(audit, [f \in AuditFields |-> "string"]),
         [f \in {g \in {"interruption_reason"} :
                   Has(audit, g, "string") /\ audit[g].of \in InterruptionReasons} |-> audit[f]])

KnownContext(context) ==
  Spread(Kept(context, [f \in DOMAIN Limits |-> "number"]),
         [f \in {g \in {"audit"} : Has(context, g, "object")} |->
            Object(KnownAudit(context[f].of))])

\* Nothing in the details of a scan is required; what is amiss is left out, and so are
\* the overall score, the overall level and the maximal privilege.
normalizeAssetScanDetails(details) ==
  Spread(Kept(details, AssetScanKinds),
  Spread([f \in {g \in {"target"} : TargetAccepted(details)} |->
            normalizeTaskTarget(details[f])],
         [f \in {g \in {"execution_context"} : Has(details, g, "object")} |->
            Object(KnownContext(details[f].of))]))

-----------------------------------------------------------------------------
(* The output of a static analysis.                                        *)

StepKinds == [step |-> "string", file_path |-> "string", line_start |-> "number",
              line_end |-> "number", metadata |-> "object"]

HitKinds ==
  [rule_id |-> "string", severity |-> "string", message |-> "string", file_path |-> "string",
   title |-> "string", category |-> "string", line_start |-> "number",
   line_end |-> "number", code_snippet |-> "string", evidence |-> "object",
   recommendation |-> "string", source_type |-> "string", sink_type |-> "string",
   tags |-> "strings", metadata |-> "object"]

HitRequired == {"rule_id", "severity", "message", "file_path"}
HitFields   == DOMAIN HitKinds \cup {"trace"}

isForbiddenEngineField(name) == name = "risk_score" \/ name \in PrivateFields

\* No field of a hit that is kept begins like a private one.
ASSUME PrivateAssumption == PrivateFields \cap HitFields = {}

Positions(fields, name) == DOMAIN fields[name].of

normalizeTraceStep(step) == Object(Kept(step.of, StepKinds))

\* Mutant: lines of a hit are taken as they come.
HitAcceptedAnyLines(hit) ==
  /\ Shaped(hit, HitKinds, HitRequired)
  /\ hit.of.severity.of \in RiskLevels
  /\ Has(hit.of, "trace", "array") =>
       \A i \in Positions(hit.of, "trace") : hit.of.trace.of[i].kind = "object"

\* The backend wants both lines or none, and steps that are objects.
HitAccepted(hit) ==
  /\ Shaped(hit, HitKinds, HitRequired)
  /\ hit.of.severity.of \in RiskLevels
  /\ "line_start" \in DOMAIN hit.of <=> "line_end" \in DOMAIN hit.of
  /\ "line_start" \in DOMAIN hit.of =>
       /\ Has(hit.of, "line_start", "number") /\ Has(hit.of, "line_end", "number")
       /\ ~(hit.of.line_start.of > hit.of.line_end.of)
  /\ Has(hit.of, "trace", "array") =>
       \A i \in Positions(hit.of, "trace") : hit.of.trace.of[i].kind = "object"

normalizeRuleHit(hit) ==
  Spread(Kept(hit.of, HitKinds),
         [f \in {g \in {"trace"} : Has(hit.of, g, "array")} |->
            Value("array", [i \in Positions(hit.of, f) |->
                              normalizeTraceStep(hit.of[f].of[i])])])

OutputKinds ==
  [language |-> "string", entry_files |-> "strings", files_scanned |-> "number",
   rule_hits |-> "array", sensitive_capabilities |-> "strings",
   dependency_summary |-> "object"]

OutputAccepted(output) ==
  /\ Shaped(output, OutputKinds, DOMAIN OutputKinds)
  /\ \A i \in Positions(output.of, "rule_hits") : HitAccepted(output.of.rule_hits.of[i])

SeverityOrder == [critical |-> 0, high |-> 1, medium |-> 2, low |-> 3, info |-> 4]

\* Array.prototype.sort, which is stable: order[i] is where the i-th hit stood before.
Orders(hits) ==
  {order \in [DOMAIN hits -> DOMAIN hits] :
     LET rank(i) == SeverityOrder[hits[order[i]].of.severity.of]
     IN  \A i, j \in DOMAIN hits :
           i < j => \/ rank(i) < rank(j)
                    \/ rank(i) = rank(j) /\ order[i] < order[j]}

SampleName(output, target) ==
  IF Has(output, "sample_name", "string") THEN output.sample_name
  ELSE IF "display_name" \in DOMAIN target THEN target.display_name
  ELSE target.target_value

\* The details that are stored.
normalizeSkillsStaticEngineOutput(output, target, order) ==
  Spread(Only(output, {"language", "entry_files", "files_scanned", "sensitive_capabilities"}),
    [sample_name |-> SampleName(output, target),
     rule_hits |-> Value("array", [i \in Positions(output, "rule_hits") |->
       LET hit == normalizeRuleHit(output.rule_hits.of[order[i]])
       IN  Object(Without(hit, {f \in DOMAIN hit : isForbiddenEngineField(f)}))]),
     dependency_summary |->
       LET kept == output.dependency_summary.of
       IN  Object(Without(kept, {f \in DOMAIN kept : isForbiddenEngineField(f)}))])

-----------------------------------------------------------------------------
(* The console's view of a static analysis.                                *)

\* A step that is no object is filtered out.
Steps(trace) == {i \in DOMAIN trace.of : trace.of[i].kind = "object"}

HitReadable(hit) ==
  Shaped(hit, HitKinds, HitRequired) /\ hit.of.severity.of \in RiskLevels

\* An empty trace is not shown.
normalizeSkillsStaticRuleHit(hit) ==
  Spread(Kept(hit.of, HitKinds),
         [f \in {g \in {"trace"} : Has(hit.of, g, "array") /\ Steps(hit.of[g]) # {}} |->
            Value("array", [i \in Steps(hit.of[f]) |-> normalizeTraceStep(hit.of[f].of[i])])])

DetailKinds ==
  [sample_name |-> "string", language |-> "string", entry_files |-> "strings",
   files_scanned |-> "number", sensitive_capabilities |-> "strings",
   dependency_summary |-> "object"]

\* One hit that is amiss costs all the details.
StaticDetailsReadable(details) ==
  Has(details, "rule_hits", "array") =>
    \A i \in Positions(details, "rule_hits") : HitReadable(details.rule_hits.of[i])

normalizeStaticAnalysisDetails(details) ==
  Spread(Kept(details, DetailKinds),
         [f \in {g \in {"rule_hits"} : Has(details, g, "array")} |->
            Value("array", [i \in Positions(details, f) |->
                              Object(normalizeSkillsStaticRuleHit(details[f].of[i]))])])

\* A hit without lines is in order.
LinesInOrder(hit) ==
  /\ "line_start" \in DOMAIN hit <=> "line_end" \in DOMAIN hit
  /\ "line_start" \in DOMAIN hit => ~(hit.line_start.of > hit.line_end.of)

satisfiesFinishedStaticAnalysisContract(details) ==
  /\ {"sample_name", "language", "rule_hits"} \subseteq DOMAIN details
  /\ \A i \in Positions(details, "rule_hits") : LinesInOrder(details.rule_hits.of[i].of)

ResultKinds ==
  [task_id |-> "string", task_type |-> "string", engine_type |-> "string",
   status |-> "string", risk_level |-> "string", summary |-> "string",
   created_at |-> "string", updated_at |-> "string"]

\* normalizeBaseResult, for the result of a static analysis.
StaticResultReadable(value) ==
  /\ Shaped(value, ResultKinds, DOMAIN ResultKinds)
  /\ value.of.task_type.of = "static_analysis"
  /\ value.of.engine_type.of = EngineType["static_analysis"]
  /\ value.of.status.of \in TaskStatuses /\ value.of.risk_level.of \in RiskLevels
  /\ Has(value.of, "details", "object") /\ StaticDetailsReadable(value.of.details.of)
  /\ value.of.status.of = "finished" =>
       satisfiesFinishedStaticAnalysisContract(
         normalizeStaticAnalysisDetails(value.of.details.of))

-----------------------------------------------------------------------------
(* Properties                                                              *)

Accepted == {body \in Bodies : RequestAccepted(body)}

(* A task that is made of an accepted request is one the console takes, in *)
(* any state of its life, and the console shows all its fields (createTask *)
(* and normalizeTask, written apart from each other).                      *)
TasksAreReadable ==
  \A body \in Accepted, status \in TaskStatuses, level \in RiskLevels,
     finished \in SUBSET {"finished_at"} :
    LET task == Task(normalizeCreateTaskRequest(body), Text("id"), Text("created"),
                     status, level, Text("summary"), Text("updated"), finished)
    IN  TaskReadable(task) /\ normalizeTask(task) = task

\* What the console shows of the context of a scan of these parameters.
ShownContext(details, parameters) ==
  normalizeAssetScanDetails(attachAssetScanExecutionContext(details, parameters)).execution_context.of

(* Whatever limits a client asks for and whatever context the engine makes *)
(* up, the console shows the limits of the task, each a whole number       *)
(* within its range, when the task was asked for, and a reason of the      *)
(* contract (normalizeAssetScanParameters, attachAssetScanExecutionContext *)
(* and normalizeAssetScanDetails).                                         *)
ContextIsShown ==
  \A body \in Accepted, details \in ScanDetails :
    LET request == normalizeCreateTaskRequest(body)
        parameters == normalizeAssetScanParameters(ObjectIn(request, "parameters"),
                                                   request, Text("created"))
        context == ShownContext(details, parameters)
    IN  /\ \A l \in DOMAIN Limits :
             /\ context[l] = parameters[l]
             /\ \E n \in Limits[l].min..Limits[l].max : context[l] = Value("number", 2 * n)
        /\ context.audit.of.requested_at = Text("created")
        /\ context.audit.of.interruption_reason.of \in InterruptionReasons

\* What createCompletedStaticAnalysisArtifacts makes of the details.
StaticResult(details, level) ==
  Object([task_id |-> Text("id"), task_type |-> Text("static_analysis"),
          engine_type |-> Text("skills_static"), status |-> Text("finished"),
          risk_level |-> Text(level), summary |-> Text("summary"),
          details |-> Object(details),
          created_at |-> Text("created"), updated_at |-> Text("updated")])

\* The one thing a hit may lose on its way.
WithoutEmptyTrace(hit) ==
  IF "trace" \in DOMAIN hit /\ Positions(hit, "trace") = {} THEN Without(hit, {"trace"}) ELSE hit

(* An output the backend accepts becomes a finished result the console     *)
(* takes: no hit of it costs the console all the details, and each hit and *)
(* every other detail is shown as it is stored (normalizeRuleHit beside    *)
(* normalizeSkillsStaticRuleHit, satisfiesFinishedStaticAnalysisContract). *)
ResultsAreReadable ==
  \A output \in Outputs, target \in {body.of.target : body \in Accepted}, level \in RiskLevels :
    OutputAccepted(output) =>
      \A order \in Orders(output.of.rule_hits.of) :
        LET details == normalizeSkillsStaticEngineOutput(
                         output.of, normalizeTaskTarget(target).of, order)
            shown == normalizeStaticAnalysisDetails(details)
        IN  /\ StaticResultReadable(StaticResult(details, level))
            /\ DOMAIN shown = DOMAIN details
            /\ \A f \in DOMAIN details \ {"rule_hits"} : shown[f] = details[f]
            /\ \A i \in Positions(output.of, "rule_hits") :
                 shown.rule_hits.of[i].of = WithoutEmptyTrace(details.rule_hits.of[i].of)

(* What the backend lets pass, the console can show.                       *)
ConsoleReadsTheBackend == TasksAreReadable /\ ContextIsShown /\ ResultsAreReadable
=============================================================================
