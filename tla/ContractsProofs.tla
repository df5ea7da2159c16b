-------------------------- MODULE ContractsProofs --------------------------
(***************************************************************************)
(* What the backend lets pass the console can show, for all payloads.      *)
(***************************************************************************)
EXTENDS Contracts, TLAPS

---------------------------------------------------------------------------
(* The operators on fields                                                 *)

LEMMA SpreadIsFunction ==
    ASSUME NEW a, NEW b
    PROVE  Spread(a, b) = [f \in DOMAIN Spread(a, b) |-> Spread(a, b)[f]]
    BY DEF Spread

LEMMA KeptIsFunction ==
    ASSUME NEW fields, NEW kinds
    PROVE  Kept(fields, kinds) = [f \in DOMAIN Kept(fields, kinds) |-> Kept(fields, kinds)[f]]
    BY DEF Kept

\* Functions that agree are equal.
LEMMA Extensionality ==
    ASSUME NEW a, NEW b,
           a = [f \in DOMAIN a |-> a[f]], b = [f \in DOMAIN b |-> b[f]],
           DOMAIN a = DOMAIN b, \A f \in DOMAIN b : a[f] = b[f]
    PROVE  a = b
    OBVIOUS

LEMMA KindFacts ==
    ASSUME NEW k, NEW v
    PROVE  /\ Value(k, v).kind = k /\ Value(k, v).of = v
           /\ Text(v) = Value("string", v) /\ Object(v) = Value("object", v)
           /\ Fits(Value(k, v), k)
    BY DEF Value, Text, Object, Fits

---------------------------------------------------------------------------
(* The limits of a scan                                                    *)

LEMMA LimitRanges ==
    ASSUME NEW l \in DOMAIN Limits
    PROVE  /\ Limits[l].min \in Nat /\ Limits[l].max \in Nat
           /\ Limits[l].default \in Limits[l].min..Limits[l].max
    BY DEF Limits

(* Whatever a client asks for, a limit is a whole number within its range  *)
(* (normalizeIntegerWithinRange).                                          *)
THEOREM LimitsHold ==
    ASSUME NEW fields, NEW l \in DOMAIN Limits,
           Has(fields, l, "number") => fields[l].of \in Int
    PROVE  normalizeIntegerWithinRange(fields, l) \in Limits[l].min..Limits[l].max
<1> DEFINE range == Limits[l]
<1>1. \A n \in Int : Within(n, range) \in range.min..range.max
  BY LimitRanges DEF Within
<1>2. \A n \in Int : n \div 2 \in Int
  OBVIOUS
<1>3. CASE Has(fields, l, "number")
  BY <1>1, <1>2, <1>3 DEF normalizeIntegerWithinRange
<1>4. CASE ~Has(fields, l, "number") /\ Has(fields, l, "string")
           /\ fields[l].of \in DOMAIN Numerals
  <2>1. Numerals[fields[l].of] \in Int
    BY <1>4, NumeralsAssumption
  <2> QED
    BY <1>1, <1>2, <1>4, <2>1 DEF normalizeIntegerWithinRange
<1>5. CASE /\ ~Has(fields, l, "number")
           /\ ~(Has(fields, l, "string") /\ fields[l].of \in DOMAIN Numerals)
  BY <1>5, LimitRanges DEF normalizeIntegerWithinRange
<1> QED
  BY <1>3, <1>4, <1>5

---------------------------------------------------------------------------
(* The context of a scan, from the request to the console                  *)

LEMMA ReasonIsAllowed ==
    ASSUME NEW asked, NEW audit
    PROVE  /\ AllowedReason(asked) \in InterruptionReasons
           /\ MergedReason(asked, audit) \in InterruptionReasons
    BY DEF AllowedReason, MergedReason, InterruptionReasons

LEMMA ParametersFacts ==
    ASSUME NEW given, NEW request, NEW timestamp
    PROVE  LET parameters == normalizeAssetScanParameters(given, request, timestamp)
           IN  /\ \A l \in DOMAIN Limits :
                    /\ l \in DOMAIN parameters
                    /\ parameters[l] = Value("number", 2 * normalizeIntegerWithinRange(given, l))
               /\ Has(parameters, "audit", "object")
               /\ "requested_at" \in DOMAIN parameters["audit"].of
               /\ parameters["audit"].of["requested_at"] = timestamp
<1> DEFINE reason == Text(AllowedReason(ObjectIn(given, "audit")))
           own   == [requested_at |-> timestamp, interruption_reason |-> reason]
           audit == Spread(ObjectIn(given, "audit"), own)
           query == NonEmpty(given, {"query", "source"})
           who   == NonEmpty(request, {"requested_by"})
           named == Spread(query, who)
           full  == Spread(audit, named)
           limits == [f \in DOMAIN Limits |->
                        Value("number", 2 * normalizeIntegerWithinRange(given, f))]
           last  == [audit |-> Object(full)]
           parameters == Spread(given, Spread(limits, last))
<1>1. parameters = normalizeAssetScanParameters(given, request, timestamp)
  BY DEF normalizeAssetScanParameters
<1>2. "requested_at" \in DOMAIN own /\ own["requested_at"] = timestamp
  OBVIOUS
<1>3. "requested_at" \notin DOMAIN named
  BY DEF Spread, NonEmpty, Only, Without
<1>4. "requested_at" \in DOMAIN full /\ full["requested_at"] = timestamp
  <2> HIDE DEF own, named
  <2> QED
    BY <1>2, <1>3 DEF Spread
<1>5. DOMAIN limits = DOMAIN Limits /\ DOMAIN last = {"audit"}
  OBVIOUS
<1>6. "audit" \notin DOMAIN Limits
  BY DEF Limits
<1>7. last["audit"] = Object(full)
  OBVIOUS
<1>8. \A l \in DOMAIN Limits :
        limits[l] = Value("number", 2 * normalizeIntegerWithinRange(given, l))
  OBVIOUS
<1> HIDE DEF full, limits, last
<1>9. \A l \in DOMAIN Limits : l \in DOMAIN parameters /\ parameters[l] = limits[l]
  BY <1>5, <1>6 DEF Spread
<1>10. "audit" \in DOMAIN parameters /\ parameters["audit"] = Object(full)
  BY <1>5, <1>7 DEF Spread
<1>11. Has(parameters, "audit", "object") /\ parameters["audit"].of = full
  BY <1>10, KindFacts DEF Has
<1> HIDE DEF parameters
<1> QED
  BY <1>1, <1>4, <1>8, <1>9, <1>11

LEMMA AttachedFacts ==
    ASSUME NEW details, NEW parameters,
           Has(parameters, "audit", "object"),
           "requested_at" \in DOMAIN parameters["audit"].of,
           \A l \in DOMAIN Limits : l \in DOMAIN parameters
    PROVE  LET attached == attachAssetScanExecutionContext(details, parameters)
               context == attached["execution_context"].of
               audit == context["audit"].of
           IN  /\ Has(attached, "execution_context", "object")
               /\ \A l \in DOMAIN Limits : l \in DOMAIN context /\ context[l] = parameters[l]
               /\ Has(context, "audit", "object")
               /\ "requested_at" \in DOMAIN audit
               /\ audit["requested_at"] = parameters["audit"].of["requested_at"]
               /\ "interruption_reason" \in DOMAIN audit
               /\ \E r \in InterruptionReasons : audit["interruption_reason"] = Text(r)
<1> DEFINE existing == ObjectIn(details, "execution_context")
           asked  == ObjectIn(parameters, "audit")
           old    == ObjectIn(existing, "audit")
           reason == MergedReason(asked, old)
           last   == [interruption_reason |-> Text(reason)]
           mine   == Only(asked, AuditFields)
           audit  == Spread(Without(old, AuditFields), Spread(mine, last))
           box    == [audit |-> Object(audit)]
           limits == Only(parameters, DOMAIN Limits)
           context == Spread(Without(existing, DOMAIN Limits), Spread(limits, box))
           outer  == [execution_context |-> Object(context)]
           attached == Spread(details, outer)
<1>1. attached = attachAssetScanExecutionContext(details, parameters)
  BY DEF attachAssetScanExecutionContext
<1>2. DOMAIN last = {"interruption_reason"} /\ last["interruption_reason"] = Text(reason)
  OBVIOUS
<1>3. DOMAIN box = {"audit"} /\ box["audit"] = Object(audit)
  OBVIOUS
<1>4. DOMAIN outer = {"execution_context"} /\ outer["execution_context"] = Object(context)
  OBVIOUS
<1>5. asked = parameters["audit"].of
  BY DEF ObjectIn
<1>6. "requested_at" \in AuditFields /\ "interruption_reason" \notin AuditFields
  BY DEF AuditFields
<1>7. "audit" \notin DOMAIN Limits
  BY DEF Limits
<1>8. reason \in InterruptionReasons
  BY ReasonIsAllowed
<1>9. "requested_at" \in DOMAIN mine /\ mine["requested_at"] = asked["requested_at"]
  BY <1>5, <1>6 DEF NonEmpty, Only, Without
<1>10. DOMAIN limits = DOMAIN Limits /\ \A l \in DOMAIN Limits : limits[l] = parameters[l]
  BY DEF NonEmpty, Only, Without
<1> HIDE DEF last, box, outer, asked, reason, mine, limits
<1>11. /\ "requested_at" \in DOMAIN audit
       /\ audit["requested_at"] = asked["requested_at"]
       /\ "interruption_reason" \in DOMAIN audit
       /\ audit["interruption_reason"] = Text(reason)
  BY <1>2, <1>9 DEF Spread
<1> HIDE DEF audit
<1>12. /\ \A l \in DOMAIN Limits : l \in DOMAIN context /\ context[l] = parameters[l]
       /\ "audit" \in DOMAIN context /\ context["audit"] = Object(audit)
  BY <1>3, <1>7, <1>10 DEF Spread
<1>13. Has(context, "audit", "object") /\ context["audit"].of = audit
  BY <1>12, KindFacts DEF Has
<1> HIDE DEF context
<1>14. "execution_context" \in DOMAIN attached
       /\ attached["execution_context"] = Object(context)
  BY <1>4 DEF Spread
<1>15. Has(attached, "execution_context", "object")
       /\ attached["execution_context"].of = context
  BY <1>14, KindFacts DEF Has
<1> HIDE DEF attached
<1> QED
  BY <1>1, <1>5, <1>8, <1>11, <1>12, <1>13, <1>15

LEMMA ShownFacts ==
    ASSUME NEW details, NEW context, NEW audit,
           Has(details, "execution_context", "object"),
           context = details["execution_context"].of,
           \A l \in DOMAIN Limits : Has(context, l, "number"),
           Has(context, "audit", "object"), audit = context["audit"].of,
           Has(audit, "requested_at", "string"),
           Has(audit, "interruption_reason", "string"),
           audit["interruption_reason"].of \in InterruptionReasons
    PROVE  LET shown == normalizeAssetScanDetails(details)["execution_context"].of
           IN  /\ \A l \in DOMAIN Limits : shown[l] = context[l]
               /\ shown["audit"].of["requested_at"] = audit["requested_at"]
               /\ shown["audit"].of["interruption_reason"] = audit["interruption_reason"]
<1> DEFINE texts == [f \in AuditFields |-> "string"]
           reason == [f \in {g \in {"interruption_reason"} :
                               Has(audit, g, "string") /\ audit[g].of \in InterruptionReasons}
                        |-> audit[f]]
           known == Spread(Kept(audit, texts), reason)
           numbers == [f \in DOMAIN Limits |-> "number"]
           box == [f \in {g \in {"audit"} : Has(context, g, "object")} |->
                     Object(KnownAudit(context[f].of))]
           shown == Spread(Kept(context, numbers), box)
           target == [f \in {g \in {"target"} : TargetAccepted(details)} |->
                        normalizeTaskTarget(details[f])]
           outer == [f \in {g \in {"execution_context"} : Has(details, g, "object")} |->
                       Object(KnownContext(details[f].of))]
           result == Spread(Kept(details, AssetScanKinds), Spread(target, outer))
<1>1. known = KnownAudit(audit)
  BY DEF KnownAudit
<1>2. shown = KnownContext(context)
  BY DEF KnownContext
<1>3. result = normalizeAssetScanDetails(details)
  BY DEF normalizeAssetScanDetails
<1>4. DOMAIN reason = {"interruption_reason"}
      /\ reason["interruption_reason"] = audit["interruption_reason"]
  OBVIOUS
<1>5. "requested_at" \in AuditFields /\ "interruption_reason" \notin AuditFields
  BY DEF AuditFields
<1>6. "requested_at" \in DOMAIN Kept(audit, texts)
  BY <1>5 DEF Kept
<1>7. Kept(audit, texts)["requested_at"] = audit["requested_at"]
  BY <1>6 DEF Kept
<1>8. known["requested_at"] = audit["requested_at"]
      /\ known["interruption_reason"] = audit["interruption_reason"]
  <2> HIDE DEF reason, texts
  <2> QED
    BY <1>4, <1>6, <1>7 DEF Spread
<1>9. DOMAIN box = {"audit"} /\ box["audit"] = Object(known)
  BY <1>1
<1>10. "audit" \notin DOMAIN Limits
  BY DEF Limits
<1>11. \A l \in DOMAIN Limits : l \in DOMAIN Kept(context, numbers)
  BY DEF Kept
<1>12. \A l \in DOMAIN Limits : Kept(context, numbers)[l] = context[l]
  BY <1>11 DEF Kept
<1>13. /\ \A l \in DOMAIN Limits : shown[l] = context[l]
       /\ shown["audit"] = Object(known)
  <2> HIDE DEF box, numbers, known
  <2> QED
    BY <1>9, <1>10, <1>11, <1>12 DEF Spread
<1>14. DOMAIN outer = {"execution_context"}
       /\ outer["execution_context"] = Object(shown)
  BY <1>2
<1>15. result["execution_context"] = Object(shown)
  <2> HIDE DEF outer, shown, target
  <2> QED
    BY <1>14 DEF Spread
<1>16. result["execution_context"].of = shown /\ shown["audit"].of = known
  BY <1>13, <1>15, KindFacts
<1> HIDE DEF result, shown, known
<1> QED
  BY <1>3, <1>8, <1>13, <1>16

(* The context of every scan is shown as the task asks for it.             *)
THEOREM ContextsAreShown == ContextIsShown
<1> SUFFICES ASSUME NEW body \in Accepted, NEW details \in ScanDetails
             PROVE  LET request == normalizeCreateTaskRequest(body)
                        parameters == normalizeAssetScanParameters(
                            ObjectIn(request, "parameters"), request, Text("created"))
                        context == ShownContext(details, parameters)
                    IN  /\ \A l \in DOMAIN Limits :
                             /\ context[l] = parameters[l]
                             /\ \E n \in Limits[l].min..Limits[l].max :
                                  context[l] = Value("number", 2 * n)
                        /\ context["audit"].of["requested_at"] = Text("created")
                        /\ context["audit"].of["interruption_reason"].of \in InterruptionReasons
  BY DEF ContextIsShown
<1> DEFINE request == normalizeCreateTaskRequest(body)
           given == ObjectIn(request, "parameters")
           parameters == normalizeAssetScanParameters(given, request, Text("created"))
           attached == attachAssetScanExecutionContext(details, parameters)
           context == attached["execution_context"].of
           audit == context["audit"].of
           shown == ShownContext(details, parameters)
<1>1. \A l \in DOMAIN Limits : Has(given, l, "number") => given[l].of \in Int
  <2> DEFINE kept == Kept(body.of, RequestKinds)
             target == [target |-> normalizeTaskTarget(body.of.target)]
  <2>1. body \in Bodies /\ body.kind = "object"
    BY DEF Accepted, RequestAccepted, Shaped
  <2>2. request = Spread(kept, target) /\ DOMAIN target = {"target"}
    BY DEF normalizeCreateTaskRequest
  <2>3. "parameters" \in DOMAIN RequestKinds /\ RequestKinds["parameters"] = "object"
    BY DEF RequestKinds
  <2>4. CASE Has(body.of, "parameters", "object")
    <3>1. "parameters" \in DOMAIN kept /\ kept["parameters"] = body.of["parameters"]
      BY <2>3, <2>4 DEF Kept
    <3>2. "parameters" \in DOMAIN request /\ request["parameters"] = body.of["parameters"]
      <4> HIDE DEF kept, target
      <4> QED
        BY <2>2, <3>1 DEF Spread
    <3>3. given = body.of["parameters"].of /\ ObjectIn(body.of, "parameters") = given
      BY <2>4, <3>2 DEF ObjectIn, Has
    <3> QED
      BY <2>1, <3>3, LimitsAssumption
  <2>5. CASE ~Has(body.of, "parameters", "object")
    <3>1. "parameters" \notin DOMAIN request
      BY <2>2, <2>3, <2>5 DEF Spread, Kept
    <3>2. given = Only(request, {})
      BY <3>1 DEF ObjectIn, Has
    <3>3. DOMAIN given = {}
      BY <3>2 DEF NonEmpty, Only, Without
    <3> HIDE DEF given
    <3> QED
      BY <3>3 DEF Has
  <2> QED
    BY <2>4, <2>5
<1> HIDE DEF given
<1>2. /\ \A l \in DOMAIN Limits :
           /\ l \in DOMAIN parameters
           /\ parameters[l] = Value("number", 2 * normalizeIntegerWithinRange(given, l))
      /\ Has(parameters, "audit", "object")
      /\ "requested_at" \in DOMAIN parameters["audit"].of
      /\ parameters["audit"].of["requested_at"] = Text("created")
  BY ParametersFacts
<1>3. \A l \in DOMAIN Limits :
        normalizeIntegerWithinRange(given, l) \in Limits[l].min..Limits[l].max
  BY <1>1, LimitsHold
<1> HIDE DEF parameters
<1>4. /\ Has(attached, "execution_context", "object")
      /\ \A l \in DOMAIN Limits : l \in DOMAIN context /\ context[l] = parameters[l]
      /\ Has(context, "audit", "object")
      /\ "requested_at" \in DOMAIN audit
      /\ audit["requested_at"] = parameters["audit"].of["requested_at"]
      /\ "interruption_reason" \in DOMAIN audit
      /\ \E r \in InterruptionReasons : audit["interruption_reason"] = Text(r)
  BY <1>2, AttachedFacts
<1> HIDE DEF attached
<1>5. \A l \in DOMAIN Limits : Has(context, l, "number")
  BY <1>2, <1>4, KindFacts DEF Has
<1>6. /\ Has(audit, "requested_at", "string")
      /\ Has(audit, "interruption_reason", "string")
      /\ audit["interruption_reason"].of \in InterruptionReasons
  BY <1>2, <1>4, KindFacts DEF Has
<1>7. shown = normalizeAssetScanDetails(attached)["execution_context"].of
  BY DEF ShownContext, attached
<1> HIDE DEF context, audit, shown
<1>8. /\ \A l \in DOMAIN Limits : shown[l] = context[l]
      /\ shown["audit"].of["requested_at"] = audit["requested_at"]
      /\ shown["audit"].of["interruption_reason"] = audit["interruption_reason"]
  BY <1>4, <1>5, <1>6, <1>7, ShownFacts DEF context, audit
<1>9. \A l \in DOMAIN Limits :
        /\ shown[l] = parameters[l]
        /\ \E n \in Limits[l].min..Limits[l].max : shown[l] = Value("number", 2 * n)
  BY <1>2, <1>3, <1>4, <1>8
<1> QED
  BY <1>2, <1>4, <1>6, <1>8, <1>9 DEF shown, parameters, given

---------------------------------------------------------------------------
(* The tasks of accepted requests                                          *)

LEMMA KeptTwice ==
    ASSUME NEW fields, NEW kinds
    PROVE  Kept(Kept(fields, kinds), kinds) = Kept(fields, kinds)
<1> DEFINE once == Kept(fields, kinds)
           twice == Kept(once, kinds)
<1>1. \A g \in DOMAIN kinds : Has(once, g, kinds[g]) <=> g \in DOMAIN once
  BY DEF Kept, Has
<1>2. DOMAIN once \subseteq DOMAIN kinds
  BY DEF Kept
<1>3. DOMAIN twice = DOMAIN once
  BY <1>1, <1>2 DEF Kept
<1>4. \A f \in DOMAIN once : twice[f] = once[f]
  <2> HIDE DEF once
  <2> QED
    BY <1>3 DEF Kept
<1>5. once = [f \in DOMAIN once |-> once[f]] /\ twice = [f \in DOMAIN twice |-> twice[f]]
  BY KeptIsFunction
<1> HIDE DEF once, twice
<1> QED
  BY <1>3, <1>4, <1>5, Extensionality DEF once, twice

\* A target that has been normalised is accepted, and stays as it is.
LEMMA TargetFacts ==
    ASSUME NEW value, Shaped(value, TargetKinds, {"target_type", "target_value"})
    PROVE  /\ normalizeTaskTarget(value) = Object(Kept(value.of, TargetKinds))
           /\ Shaped(normalizeTaskTarget(value), TargetKinds, {"target_type", "target_value"})
           /\ normalizeTaskTarget(normalizeTaskTarget(value)) = normalizeTaskTarget(value)
<1> DEFINE target == normalizeTaskTarget(value)
<1>1. target = Object(Kept(value.of, TargetKinds))
  BY DEF normalizeTaskTarget
<1>2. target.kind = "object" /\ target.of = Kept(value.of, TargetKinds)
  BY <1>1, KindFacts
<1>3. {"target_type", "target_value"} \subseteq DOMAIN TargetKinds
  BY DEF TargetKinds
<1>4. \A f \in {"target_type", "target_value"} : Has(target.of, f, TargetKinds[f])
  BY <1>2, <1>3 DEF Shaped, Has, Kept
<1>5. normalizeTaskTarget(target) = target
  BY <1>1, <1>2, KeptTwice DEF normalizeTaskTarget
<1> QED
  BY <1>1, <1>2, <1>4, <1>5 DEF Shaped

\* What an accepted request looks like after it has been normalised.
LEMMA RequestFacts ==
    ASSUME NEW body, RequestAccepted(body)
    PROVE  LET request == normalizeCreateTaskRequest(body)
           IN  /\ Has(request, "task_type", "string") /\ request["task_type"].of \in TaskTypes
               /\ Has(request, "title", "string")
               /\ "parameters" \in DOMAIN request => Has(request, "parameters", "object")
               /\ TargetAccepted(request)
               /\ normalizeTaskTarget(request["target"]) = request["target"]
<1> DEFINE kept == Kept(body.of, RequestKinds)
           target == [target |-> normalizeTaskTarget(body.of["target"])]
           request == Spread(kept, target)
<1>1. request = normalizeCreateTaskRequest(body)
  BY DEF normalizeCreateTaskRequest
<1>2. /\ {"task_type", "title", "parameters"} \subseteq DOMAIN RequestKinds
      /\ RequestKinds["task_type"] = "string" /\ RequestKinds["title"] = "string"
      /\ RequestKinds["parameters"] = "object" /\ "target" \notin DOMAIN RequestKinds
  BY DEF RequestKinds
<1>3. /\ Has(body.of, "task_type", "string") /\ Has(body.of, "title", "string")
      /\ body.of["task_type"].of \in TaskTypes /\ TargetAccepted(body.of)
  BY <1>2 DEF RequestAccepted, Shaped
<1>4. DOMAIN target = {"target"} /\ target["target"] = normalizeTaskTarget(body.of["target"])
  OBVIOUS
<1> HIDE DEF target
<1>5. \A f \in {"task_type", "title", "parameters"} :
        /\ f \in DOMAIN request <=> Has(body.of, f, RequestKinds[f])
        /\ f \in DOMAIN request => request[f] = body.of[f]
  BY <1>2, <1>4 DEF Spread, Kept
<1>6. "target" \in DOMAIN request /\ request["target"] = target["target"]
  BY <1>4 DEF Spread
<1> HIDE DEF request
<1>7. TargetAccepted(request) /\ normalizeTaskTarget(request["target"]) = request["target"]
  BY <1>3, <1>4, <1>6, TargetFacts DEF TargetAccepted
<1>8. /\ Has(request, "task_type", "string") /\ request["task_type"].of \in TaskTypes
      /\ Has(request, "title", "string")
  BY <1>2, <1>3, <1>5 DEF Has
<1>9. "parameters" \in DOMAIN request => Has(request, "parameters", "object")
  BY <1>2, <1>5 DEF Has
<1> QED
  BY <1>1, <1>7, <1>8, <1>9

LEMMA ParametersOfFacts ==
    ASSUME NEW request, NEW timestamp,
           "parameters" \in DOMAIN request => Has(request, "parameters", "object")
    PROVE  LET parameters == ParametersOf(request, timestamp)
           IN  /\ DOMAIN parameters \subseteq {"parameters"}
               /\ "parameters" \in DOMAIN parameters => Has(parameters, "parameters", "object")
<1> DEFINE value == Object(normalizeAssetScanParameters(ObjectIn(request, "parameters"),
                                                        request, timestamp))
           made == [parameters |-> value]
<1>1. DOMAIN made = {"parameters"} /\ made["parameters"] = value
  OBVIOUS
<1>2. Fits(value, "object")
  BY KindFacts
<1>3. CASE request.task_type.of = "asset_scan"
  <2>1. ParametersOf(request, timestamp) = made
    BY <1>3 DEF ParametersOf
  <2> HIDE DEF made, value
  <2> QED
    BY <1>1, <1>2, <2>1 DEF Has
<1>4. CASE request.task_type.of # "asset_scan"
  <2>1. ParametersOf(request, timestamp) = Only(request, {"parameters"})
    BY <1>4 DEF ParametersOf
  <2> QED
    BY <2>1 DEF Only, Has
<1> QED
  BY <1>3, <1>4

\* The fields of a task are of the kinds the console wants, all but its target,
\* which has a kind of its own.
LEMMA TaskFacts ==
    ASSUME NEW body, RequestAccepted(body), NEW status \in TaskStatuses,
           NEW level \in RiskLevels, NEW finished \in SUBSET {"finished_at"}
    PROVE  LET request == normalizeCreateTaskRequest(body)
               task == Task(request, Text("id"), Text("created"), status, level,
                            Text("summary"), Text("updated"), finished)
           IN  /\ task = Object(task.of)
               /\ task.of = [f \in DOMAIN task.of |-> task.of[f]]
               /\ {"task_id", "task_type", "engine_type", "status", "title", "target",
                   "created_at", "updated_at", "risk_level"} \subseteq DOMAIN task.of
               /\ \A f \in DOMAIN task.of \ {"target"} :
                    f \in DOMAIN TaskKinds /\ Has(task.of, f, TaskKinds[f])
               /\ task.of["task_type"].of \in TaskTypes
               /\ task.of["engine_type"].of = EngineType[task.of["task_type"].of]
               /\ task.of["status"].of = status /\ task.of["risk_level"].of = level
               /\ task.of["target"] = request["target"]
<1> DEFINE request == normalizeCreateTaskRequest(body)
           base == [task_id |-> Text("id"), task_type |-> request["task_type"],
                    engine_type |-> Text(EngineType[request["task_type"].of]),
                    status |-> Text(status), title |-> request["title"],
                    target |-> request["target"],
                    risk_level |-> Text(level), summary |-> Text("summary"),
                    created_at |-> Text("created"), updated_at |-> Text("updated")]
           names == {"task_id", "task_type", "engine_type", "status", "title", "target",
                     "risk_level", "summary", "created_at", "updated_at"}
           who == NonEmpty(request, {"requested_by"})
           parameters == ParametersOf(request, Text("created"))
           last == [f \in finished |-> Text("updated")]
           fields == Spread(base, Spread(Spread(who, parameters), last))
           task == Task(request, Text("id"), Text("created"), status, level,
                        Text("summary"), Text("updated"), finished)
<1>1. task = Object(fields)
  BY DEF Task
<1>2. /\ Has(request, "task_type", "string") /\ request["task_type"].of \in TaskTypes
      /\ Has(request, "title", "string")
      /\ "parameters" \in DOMAIN request => Has(request, "parameters", "object")
  BY RequestFacts
<1>3. DOMAIN base = names
  OBVIOUS
<1>4. /\ base["task_type"] = request["task_type"] /\ base["title"] = request["title"]
      /\ base["engine_type"] = Text(EngineType[request["task_type"].of])
      /\ base["target"] = request["target"]
      /\ base["status"] = Text(status) /\ base["risk_level"] = Text(level)
  OBVIOUS
<1>5. /\ base["task_id"] = Text("id") /\ base["summary"] = Text("summary")
      /\ base["created_at"] = Text("created") /\ base["updated_at"] = Text("updated")
  OBVIOUS
<1>6. /\ DOMAIN who \subseteq {"requested_by"}
      /\ \A f \in DOMAIN who : Has(who, f, "string")
  BY DEF NonEmpty, Only, Has
<1>7. /\ DOMAIN parameters \subseteq {"parameters"}
      /\ "parameters" \in DOMAIN parameters => Has(parameters, "parameters", "object")
  BY <1>2, ParametersOfFacts
<1>8. /\ DOMAIN last \subseteq {"finished_at"}
      /\ \A f \in DOMAIN last : Has(last, f, "string")
  BY KindFacts DEF Has
<1>9. \A f \in names \ {"target"} : Fits(base[f], "string")
  BY <1>2, <1>4, <1>5, KindFacts DEF Has
<1>10. /\ \A f \in names \ {"target"} : f \in DOMAIN TaskKinds /\ TaskKinds[f] = "string"
       /\ "requested_by" \in DOMAIN TaskKinds /\ TaskKinds["requested_by"] = "string"
       /\ "parameters" \in DOMAIN TaskKinds /\ TaskKinds["parameters"] = "object"
       /\ "finished_at" \in DOMAIN TaskKinds /\ TaskKinds["finished_at"] = "string"
  BY DEF TaskKinds
<1> HIDE DEF base, who, parameters, last, request
<1>11. /\ DOMAIN fields = names \cup DOMAIN who \cup DOMAIN parameters \cup DOMAIN last
       /\ \A f \in names : fields[f] = base[f]
       /\ \A f \in DOMAIN who : fields[f] = who[f]
       /\ \A f \in DOMAIN parameters : fields[f] = parameters[f]
       /\ \A f \in DOMAIN last : fields[f] = last[f]
  BY <1>3, <1>6, <1>7, <1>8 DEF Spread
<1>12. fields = [f \in DOMAIN fields |-> fields[f]]
  BY SpreadIsFunction
<1> HIDE DEF fields
<1>13. \A f \in DOMAIN fields \ {"target"} :
         f \in DOMAIN TaskKinds /\ Has(fields, f, TaskKinds[f])
  <2> SUFFICES ASSUME NEW f \in DOMAIN fields, f # "target"
               PROVE  f \in DOMAIN TaskKinds /\ Has(fields, f, TaskKinds[f])
    OBVIOUS
  <2>1. CASE f \in names
    BY <1>9, <1>10, <1>11, <2>1 DEF Has
  <2>2. CASE f \in DOMAIN who
    <3>1. f = "requested_by" /\ Has(who, f, "string")
      BY <1>6, <2>2
    <3> QED
      BY <1>10, <1>11, <2>2, <3>1 DEF Has
  <2>3. CASE f \in DOMAIN parameters
    <3>1. f = "parameters" /\ Has(parameters, f, "object")
      BY <1>7, <2>3
    <3> QED
      BY <1>10, <1>11, <2>3, <3>1 DEF Has
  <2>4. CASE f \in DOMAIN last
    <3>1. f = "finished_at" /\ Has(last, f, "string")
      BY <1>8, <2>4
    <3> QED
      BY <1>10, <1>11, <2>4, <3>1 DEF Has
  <2> QED
    BY <1>11, <2>1, <2>2, <2>3, <2>4
<1>14. task.of = fields
  BY <1>1, KindFacts
<1>15. /\ fields["task_type"].of \in TaskTypes
       /\ fields["engine_type"].of = EngineType[fields["task_type"].of]
       /\ fields["status"].of = status /\ fields["risk_level"].of = level
       /\ fields["target"] = request["target"]
  BY <1>2, <1>4, <1>11, KindFacts
<1> HIDE DEF task
<1> QED
  BY <1>1, <1>11, <1>12, <1>13, <1>14, <1>15 DEF task, request

(* Every task of an accepted request is taken and shown as it is.          *)
THEOREM AcceptedTasksAreReadable == TasksAreReadable
<1> SUFFICES ASSUME NEW body \in Accepted, NEW status \in TaskStatuses,
                    NEW level \in RiskLevels, NEW finished \in SUBSET {"finished_at"}
             PROVE  LET task == Task(normalizeCreateTaskRequest(body), Text("id"),
                                     Text("created"), status, level, Text("summary"),
                                     Text("updated"), finished)
                    IN  TaskReadable(task) /\ normalizeTask(task) = task
  BY DEF TasksAreReadable
<1> DEFINE request == normalizeCreateTaskRequest(body)
           task == Task(request, Text("id"), Text("created"), status, level, Text("summary"),
                        Text("updated"), finished)
           fields == task.of
<1>1. RequestAccepted(body)
  BY DEF Accepted
<1>2. /\ task = Object(fields) /\ fields = [f \in DOMAIN fields |-> fields[f]]
      /\ {"task_id", "task_type", "engine_type", "status", "title", "target",
          "created_at", "updated_at", "risk_level"} \subseteq DOMAIN fields
      /\ \A f \in DOMAIN fields \ {"target"} :
           f \in DOMAIN TaskKinds /\ Has(fields, f, TaskKinds[f])
      /\ fields["task_type"].of \in TaskTypes
      /\ fields["engine_type"].of = EngineType[fields["task_type"].of]
      /\ fields["status"].of = status /\ fields["risk_level"].of = level
      /\ fields["target"] = request["target"]
  BY <1>1, TaskFacts
<1>3. TargetAccepted(request) /\ normalizeTaskTarget(request["target"]) = request["target"]
  BY <1>1, RequestFacts
<1>4. "target" \notin DOMAIN TaskKinds /\ "result_ref" \notin DOMAIN TaskKinds
  BY DEF TaskKinds
<1>5. task.kind = "object"
  <2> HIDE DEF task
  <2> QED
    BY <1>2, KindFacts
<1> HIDE DEF request, task, fields
<1>6. TargetAccepted(fields)
  BY <1>2, <1>3 DEF TargetAccepted
<1>7. TaskReadable(task)
  BY <1>2, <1>5, <1>6 DEF TaskReadable, Shaped, fields
<1>8. normalizeTask(task) = task
  <2> DEFINE kept == Kept(fields, TaskKinds)
             box == [target |-> normalizeTaskTarget(fields["target"])]
             none == [f \in {g \in {"result_ref"} :
                               "result_ref" \in DOMAIN fields
                                 /\ Shaped(fields["result_ref"], ResultRefKinds,
                                           DOMAIN ResultRefKinds)} |->
                        Object(Kept(fields["result_ref"].of, ResultRefKinds))]
             copy == Spread(Spread(kept, box), none)
  <2>1. normalizeTask(task) = Object(copy)
    BY DEF normalizeTask, fields
  <2>2. DOMAIN none = {}
    BY <1>2, <1>4
  <2>3. DOMAIN box = {"target"} /\ box["target"] = fields["target"]
    BY <1>2, <1>3
  <2>4. /\ DOMAIN kept = DOMAIN fields \ {"target"}
        /\ \A f \in DOMAIN kept : kept[f] = fields[f]
    BY <1>2, <1>4 DEF Kept, Has
  <2> HIDE DEF none, box, kept
  <2>5. DOMAIN copy = DOMAIN fields /\ \A f \in DOMAIN fields : copy[f] = fields[f]
    BY <1>2, <2>2, <2>3, <2>4 DEF Spread
  <2>6. copy = [f \in DOMAIN copy |-> copy[f]]
    BY SpreadIsFunction
  <2> HIDE DEF copy
  <2>7. copy = fields
    BY <1>2, <2>5, <2>6, Extensionality
  <2> QED
    BY <1>2, <2>1, <2>7
<1> QED
  BY <1>7, <1>8 DEF task, request

---------------------------------------------------------------------------
(* The results of accepted outputs                                         *)

\* The step of a trace, normalised once more, is the same.
LEMMA StepTwice ==
    ASSUME NEW step
    PROVE  /\ normalizeTraceStep(step).kind = "object"
           /\ normalizeTraceStep(normalizeTraceStep(step)) = normalizeTraceStep(step)
  BY KindFacts, KeptTwice DEF normalizeTraceStep

\* What becomes of an accepted hit: HitFields alone are kept, and lines in order.
LEMMA RuleHitFacts ==
    ASSUME NEW hit, HitAccepted(hit)
    PROVE  LET fields == normalizeRuleHit(hit)
           IN  /\ fields = [f \in DOMAIN fields |-> fields[f]]
               /\ DOMAIN fields \subseteq HitFields
               /\ \A f \in DOMAIN fields \ {"trace"} : Has(fields, f, HitKinds[f])
               /\ HitRequired \subseteq DOMAIN fields
               /\ fields["severity"].of \in RiskLevels
               /\ LinesInOrder(fields)
               /\ "trace" \in DOMAIN fields =>
                    /\ Has(fields, "trace", "array")
                    /\ fields["trace"] = Value("array", [i \in DOMAIN fields["trace"].of |->
                                                           fields["trace"].of[i]])
                    /\ \A i \in DOMAIN fields["trace"].of :
                         /\ fields["trace"].of[i].kind = "object"
                         /\ normalizeTraceStep(fields["trace"].of[i]) = fields["trace"].of[i]
<1> DEFINE kept == Kept(hit.of, HitKinds)
           trace == [i \in Positions(hit.of, "trace") |->
                       normalizeTraceStep(hit.of["trace"].of[i])]
           box == [f \in {g \in {"trace"} : Has(hit.of, g, "array")} |->
                     Value("array", [i \in Positions(hit.of, f) |->
                                       normalizeTraceStep(hit.of[f].of[i])])]
           fields == Spread(kept, box)
<1>1. fields = normalizeRuleHit(hit)
  BY DEF normalizeRuleHit
<1>2. fields = [f \in DOMAIN fields |-> fields[f]]
  BY SpreadIsFunction
<1>3. /\ DOMAIN box \subseteq {"trace"}
      /\ "trace" \in DOMAIN box => box["trace"] = Value("array", trace)
  OBVIOUS
<1>4. /\ HitRequired \subseteq DOMAIN HitKinds /\ "trace" \notin DOMAIN HitKinds
      /\ "severity" \in HitRequired
      /\ {"line_start", "line_end"} \subseteq DOMAIN HitKinds
      /\ HitKinds["line_start"] = "number" /\ HitKinds["line_end"] = "number"
  BY DEF HitRequired, HitKinds
<1>5. \A f \in DOMAIN kept : /\ f \in DOMAIN HitKinds /\ Has(hit.of, f, HitKinds[f])
                            /\ kept[f] = hit.of[f]
  BY DEF Kept
<1>6. \A f \in DOMAIN HitKinds : Has(hit.of, f, HitKinds[f]) => f \in DOMAIN kept
  BY DEF Kept
<1> HIDE DEF box, trace, kept
<1>7. /\ DOMAIN fields = DOMAIN kept \cup DOMAIN box
      /\ \A f \in DOMAIN kept : fields[f] = hit.of[f]
      /\ \A f \in DOMAIN box : fields[f] = box[f]
  BY <1>3, <1>4, <1>5 DEF Spread
<1> HIDE DEF fields
<1>8. DOMAIN fields \subseteq HitFields
  BY <1>3, <1>5, <1>7 DEF HitFields
<1>9. \A f \in DOMAIN fields \ {"trace"} : Has(fields, f, HitKinds[f])
  BY <1>3, <1>5, <1>7 DEF Has
<1>10. HitRequired \subseteq DOMAIN fields /\ fields["severity"].of \in RiskLevels
  BY <1>4, <1>6, <1>7 DEF HitAccepted, Shaped
<1>11. LinesInOrder(fields)
  <2>1. CASE "line_start" \in DOMAIN hit.of
    <3>1. /\ Has(hit.of, "line_start", "number") /\ Has(hit.of, "line_end", "number")
          /\ ~(hit.of["line_start"].of > hit.of["line_end"].of)
      BY <2>1 DEF HitAccepted
    <3> QED
      BY <1>4, <1>6, <1>7, <3>1 DEF LinesInOrder
  <2>2. CASE "line_start" \notin DOMAIN hit.of
    <3>1. "line_end" \notin DOMAIN hit.of
      BY <2>2 DEF HitAccepted
    <3> QED
      <4>1. "line_start" \notin DOMAIN kept /\ "line_end" \notin DOMAIN kept
        BY <1>5, <2>2, <3>1 DEF Has
      <4>2. "line_start" \notin DOMAIN fields /\ "line_end" \notin DOMAIN fields
        BY <1>3, <1>7, <4>1
      <4> QED
        BY <4>2 DEF LinesInOrder
  <2> QED
    BY <2>1, <2>2
<1>12. ASSUME "trace" \in DOMAIN fields
       PROVE  /\ Has(fields, "trace", "array")
              /\ fields["trace"] = Value("array", [i \in DOMAIN fields["trace"].of |->
                                                     fields["trace"].of[i]])
              /\ \A i \in DOMAIN fields["trace"].of :
                   /\ fields["trace"].of[i].kind = "object"
                   /\ normalizeTraceStep(fields["trace"].of[i]) = fields["trace"].of[i]
  <2>1. fields["trace"] = Value("array", trace)
    BY <1>3, <1>4, <1>5, <1>7, <1>12
  <2>2. fields["trace"].of = trace /\ fields["trace"].kind = "array"
    BY <2>1, KindFacts
  <2>3. trace = [i \in DOMAIN trace |-> trace[i]]
    BY DEF trace
  <2>4. \A i \in DOMAIN trace :
          trace[i].kind = "object" /\ normalizeTraceStep(trace[i]) = trace[i]
    BY StepTwice DEF trace
  <2> QED
    BY <1>12, <2>1, <2>2, <2>3, <2>4 DEF Has, Fits
<1> QED
  BY <1>1, <1>2, <1>8, <1>9, <1>10, <1>11, <1>12 DEF fields

\* Nothing in a hit that is kept is forbidden.
LEMMA NothingForbidden ==
    ASSUME NEW hit, HitAccepted(hit)
    PROVE  LET fields == normalizeRuleHit(hit)
           IN  Without(fields, {f \in DOMAIN fields : isForbiddenEngineField(f)}) = fields
<1> DEFINE fields == normalizeRuleHit(hit)
<1>1. DOMAIN fields \subseteq HitFields /\ fields = [f \in DOMAIN fields |-> fields[f]]
  BY RuleHitFacts
<1>2. "risk_score" \notin HitFields
  BY DEF HitFields, HitKinds
<1> HIDE DEF fields
<1>3. \A f \in DOMAIN fields : ~isForbiddenEngineField(f)
  BY <1>1, <1>2, PrivateAssumption DEF isForbiddenEngineField
<1>4. DOMAIN fields \ {f \in DOMAIN fields : isForbiddenEngineField(f)} = DOMAIN fields
  BY <1>3
<1>5. Without(fields, {f \in DOMAIN fields : isForbiddenEngineField(f)})
        = [f \in DOMAIN fields |-> fields[f]]
  BY <1>4 DEF Without
<1> QED
  BY <1>1, <1>5 DEF fields

\* The console takes a hit that is stored, and loses no more than an empty trace.
LEMMA StoredHitFacts ==
    ASSUME NEW hit, HitAccepted(hit)
    PROVE  LET fields == normalizeRuleHit(hit)
           IN  /\ HitReadable(Object(fields))
               /\ normalizeSkillsStaticRuleHit(Object(fields)) = WithoutEmptyTrace(fields)
               /\ LinesInOrder(WithoutEmptyTrace(fields))
<1> DEFINE fields == normalizeRuleHit(hit)
           kept == Kept(fields, HitKinds)
           box == [f \in {g \in {"trace"} : Has(fields, g, "array") /\ Steps(fields[g]) # {}} |->
                     Value("array", [i \in Steps(fields[f]) |->
                                       normalizeTraceStep(fields[f].of[i])])]
           shown == Spread(kept, box)
           left == WithoutEmptyTrace(fields)
<1>1. /\ fields = [f \in DOMAIN fields |-> fields[f]]
      /\ DOMAIN fields \subseteq HitFields
      /\ \A f \in DOMAIN fields \ {"trace"} : Has(fields, f, HitKinds[f])
      /\ HitRequired \subseteq DOMAIN fields
      /\ fields["severity"].of \in RiskLevels
      /\ LinesInOrder(fields)
      /\ "trace" \in DOMAIN fields =>
           /\ Has(fields, "trace", "array")
           /\ fields["trace"] = Value("array", [i \in DOMAIN fields["trace"].of |->
                                                  fields["trace"].of[i]])
           /\ \A i \in DOMAIN fields["trace"].of :
                /\ fields["trace"].of[i].kind = "object"
                /\ normalizeTraceStep(fields["trace"].of[i]) = fields["trace"].of[i]
  BY RuleHitFacts
<1>2. /\ "trace" \notin DOMAIN HitKinds /\ HitFields = DOMAIN HitKinds \cup {"trace"}
      /\ "trace" \notin HitRequired
  BY DEF HitKinds, HitFields, HitRequired
<1>3. Object(fields).kind = "object" /\ Object(fields).of = fields
  BY KindFacts
<1>4. shown = normalizeSkillsStaticRuleHit(Object(fields))
  BY <1>3 DEF normalizeSkillsStaticRuleHit
<1> HIDE DEF fields
<1>5. HitReadable(Object(fields))
  BY <1>1, <1>2, <1>3 DEF HitReadable, Shaped
<1>6. /\ DOMAIN kept = DOMAIN fields \ {"trace"}
      /\ \A f \in DOMAIN kept : kept[f] = fields[f]
  BY <1>1, <1>2 DEF Kept, Has
<1>7. shown = [f \in DOMAIN shown |-> shown[f]]
  BY SpreadIsFunction
<1>8. left = [f \in DOMAIN left |-> left[f]]
  BY <1>1 DEF WithoutEmptyTrace, Without
<1>9. ASSUME "trace" \in DOMAIN fields
      PROVE  Steps(fields["trace"]) = Positions(fields, "trace")
  BY <1>1, <1>9 DEF Steps, Positions
<1>10. CASE "trace" \in DOMAIN fields /\ Positions(fields, "trace") # {}
  <2>1. DOMAIN box = {"trace"}
    BY <1>1, <1>9, <1>10
  <2>2. box["trace"] = Value("array", [i \in DOMAIN fields["trace"].of |->
                                         normalizeTraceStep(fields["trace"].of[i])])
    BY <1>9, <1>10, <2>1 DEF Positions
  <2>3. [i \in DOMAIN fields["trace"].of |-> normalizeTraceStep(fields["trace"].of[i])]
          = [i \in DOMAIN fields["trace"].of |-> fields["trace"].of[i]]
    BY <1>1, <1>10
  <2>4. box["trace"] = fields["trace"]
    BY <1>1, <1>10, <2>2, <2>3
  <2>5. left = fields
    BY <1>10 DEF WithoutEmptyTrace
  <2> HIDE DEF box, kept, left
  <2>6. DOMAIN shown = DOMAIN fields /\ \A f \in DOMAIN fields : shown[f] = fields[f]
    BY <1>6, <1>10, <2>1, <2>4 DEF Spread
  <2> HIDE DEF shown
  <2>7. shown = left
    BY <1>1, <1>7, <2>5, <2>6, Extensionality
  <2> QED
    BY <1>1, <1>4, <1>5, <2>5, <2>7 DEF left, fields
<1>11. CASE ~("trace" \in DOMAIN fields /\ Positions(fields, "trace") # {})
  <2>1. DOMAIN box = {}
    BY <1>9, <1>11 DEF Has
  <2>2. /\ DOMAIN left = DOMAIN fields \ {"trace"}
        /\ \A f \in DOMAIN left : left[f] = fields[f]
    BY <1>11 DEF WithoutEmptyTrace, Without
  <2>3. LinesInOrder(left)
    <3> HIDE DEF left
    <3> QED
      BY <1>1, <2>2 DEF LinesInOrder
  <2> HIDE DEF box, kept, left
  <2>4. DOMAIN shown = DOMAIN left /\ \A f \in DOMAIN left : shown[f] = left[f]
    BY <1>6, <2>1, <2>2 DEF Spread
  <2> HIDE DEF shown
  <2>5. shown = left
    BY <1>7, <1>8, <2>4, Extensionality
  <2> QED
    BY <1>4, <1>5, <2>3, <2>5 DEF left, fields
<1> QED
  BY <1>10, <1>11

\* The fields of the details that are stored.
LEMMA StoredDetails ==
    ASSUME NEW output, OutputAccepted(output), NEW value,
           Shaped(value, TargetKinds, {"target_type", "target_value"}),
           NEW order \in Orders(output.of["rule_hits"].of)
    PROVE  LET details == normalizeSkillsStaticEngineOutput(
                            output.of, normalizeTaskTarget(value).of, order)
               hits == output.of["rule_hits"].of
           IN  /\ details = [f \in DOMAIN details |-> details[f]]
               /\ DOMAIN details = {"language", "entry_files", "files_scanned", "sample_name",
                                    "sensitive_capabilities", "rule_hits", "dependency_summary"}
               /\ \A f \in DOMAIN details \ {"rule_hits"} : Has(details, f, DetailKinds[f])
               /\ details["rule_hits"].kind = "array"
               /\ DOMAIN details["rule_hits"].of = DOMAIN hits
               /\ \A i \in DOMAIN hits : order[i] \in DOMAIN hits
               /\ \A i \in DOMAIN hits :
                    details["rule_hits"].of[i] = Object(normalizeRuleHit(hits[order[i]]))
<1> DEFINE target == normalizeTaskTarget(value).of
           hits == output.of["rule_hits"].of
           copied == {"language", "entry_files", "files_scanned", "sensitive_capabilities"}
           same == Only(output.of, copied)
           stored == [i \in Positions(output.of, "rule_hits") |->
             LET hit == normalizeRuleHit(output.of["rule_hits"].of[order[i]])
             IN  Object(Without(hit, {f \in DOMAIN hit : isForbiddenEngineField(f)}))]
           summary == LET kept == output.of["dependency_summary"].of
                      IN  Object(Without(kept, {f \in DOMAIN kept : isForbiddenEngineField(f)}))
           made == [sample_name |-> SampleName(output.of, target),
                    rule_hits |-> Value("array", stored),
                    dependency_summary |-> summary]
           details == Spread(same, made)
<1>1. details = normalizeSkillsStaticEngineOutput(output.of, target, order)
  BY DEF normalizeSkillsStaticEngineOutput
<1>2. DOMAIN made = {"sample_name", "rule_hits", "dependency_summary"}
  OBVIOUS
<1>3. /\ made["sample_name"] = SampleName(output.of, target)
      /\ made["rule_hits"] = Value("array", stored)
      /\ made["dependency_summary"] = summary
  OBVIOUS
<1>4. /\ DOMAIN OutputKinds = copied \cup {"rule_hits", "dependency_summary"}
      /\ \A f \in copied : f \in DOMAIN DetailKinds /\ DetailKinds[f] = OutputKinds[f]
      /\ DetailKinds["sample_name"] = "string"
      /\ DetailKinds["dependency_summary"] = "object"
  BY DEF OutputKinds, DetailKinds
<1>5. /\ \A f \in copied : Has(output.of, f, OutputKinds[f])
      /\ \A i \in DOMAIN hits : HitAccepted(hits[i])
  BY <1>4 DEF OutputAccepted, Shaped, Positions
<1>6. DOMAIN same = copied /\ \A f \in copied : same[f] = output.of[f]
  BY <1>5 DEF Only, Has
<1>7. Fits(SampleName(output.of, target), "string")
  <2>1. /\ "target_value" \in DOMAIN TargetKinds /\ "display_name" \in DOMAIN TargetKinds
        /\ TargetKinds["target_value"] = "string" /\ TargetKinds["display_name"] = "string"
    BY DEF TargetKinds
  <2>2. target = Kept(value.of, TargetKinds)
    BY TargetFacts, KindFacts
  <2>3. /\ "target_value" \in DOMAIN target /\ Fits(target["target_value"], "string")
        /\ "display_name" \in DOMAIN target => Fits(target["display_name"], "string")
    BY <2>1, <2>2 DEF Kept, Shaped, Has
  <2> QED
    BY <2>3 DEF SampleName, Has
<1>8. Fits(summary, "object")
  BY KindFacts
<1>9. \A i \in DOMAIN hits : order[i] \in DOMAIN hits
  BY DEF Orders
<1>10. DOMAIN stored = DOMAIN hits
  BY DEF Positions
<1>11. ASSUME NEW i \in DOMAIN hits
       PROVE  stored[i] = Object(normalizeRuleHit(hits[order[i]]))
  <2>1. HitAccepted(hits[order[i]])
    BY <1>5, <1>9
  <2>2. stored[i] = LET hit == normalizeRuleHit(hits[order[i]])
                    IN  Object(Without(hit, {f \in DOMAIN hit : isForbiddenEngineField(f)}))
    BY DEF Positions
  <2> QED
    BY <2>1, <2>2, NothingForbidden
<1>12. Value("array", stored).kind = "array" /\ Value("array", stored).of = stored
  BY KindFacts
<1> HIDE DEF same, made, stored, summary
<1>13. /\ DOMAIN details = copied \cup {"sample_name", "rule_hits", "dependency_summary"}
       /\ \A f \in copied : details[f] = output.of[f]
       /\ \A f \in {"sample_name", "rule_hits", "dependency_summary"} : details[f] = made[f]
  BY <1>2, <1>6 DEF Spread
<1>14. details = [f \in DOMAIN details |-> details[f]]
  BY SpreadIsFunction
<1> HIDE DEF details
<1>15. \A f \in DOMAIN details \ {"rule_hits"} : Has(details, f, DetailKinds[f])
  <2>1. \A f \in copied : Has(details, f, DetailKinds[f])
    BY <1>4, <1>5, <1>13 DEF Has
  <2>2. Has(details, "sample_name", DetailKinds["sample_name"])
    BY <1>3, <1>4, <1>7, <1>13 DEF Has
  <2>3. Has(details, "dependency_summary", DetailKinds["dependency_summary"])
    BY <1>3, <1>4, <1>8, <1>13 DEF Has
  <2> QED
    BY <1>13, <2>1, <2>2, <2>3
<1>16. details["rule_hits"] = Value("array", stored)
  BY <1>3, <1>13
<1> QED
  BY <1>1, <1>9, <1>10, <1>11, <1>12, <1>13, <1>14, <1>15, <1>16

(* Every output that is accepted becomes a result the console takes, with  *)
(* all its hits.                                                           *)
THEOREM AcceptedOutputsAreReadable == ResultsAreReadable
<1> SUFFICES ASSUME NEW output \in Outputs, NEW target \in {body.of.target : body \in Accepted},
                    NEW level \in RiskLevels, OutputAccepted(output),
                    NEW order \in Orders(output.of["rule_hits"].of)
             PROVE  LET details == normalizeSkillsStaticEngineOutput(
                                     output.of, normalizeTaskTarget(target).of, order)
                        shown == normalizeStaticAnalysisDetails(details)
                    IN  /\ StaticResultReadable(StaticResult(details, level))
                        /\ DOMAIN shown = DOMAIN details
                        /\ \A f \in DOMAIN details \ {"rule_hits"} : shown[f] = details[f]
                        /\ \A i \in Positions(output.of, "rule_hits") :
                             shown["rule_hits"].of[i].of
                               = WithoutEmptyTrace(details["rule_hits"].of[i].of)
  BY DEF ResultsAreReadable
<1> DEFINE details == normalizeSkillsStaticEngineOutput(
                        output.of, normalizeTaskTarget(target).of, order)
           hits == output.of["rule_hits"].of
           fields(i) == normalizeRuleHit(hits[order[i]])
           kept == Kept(details, DetailKinds)
           box == [f \in {g \in {"rule_hits"} : Has(details, g, "array")} |->
                     Value("array", [i \in Positions(details, f) |->
                              Object(normalizeSkillsStaticRuleHit(details[f].of[i]))])]
           shownHits == [i \in DOMAIN hits |->
                           Object(normalizeSkillsStaticRuleHit(details["rule_hits"].of[i]))]
           shown == Spread(kept, box)
<1>1. Shaped(target, TargetKinds, {"target_type", "target_value"})
  BY DEF Accepted, RequestAccepted, TargetAccepted
<1>2. /\ details = [f \in DOMAIN details |-> details[f]]
      /\ DOMAIN details = {"language", "entry_files", "files_scanned", "sample_name",
                           "sensitive_capabilities", "rule_hits", "dependency_summary"}
      /\ \A f \in DOMAIN details \ {"rule_hits"} : Has(details, f, DetailKinds[f])
      /\ details["rule_hits"].kind = "array"
      /\ DOMAIN details["rule_hits"].of = DOMAIN hits
      /\ \A i \in DOMAIN hits : order[i] \in DOMAIN hits
      /\ \A i \in DOMAIN hits : details["rule_hits"].of[i] = Object(fields(i))
  BY <1>1, StoredDetails
<1>3. shown = normalizeStaticAnalysisDetails(details)
  BY DEF normalizeStaticAnalysisDetails
<1> HIDE DEF details
<1>4. \A i \in DOMAIN hits : HitAccepted(hits[order[i]])
  BY <1>2 DEF OutputAccepted, Positions
<1>5. ASSUME NEW i \in DOMAIN hits
      PROVE  /\ HitReadable(details["rule_hits"].of[i])
             /\ details["rule_hits"].of[i].of = fields(i)
             /\ normalizeSkillsStaticRuleHit(details["rule_hits"].of[i])
                  = WithoutEmptyTrace(fields(i))
             /\ LinesInOrder(WithoutEmptyTrace(fields(i)))
  <2>1. details["rule_hits"].of[i] = Object(fields(i))
    BY <1>2
  <2>2. HitAccepted(hits[order[i]])
    BY <1>4
  <2>3. /\ HitReadable(Object(fields(i)))
        /\ normalizeSkillsStaticRuleHit(Object(fields(i))) = WithoutEmptyTrace(fields(i))
        /\ LinesInOrder(WithoutEmptyTrace(fields(i)))
    BY <2>2, StoredHitFacts
  <2>4. Object(fields(i)).of = fields(i)
    BY KindFacts
  <2> QED
    BY <2>1, <2>3, <2>4
<1>6. DOMAIN box = {"rule_hits"} /\ box["rule_hits"] = Value("array", shownHits)
  BY <1>2 DEF Has, Fits, Positions
<1>7. DOMAIN DetailKinds = DOMAIN details \ {"rule_hits"}
  BY <1>2 DEF DetailKinds
<1>8. /\ DOMAIN kept = DOMAIN details \ {"rule_hits"}
      /\ \A f \in DOMAIN kept : kept[f] = details[f]
  BY <1>2, <1>7 DEF Kept
<1>9. \A i \in DOMAIN hits : shownHits[i] = Object(WithoutEmptyTrace(fields(i)))
  BY <1>5
<1>10. DOMAIN shownHits = DOMAIN hits
  OBVIOUS
<1> HIDE DEF box, kept, shownHits, fields
<1>11. /\ DOMAIN shown = DOMAIN details
       /\ \A f \in DOMAIN details \ {"rule_hits"} : shown[f] = details[f]
       /\ shown["rule_hits"] = Value("array", shownHits)
  BY <1>2, <1>6, <1>8 DEF Spread
<1> HIDE DEF shown
<1>12. shown["rule_hits"].of = shownHits
  BY <1>11, KindFacts
<1>13. \A i \in DOMAIN hits : shown["rule_hits"].of[i].of
                                = WithoutEmptyTrace(details["rule_hits"].of[i].of)
  BY <1>5, <1>9, <1>12, KindFacts
<1>14. satisfiesFinishedStaticAnalysisContract(shown)
  <2>1. \A i \in DOMAIN hits : LinesInOrder(shown["rule_hits"].of[i].of)
    BY <1>5, <1>13
  <2> QED
    BY <1>2, <1>10, <1>11, <1>12, <2>1
       DEF satisfiesFinishedStaticAnalysisContract, Positions
<1>15. StaticDetailsReadable(details)
  BY <1>2, <1>5 DEF StaticDetailsReadable, Positions
<1>16. StaticResultReadable(StaticResult(details, level))
  <2> DEFINE record == [task_id |-> Text("id"), task_type |-> Text("static_analysis"),
                        engine_type |-> Text("skills_static"), status |-> Text("finished"),
                        risk_level |-> Text(level), summary |-> Text("summary"),
                        details |-> Object(details),
                        created_at |-> Text("created"), updated_at |-> Text("updated")]
             value == StaticResult(details, level)
  <2>1. value = Object(record)
    BY DEF StaticResult
  <2>2. value.kind = "object" /\ value.of = record
    BY <2>1, KindFacts
  <2>3. /\ DOMAIN ResultKinds \subseteq DOMAIN record
        /\ \A f \in DOMAIN ResultKinds : ResultKinds[f] = "string"
    BY DEF ResultKinds
  <2>4. \A f \in DOMAIN ResultKinds : Fits(record[f], "string")
    BY KindFacts DEF ResultKinds
  <2>5. Shaped(value, ResultKinds, DOMAIN ResultKinds)
    <3> HIDE DEF record, value
    <3> QED
      BY <2>2, <2>3, <2>4 DEF Shaped, Has
  <2>6. /\ record["task_type"].of = "static_analysis"
        /\ record["engine_type"].of = "skills_static"
        /\ record["status"].of = "finished" /\ record["risk_level"].of = level
        /\ "details" \in DOMAIN record /\ record["details"] = Object(details)
    BY KindFacts
  <2>7. EngineType["static_analysis"] = "skills_static" /\ "finished" \in TaskStatuses
    BY DEF EngineType, TaskStatuses
  <2>8. Has(record, "details", "object") /\ record["details"].of = details
    BY <2>6, KindFacts DEF Has
  <2> HIDE DEF record, value
  <2>9. StaticResultReadable(value)
    BY <1>3, <1>14, <1>15, <2>2, <2>5, <2>6, <2>7, <2>8 DEF StaticResultReadable
  <2> QED
    BY <2>9 DEF value
<1>17. Positions(output.of, "rule_hits") = DOMAIN hits
  BY DEF Positions
<1> QED
  BY <1>3, <1>11, <1>13, <1>16, <1>17 DEF details

(* What the backend lets pass, the console can show, whatever clients and  *)
(* engines send.                                                           *)
THEOREM PayloadsMatch == ConsoleReadsTheBackend
  BY AcceptedTasksAreReadable, ContextsAreShown, AcceptedOutputsAreReadable
     DEF ConsoleReadsTheBackend
===========================================================================
