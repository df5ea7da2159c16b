--------------------------- MODULE Classification ---------------------------
(***************************************************************************)
(* What the asset-scan pipeline concludes from the features it collected:  *)
(* fingerprints by weighted signals (asset-fingerprint.service.ts), then   *)
(* findings by the rules of risk-rules.v1.yaml, their composite scores and *)
(* the aggregates of the report (classification.service.ts).               *)
(*                                                                         *)
(* Fractions are in hundredths.  A feature is a record of a type, an       *)
(* abstract value and the place it comes from (`from`, which the code does *)
(* not keep: it makes two equal entries of the code's list two elements    *)
(* here).  A value is what the rules and signals tell apart: a port, a     *)
(* path, the name of a JSON key, the severity of a vulnerability, or what  *)
(* a text contains.                                                        *)
(***************************************************************************)
EXTENDS Integers, FiniteSets, Sequences, FiniteSetsExt, SequencesExt

CONSTANT Fingerprints  \* the catalogue, in its order: see FingerprintType

Category == {"llm_api", "agent_framework", "agent_application", "agent_gateway",
             "mcp_server", "web_framework", "middleware", "cloud_service"}

\* A signal matches a feature of its type with one of its values: the operators
\* equals, contains, has_key, regex and in differ in the set of values only.
FingerprintType(f) == /\ f.category \in Category
                      /\ f.signals \in Seq(Range(f.signals))
                      /\ \A i \in 1..Len(f.signals) : f.signals[i].weight \in Int

ASSUME FingerprintsAssumption ==
  /\ Fingerprints \in Seq(Range(Fingerprints))
  /\ \A i \in 1..Len(Fingerprints) : FingerprintType(Fingerprints[i])

-----------------------------------------------------------------------------
(* Fingerprints.                                                           *)

SuspectedThreshold == 70

IsSignalMatch(signal, feature) ==
  signal.type = feature.type /\ feature.value \in signal.values

\* features.find: a signal counts once, however many features match it.
IsFound(signal, features) == \E feature \in features : IsSignalMatch(signal, feature)

Clamp(n) == IF n < 0 THEN 0 ELSE IF n > 100 THEN 100 ELSE n

\* The sum of a list of numbers.
Total(numbers) ==
  LET total[n \in 0..Len(numbers)] == IF n = 0 THEN 0 ELSE total[n - 1] + numbers[n]
  IN  total[Len(numbers)]

\* Mutant: features.filter, so that each matching feature adds the weight.
ConfidenceOfEveryFeature(f, features) ==
  Clamp(Total([n \in 1..Len(f.signals) |->
    f.signals[n].weight
      * Cardinality({e \in features : IsSignalMatch(f.signals[n], e)})]))

Confidence(f, features) ==
  Clamp(Total([n \in 1..Len(f.signals) |->
    IF IsFound(f.signals[n], features) THEN f.signals[n].weight ELSE 0]))

\* The fingerprints that match, each with its confidence.
Matches(features) ==
  {m \in {[fingerprint |-> i, confidence |-> Confidence(Fingerprints[i], features)] :
            i \in 1..Len(Fingerprints)} : m.confidence >= SuspectedThreshold}

\* The category of the most confident match; the sort is stable, so the catalogue
\* breaks ties.
NoCategory == "none"
TopCategory(matches) ==
  IF matches = {} THEN NoCategory
  ELSE LET top == CHOOSE m \in matches : \A other \in matches :
                    \/ m.confidence > other.confidence
                    \/ /\ m.confidence = other.confidence
                       /\ m.fingerprint <= other.fingerprint
       IN  Fingerprints[top.fingerprint].category

-----------------------------------------------------------------------------
(* The rules.                                                              *)

\* A pattern of a rule; no values stands for a pattern without a constraint.
Pattern(type, values) == [type |-> type, values |-> values]

NoConditions == [categories |-> {}, unauthenticated |-> FALSE, sensitive |-> FALSE,
                 patterns |-> {}, plaintext |-> FALSE]

Rule(conditions, level, exposure, exploitability, gap) ==
  [conditions |-> conditions, level |-> level, exposure |-> exposure,
   exploitability |-> exploitability, gap |-> gap]

OfCategory(categories) ==
  [NoConditions EXCEPT !.categories = categories, !.unauthenticated = TRUE]
WithFeature(patterns) == [NoConditions EXCEPT !.patterns = patterns]
PlaintextApi      == [NoConditions EXCEPT !.plaintext = TRUE]
SensitiveEndpoint == [NoConditions EXCEPT !.unauthenticated = TRUE, !.sensitive = TRUE]

\* The exploitability of a status (exploitabilityToScore).
Deterministic == 100
Reproducible  == 75
Plausible     == 50
Theoretical   == 25

RiskRules == [
  exposed_api_critical |->
    Rule(OfCategory({"llm_api"}), "critical", 100, Reproducible, 100),
  exposed_api_high |->
    Rule(OfCategory({"agent_framework", "agent_application", "mcp_server",
                     "agent_gateway"}), "high", 75, Plausible, 75),
  info_leak_version |->
    Rule(WithFeature({Pattern("http_header", {"Server version"}),
                      Pattern("http_header", {"X-Powered-By"})}),
         "low", 50, Theoretical, 50),
  info_leak_debug |->
    Rule(WithFeature({Pattern("http_body", {"debug"}), Pattern("error_message", {})}),
         "medium", 75, Plausible, 75),
  misconfiguration_cors |->
    Rule(WithFeature({Pattern("http_header", {"CORS *"})}), "medium", 75, Plausible, 50),
  misconfiguration_http_sensitive |->
    Rule(PlaintextApi, "medium", 75, Plausible, 50),
  weak_auth_basic |->
    Rule(WithFeature({Pattern("http_header", {"Basic"})}), "medium", 50, Plausible, 50),
  unauthorized_sensitive_endpoint |->
    Rule(SensitiveEndpoint, "high", 75, Reproducible, 100),
  cve_critical |->
    Rule(WithFeature({Pattern("cve_vulnerability", {"CRITICAL"})}),
         "critical", 75, Reproducible, 100),
  cve_high |->
    Rule(WithFeature({Pattern("cve_vulnerability", {"HIGH"})}),
         "high", 50, Plausible, 75),
  secret_api_key |->
    Rule(WithFeature({Pattern("secret_leak", {"telling"})}),
         "critical", 100, Deterministic, 100),
  secret_generic |->
    Rule(WithFeature({Pattern("secret_leak", {})}), "high", 75, Plausible, 75)]

\* Paths of the probe catalogue that contain a sensitive path of the rule, and
\* those that contain /api/, /v1/ or /v2/.
SensitivePaths == {"/api/tags", "/api/v1/flows", "/api/agent/status"}
ApiPaths       == {"/api/tags", "/api/v1/flows", "/api/agent/status"}

AuthRequired(endpoint) == endpoint.status \in {401, 403}

MatchFeaturePatterns(patterns, features) ==
  \E pattern \in patterns, feature \in features :
    /\ feature.type = pattern.type
    /\ pattern.values = {} \/ feature.value \in pattern.values

\* `top` is the category of the top match, `protocols` those of the open ports.
MatchRule(rule, top, features, endpoints, protocols) ==
  LET c == rule.conditions
      unauthenticated == {e \in endpoints : ~AuthRequired(e)}
  IN  /\ c.categories # {} => top \in c.categories
      /\ c.unauthenticated =>
           \E e \in unauthenticated : c.sensitive => e.path \in SensitivePaths
      /\ c.patterns # {} => MatchFeaturePatterns(c.patterns, features)
      /\ c.plaintext => /\ "http" \in protocols
                        /\ \E e \in endpoints : e.path \in ApiPaths

-----------------------------------------------------------------------------
(* Scores.                                                                 *)

\* The score of the permission an attacker of a category ends with (0 to 10).
PrivilegeScore(category) ==
  IF category \in {"llm_api", "cloud_service"} THEN 9
  ELSE IF category \in {"agent_framework", "agent_gateway"} THEN 8
  ELSE IF category \in {"agent_application", "mcp_server"} THEN 7
  ELSE IF category \in {"web_framework", "middleware"} THEN 6
  ELSE 0

PathReachability == 50

\* 100 times the weighted sum, in hundredths.
WeightedSum(exposure, exploitability, privilege, gap) ==
  20 * exposure + 25 * exploitability + 30 * (10 * privilege)
    + 15 * PathReachability + 10 * gap

\* Math.round of doubles.  A sum that ends in a half is rounded up, but for two
\* of them, where the sum of the doubles falls just short of the half.
FallsShort == {8650, 8950}
Rounded(sum) == IF sum \in FallsShort THEN sum \div 100 ELSE (sum + 50) \div 100

CompositeScore(rule, privilege) ==
  Clamp(Rounded(WeightedSum(rule.exposure, rule.exploitability, privilege, rule.gap)))

\* Mutant: thresholds that a score must exceed.
ExceededRiskLevel(score) == IF score > 75 THEN "critical"
                            ELSE IF score > 50 THEN "high"
                            ELSE IF score > 25 THEN "medium"
                            ELSE "low"

ScoreToRiskLevel(score) == IF score >= 75 THEN "critical"
                           ELSE IF score >= 50 THEN "high"
                           ELSE IF score >= 25 THEN "medium"
                           ELSE "low"

\* Every finding of a rule has the privilege of the top match.
BuildFinding(id, privilege) ==
  [by |-> id, level |-> RiskRules[id].level, privilege |-> privilege,
   score |-> CompositeScore(RiskRules[id], privilege)]

EvaluateRiskRules(top, features, endpoints, protocols) ==
  {BuildFinding(id, PrivilegeScore(top)) :
     id \in {r \in DOMAIN RiskRules :
               MatchRule(RiskRules[r], top, features, endpoints, protocols)}}

\* Mutant: the score of some finding, not the highest.
AnyRiskScore(findings) == IF findings = {} THEN 0 ELSE (CHOOSE f \in findings : TRUE).score

OverallRiskScore(findings) == Max({0} \cup {f.score : f \in findings})

NoPrivilege == -1
\* The highest of the findings; without findings, that of the top match.
DeriveMaxPrivilege(top, findings) ==
  IF findings # {} THEN Max({f.privilege : f \in findings})
  ELSE IF top # NoCategory THEN PrivilegeScore(top)
  ELSE NoPrivilege
=============================================================================
