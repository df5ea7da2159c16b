---------------------------- MODULE ScanPipeline ----------------------------
(***************************************************************************)
(* One run of AssetScanPipeline: discovery, the port scan (all ports at    *)
(* once), protocol identification (port after port), the probes (probe     *)
(* after probe), the file scanners (all at once) and the report.           *)
(*                                                                         *)
(* What the peer answers is chosen anew at every attempt, so a peer may    *)
(* stop, start or change between two phases.  A timer is an outcome of the *)
(* attempt that it bounds; fairness is assumed of what a timer bounds and  *)
(* of peers that finish what they send.  A peer of EndlessPorts may keep   *)
(* sending for ever: it keeps an idle timer from firing, and a body that   *)
(* is read without a timer from ending.                                    *)
(***************************************************************************)
EXTENDS Classification

CONSTANTS
  Ports,          \* the candidate ports, normalised and sorted; strings
  HintedPort,     \* the port of the target URL
  HintedProtocol, \* its scheme
  Probes,         \* the enabled probes of the catalogue, in its order
  Scanners,       \* the file scanners of the injected runner
  EndlessPorts,   \* ports whose peer may send without an end
  MaxReported     \* bound: how many kinds of finding a scanner reports in one run

ASSUME PipelineAssumption ==
  /\ Ports \in Seq(Range(Ports)) /\ IsInjective(Ports)
  /\ Probes \in Seq(Range(Probes)) /\ Probes # <<>>
  /\ HintedProtocol \in {"http", "https"}
  /\ Scanners \subseteq {"gitleaks", "trivy"}
  /\ EndlessPorts \subseteq Range(Ports)
  /\ MaxReported \in Nat

VARIABLES
  phase,      \* the await that run() is suspended at
  socket,     \* the status of each candidate port
  protocols,  \* of the ports identified so far
  attempt,    \* identification: "tls" or "http"
  cursor,     \* the loop over ports, then over ports and probes; 0 at its end
  answering,  \* the status of the answer whose body is read, or NoStatus
  features, endpoints,
  scanner,    \* the state of each file scanner
  leaks,      \* what the scanners found
  report

vars == <<phase, socket, protocols, attempt, cursor, answering, features, endpoints,
          scanner, leaks, report>>

NoStatus == 0
NoReport == [ports |-> {}]
Ended    == phase \in {"returned", "thrown"}
Open     == {p \in Range(Ports) : socket[p] = "open"}

\* The least index of a loop that comes after n, or 0.
After(indices, n) == LET later == {m \in indices : m > n}
                     IN  IF later = {} THEN 0 ELSE Min(later)

\* The turns of the two loops: open ports, and open ports with the probes on them.
PortTurns == {n \in 1..Len(Ports) : socket[Ports[n]] = "open"}

PortAt(n)  == Ports[((n - 1) \div Len(Probes)) + 1]
ProbeAt(n) == Probes[((n - 1) % Len(Probes)) + 1]
\* Mutant: every probe on every open port.
EveryProbeTurn == {n \in 1..(Len(Ports) * Len(Probes)) : PortAt(n) \in Open}

ProbeTurns == {n \in 1..(Len(Ports) * Len(Probes)) :
                 PortAt(n) \in Open /\ PortAt(n) \in ProbeAt(n).ports}

Init ==
  /\ phase = "discovering"
  /\ socket = [p \in Range(Ports) |-> "connecting"]
  /\ protocols = <<>>
  /\ attempt = "tls"
  /\ cursor = 0
  /\ answering = NoStatus
  /\ features = {} /\ endpoints = {}
  /\ scanner = [s \in Scanners |-> "idle"]
  /\ leaks = {}
  /\ report = NoReport

-----------------------------------------------------------------------------
(* Discovery and the port scan.                                            *)

\* new URL throws, or no address was found for any seed.
Throw == /\ phase = "discovering"
         /\ phase' = "thrown"
         /\ UNCHANGED <<socket, protocols, attempt, cursor, answering, features,
                        endpoints, scanner, leaks, report>>

\* An address was found (which one is abstracted); all sockets start to connect.
SelectAsset == /\ phase = "discovering"
               /\ phase' = "scanning"
               /\ UNCHANGED <<socket, protocols, attempt, cursor, answering, features,
                              endpoints, scanner, leaks, report>>

\* The first event of a socket: connect, ECONNREFUSED, or (another error, or the
\* timer) filtered.
Finalize(p, status) ==
  /\ phase = "scanning"
  /\ socket[p] = "connecting"
  /\ socket' = [socket EXCEPT ![p] = status]
  /\ UNCHANGED <<phase, protocols, attempt, cursor, answering, features, endpoints,
                 scanner, leaks, report>>

Connect(p)        == Finalize(p, "open")
Refuse(p)         == Finalize(p, "closed")
ConnectTimeout(p) == Finalize(p, "filtered")

PortScanEnds ==
  /\ phase = "scanning"
  /\ \A p \in Range(Ports) : socket[p] # "connecting"
  /\ phase' = "identifying"
  /\ cursor' = After(PortTurns, 0)
  /\ UNCHANGED <<socket, protocols, attempt, answering, features, endpoints, scanner,
                 leaks, report>>

-----------------------------------------------------------------------------
(* Protocol identification: TLS, then a HEAD request, then a guess.        *)

Identified(protocol, service) ==
  /\ protocols' = [p \in DOMAIN protocols \cup {Ports[cursor]} |->
                     IF p = Ports[cursor]
                     THEN [protocol |-> protocol, service |-> service]
                     ELSE protocols[p]]
  /\ attempt' = "tls"
  /\ cursor' = After(PortTurns, cursor)
  /\ UNCHANGED <<phase, socket, answering, features, endpoints, scanner, leaks, report>>

Inspecting == phase = "identifying" /\ cursor # 0

\* secureConnect, or the response to HEAD; the peer may tell what it is.
PeerIdentifies ==
  /\ Inspecting
  /\ \E service \in {"unknown", "named"} :
       Identified(IF attempt = "tls" THEN "https" ELSE "http", service)

\* An error, or the idle timer.
TlsFails ==
  /\ Inspecting /\ attempt = "tls"
  /\ attempt' = "http"
  /\ UNCHANGED <<phase, socket, protocols, cursor, answering, features, endpoints,
                 scanner, leaks, report>>

HeadFails ==
  /\ Inspecting /\ attempt = "http"
  /\ Identified(IF Ports[cursor] = "50051" THEN "grpc" ELSE "tcp", "unknown")

\* Mutant: the hint is used only when a service was named.
NormalizedIfNamed(p) ==
  IF p = HintedPort /\ protocols[p].protocol = "tcp" /\ protocols[p].service # "unknown"
  THEN [protocol |-> HintedProtocol, service |-> protocols[p].service]
  ELSE protocols[p]

\* A hinted port that only looks like TCP is taken for what the URL says.
Normalized(p) ==
  IF p = HintedPort /\ protocols[p].protocol = "tcp"
  THEN [protocol |-> HintedProtocol,
        service  |-> IF protocols[p].service = "unknown" THEN HintedProtocol
                     ELSE protocols[p].service]
  ELSE protocols[p]

IdentificationEnds ==
  /\ phase = "identifying" /\ cursor = 0
  /\ protocols' = [p \in DOMAIN protocols |-> Normalized(p)]
  /\ cursor' = After(ProbeTurns, 0)
  /\ phase' = "probing"
  /\ UNCHANGED <<socket, attempt, answering, features, endpoints, scanner, leaks, report>>

-----------------------------------------------------------------------------
(* The probes.                                                             *)

Feature(type, value, from) == [type |-> type, value |-> value, from |-> from]

Port  == PortAt(cursor)
Probe == ProbeAt(cursor)
Probing(kind) == phase = "probing" /\ cursor # 0 /\ Probe.protocol = kind
Web == protocols[Port].protocol \in {"http", "https"}

\* The next probe; a result without features is no match.
Matched(found, reached) ==
  /\ cursor' = After(ProbeTurns, cursor)
  /\ answering' = NoStatus
  /\ features' = features \cup found
  /\ endpoints' = IF found = {} THEN endpoints ELSE endpoints \cup reached
  /\ UNCHANGED <<phase, socket, protocols, attempt, scanner, leaks, report>>

\* extractFeaturesFromPayload: the keys or words seen in the payload, the status if
\* it is 200, and the path of the request, whatever the status of the answer.
Extracted(status, seen) ==
  LET from  == <<Port, Probe.id>>
      fixed == {Feature("http_status", "200", from),
                Feature("api_path", Probe.path, from)}
  IN  {Feature(Probe.content, v, from) : v \in seen} \cup
      {f \in fixed : /\ f.type \in Probe.extracts
                     /\ f.type = "http_status" => status = 200}

\* No handler, or one that declines the protocol of the port; TCP needs no request.
ProbeDeclines == /\ Probing("http") \/ Probing("ws")
                 /\ ~Web
                 /\ Matched({}, {})

TcpProbe ==
  /\ Probing("tcp")
  /\ Matched({Feature("open_port", Port, <<Port, Probe.id>>)}, {})

\* Mutant: fetch without the abort timer and without a connection error.
HttpProbeFailsInBody == /\ Probing("http") /\ answering # NoStatus
                        /\ Matched({}, {})

\* fetch rejects, or is aborted by the timer; or the body breaks off.
HttpProbeFails == /\ Probing("http") /\ Web
                  /\ Matched({}, {})

Answered(status, seen) ==
  Matched(Extracted(status, seen),
          {[port |-> Port, path |-> Probe.path, status |-> status]})

\* Headers arrive: the timer is cleared, and a GET goes on to read the body.
HttpHeaders(status) ==
  /\ Probing("http") /\ Web /\ answering = NoStatus
  /\ IF Probe.head
     THEN Answered(status, {})
     ELSE /\ answering' = status
          /\ UNCHANGED <<phase, socket, protocols, attempt, cursor, features, endpoints,
                         scanner, leaks, report>>

HttpBody == /\ Probing("http") /\ answering # NoStatus
            /\ \E seen \in SUBSET Probe.sees : Answered(answering, seen)

\* A message; or an error, or the timer.  A match of this handler has no endpoint.
WsMessage == /\ Probing("ws") /\ Web
             /\ \E seen \in SUBSET Probe.sees : Matched(Extracted(101, seen), {})
WsFails   == /\ Probing("ws") /\ Web
             /\ Matched({}, {})

\* The pipeline adds each open port once more; the scanners are asked whether
\* they are installed.
ProbesEnd ==
  /\ phase = "probing" /\ cursor = 0
  /\ features' = features \cup {Feature("open_port", p, <<p, "pipeline">>) : p \in Open}
  /\ scanner' = [s \in Scanners |-> "checking"]
  /\ phase' = "enhancing"
  /\ UNCHANGED <<socket, protocols, attempt, cursor, answering, endpoints, leaks, report>>

-----------------------------------------------------------------------------
(* The file scanners and the report.                                       *)

CheckAvailable(s) ==
  /\ phase = "enhancing" /\ scanner[s] = "checking"
  /\ \E answer \in {"available", "absent"} : scanner' = [scanner EXCEPT ![s] = answer]
  /\ UNCHANGED <<phase, socket, protocols, attempt, cursor, answering, features,
                 endpoints, leaks, report>>

\* gitleaks needs text of answers, trivy a service or a version to look up.
HasText == \E f \in features : f.type \in {"http_header", "http_body", "error_message",
                                           "json_key"}
FirstService == IF Open = {} THEN "unknown" ELSE protocols[Ports[Min(PortTurns)]].service
HasService == \/ \E f \in features : f.type = "json_key" /\ f.value = "version"
              \/ FirstService # "unknown"
HasInput(s) == IF s = "gitleaks" THEN HasText ELSE HasService

RunScanners ==
  /\ phase = "enhancing"
  /\ \E s \in Scanners : scanner[s] = "available"
  /\ \A s \in Scanners : scanner[s] \in {"available", "absent"}
  /\ scanner' = [s \in Scanners |->
                   IF scanner[s] = "absent" THEN "absent"
                   ELSE IF HasInput(s) THEN "running" ELSE "done"]
  /\ UNCHANGED <<phase, socket, protocols, attempt, cursor, answering, features,
                 endpoints, leaks, report>>

\* What a scanner can report.  A secret is telling (its masked text names a kind of
\* key), named (only its rule or its hidden text does) or other.
Reportable(s) == IF s = "gitleaks" THEN {"telling", "named", "other"}
                                   ELSE {"CRITICAL", "HIGH", "MEDIUM"}

\* The process ends with its report; or fails or is killed by its timeout, which
\* counts as an empty report.
ScannerEnds(s) ==
  /\ phase = "enhancing" /\ scanner[s] = "running"
  /\ \E found \in SUBSET Reportable(s) :
       /\ Cardinality(found) <= MaxReported
       /\ leaks' = leaks \cup found
  /\ scanner' = [scanner EXCEPT ![s] = "done"]
  /\ UNCHANGED <<phase, socket, protocols, attempt, cursor, answering, features,
                 endpoints, report>>

Secrets == Reportable("gitleaks")

SecretFeature(v)        == Feature("secret_leak", v, <<"scanner", v>>)
VulnerabilityFeature(v) == Feature("cve_vulnerability", v, <<"scanner", v>>)
ScannerFeatures == {SecretFeature(v) : v \in leaks \cap Secrets} \cup
                   {VulnerabilityFeature(v) : v \in leaks \ Secrets}

SecretFinding(v) ==
  IF v = "other"
  THEN [by |-> "gitleaks", level |-> "high", privilege |-> 7, score |-> 65]
  ELSE [by |-> "gitleaks", level |-> "critical", privilege |-> 9, score |-> 90]

VulnerabilityFinding(severity) ==
  CASE severity = "CRITICAL" ->
         [by |-> "trivy", level |-> "critical", privilege |-> 9, score |-> 90]
    [] severity = "HIGH" ->
         [by |-> "trivy", level |-> "high", privilege |-> 8, score |-> 70]
    [] OTHER -> [by |-> "trivy", level |-> "medium", privilege |-> 6, score |-> 45]

ScannerFinding(v) == IF v \in Secrets THEN SecretFinding(v) ELSE VulnerabilityFinding(v)

\* classificationService.buildResult, on all the features; the findings of the
\* scanners are added after it has aggregated its own.
BuildResult(all, matches, top) ==
  LET findings == EvaluateRiskRules(top, all, endpoints,
                                    {protocols[p].protocol : p \in DOMAIN protocols})
      score    == OverallRiskScore(findings)
  IN  [ports |-> Open, protocols |-> protocols, endpoints |-> endpoints,
       fingerprints |-> {m.fingerprint : m \in matches},
       findings  |-> findings \cup {ScannerFinding(v) : v \in leaks},
       score     |-> score,
       level     |-> ScoreToRiskLevel(score),
       privilege |-> DeriveMaxPrivilege(top, findings)]

Report ==
  /\ phase = "enhancing"
  /\ \A s \in Scanners : scanner[s] \in {"done", "absent"}
  /\ features' = features \cup ScannerFeatures
  /\ \E matches \in {Matches(features')} : \E top \in {TopCategory(matches)} :
       report' = BuildResult(features', matches, top)
  /\ phase' = "returned"
  /\ UNCHANGED <<socket, protocols, attempt, cursor, answering, endpoints, scanner, leaks>>

-----------------------------------------------------------------------------
Statuses == {200, 401, 404}

Next ==
  \/ Throw \/ SelectAsset
  \/ \E p \in Range(Ports) : Connect(p) \/ Refuse(p) \/ ConnectTimeout(p)
  \/ PeerIdentifies \/ TlsFails \/ HeadFails
  \/ PortScanEnds \/ IdentificationEnds
  \/ ProbeDeclines \/ TcpProbe \/ HttpProbeFails
  \/ \E status \in Statuses : HttpHeaders(status)
  \/ HttpBody \/ WsMessage \/ WsFails \/ ProbesEnd
  \/ \E s \in Scanners : CheckAvailable(s) \/ ScannerEnds(s)
  \/ RunScanners \/ Report

\* The end of the run is the end of the model.
Stop == Ended /\ UNCHANGED vars

Spec == Init /\ [][Next \/ Stop]_vars

\* What a timer bounds, what needs nobody else, and an answer that its peer
\* finishes.  DNS, the sockets, TLS and HEAD (as long as the peer is idle), fetch
\* until the headers, WebSocket and the scanners have a timer; a body has none.
BoundedStep ==
  \/ Throw \/ SelectAsset
  \/ \E p \in Range(Ports) : ConnectTimeout(p)
  \/ Inspecting /\ Ports[cursor] \notin EndlessPorts /\ (TlsFails \/ HeadFails)
  \/ PortScanEnds \/ IdentificationEnds
  \/ ProbeDeclines \/ TcpProbe
  \/ answering = NoStatus /\ HttpProbeFails
  \/ Probing("http") /\ Port \notin EndlessPorts /\ HttpBody
  \/ WsFails \/ ProbesEnd
  \/ \E s \in Scanners : CheckAvailable(s) \/ ScannerEnds(s)
  \/ RunScanners \/ Report

FairScanSpec == Spec /\ WF_vars(BoundedStep)

-----------------------------------------------------------------------------
(* Properties.                                                             *)

Protocols == {"https", "http", "grpc", "tcp"}
RuleFindings == {f \in report.findings : f.by \in DOMAIN RiskRules}

\* The types of the state, and where in the loops and awaits it can be.
PipelineTypeOK ==
  /\ phase \in {"discovering", "scanning", "identifying", "probing", "enhancing",
                "returned", "thrown"}
  /\ socket \in [Range(Ports) -> {"connecting", "open", "closed", "filtered"}]
  /\ DOMAIN protocols \subseteq Open
  /\ \A p \in DOMAIN protocols : protocols[p].protocol \in Protocols
  /\ attempt \in {"tls", "http"}
  /\ cursor # 0 => \/ phase = "identifying" /\ cursor \in PortTurns
                   \/ phase = "probing" /\ cursor \in ProbeTurns
  /\ answering \in Statuses \cup {NoStatus}
  /\ answering # NoStatus => Probing("http") /\ Web /\ ~Probe.head
  /\ \A f \in features : f.from[1] \in Open \cup {"scanner"}
  /\ \A e \in endpoints : e.port \in Open /\ e.status \in Statuses
  /\ scanner \in [Scanners -> {"idle", "checking", "available", "absent", "running",
                               "done"}]
  /\ leaks \subseteq UNION {Reportable(s) : s \in Scanners}
  /\ phase # "returned" => report = NoReport

ContentTypes == {"json_key", "ws_message", "http_body"}

\* The most that some signals of a fingerprint can add up to.  A fingerprint is balanced
\* if neither its signals about content nor the others reach the threshold alone: of
\* those in fingerprints.v2.yaml, all but the one of MCP servers are.
Share(f, indices) ==
  Total([n \in 1..Len(f.signals) |->
    IF n \in indices /\ f.signals[n].weight > 0 THEN f.signals[n].weight ELSE 0])
IsBalanced(f) ==
  LET content == {n \in DOMAIN f.signals : f.signals[n].type \in ContentTypes}
  IN  /\ Share(f, content) < SuspectedThreshold
      /\ Share(f, DOMAIN f.signals \ content) < SuspectedThreshold

\* The notes of fingerprints.v2.yaml: a port alone is no fingerprint, nor is a port
\* with a path that answered anything; and a WebSocket message needs its port.  The
\* tcp probe and the pipeline both add the feature of an open port, and a path is a
\* feature whatever the status, so a signal must count once.
FingerprintsCombineEvidence ==
  phase = "returned" =>
    \A i \in {j \in report.fingerprints : IsBalanced(Fingerprints[j])} :
      LET signals == Range(Fingerprints[i].signals)
          types   == {s.type : s \in {t \in signals : IsFound(t, features)}}
      IN  types \cap ContentTypes # {} /\ types \ ContentTypes # {}

\* Features are collected from all ports into one list and matched without regard to
\* the port, yet no fingerprint is pieced together from several services: the
\* features of one port suffice for it.
EvidenceOfOnePort ==
  phase = "returned" => \A i \in report.fingerprints : \E p \in Open :
    Confidence(Fingerprints[i], {f \in features : f.from[1] = p}) >= SuspectedThreshold

\* What can become a feature of a port: the port, and what a probe on it looks for.
Shows(port, type, value) ==
  \/ type = "open_port" /\ value = port
  \/ \E i \in DOMAIN Probes :
       /\ port \in Probes[i].ports
       /\ \/ type = Probes[i].content /\ value \in Probes[i].sees
          \/ /\ type \in Probes[i].extracts
             /\ <<type, value>> \in {<<"http_status", "200">>, <<"api_path", Probes[i].path>>}

ScannerTypes == {"secret_leak", "cve_vulnerability"}

\* A fingerprint is tied to a port if nothing else shows what speaks for it; or it is
\* out of reach.
IsTied(f) ==
  \/ Share(f, DOMAIN f.signals) < SuspectedThreshold
  \/ \E port \in Range(Ports) : \A n \in DOMAIN f.signals : f.signals[n].weight > 0 =>
       /\ f.signals[n].type \notin ScannerTypes
       /\ \A other \in Range(Ports), value \in f.signals[n].values :
            Shows(other, f.signals[n].type, value) => other = port
IsTiedCatalogue == \A i \in DOMAIN Fingerprints : IsTied(Fingerprints[i])

\* Where each feature comes from.
FeaturesHaveOrigins ==
  \A f \in features : \/ f.from[1] \in Open /\ Shows(f.from[1], f.type, f.value)
                      \/ f.from[1] = "scanner" /\ f.type \in ScannerTypes

\* The report tells of each open port, once, what was identified; the port of the
\* URL is not left as bare TCP; endpoints are those of ports that speak HTTP.
ReportAccountsForScan ==
  phase = "returned" =>
    /\ report.ports = Open
    /\ DOMAIN report.protocols = Open
    /\ HintedPort \in Open => report.protocols[HintedPort].protocol # "tcp"
    /\ \A e \in report.endpoints : report.protocols[e.port].protocol \in {"http", "https"}

\* The aggregates of the report are those of the findings that the rules made.
AggregatesFitRuleFindings ==
  phase = "returned" =>
    /\ \A f \in RuleFindings : f.score <= report.score /\ f.privilege = report.privilege
    /\ report.score = 0 \/ \E f \in RuleFindings : f.score = report.score
    /\ report.level = ScoreToRiskLevel(report.score)

\* A recognised model API whose list of models answered without authentication makes
\* the report critical, also when another service is matched with more confidence and
\* gives the category that the rules look at; but an application, an MCP server or less,
\* with their lower privilege, may take the report down to high.
LesserCategories == {"agent_application", "mcp_server", "web_framework", "middleware"}
ExposedModelApiIsCritical ==
  LET categories == {Fingerprints[i].category : i \in report.fingerprints}
  IN  ( /\ phase = "returned"
        /\ "llm_api" \in categories /\ categories \cap LesserCategories = {}
        /\ \E e \in report.endpoints : e.path = "/api/tags" /\ ~AuthRequired(e) )
      => report.level = "critical"

\* The inductive invariant: the types, what each phase leaves for the next, and that
\* the report was made of what the state holds.
IdentifiedPorts == {Ports[n] : n \in {m \in PortTurns : cursor = 0 \/ m < cursor}}
ScanInv ==
  /\ PipelineTypeOK
  /\ phase \in {"discovering", "scanning", "thrown"} =>
       /\ DOMAIN protocols = {} /\ cursor = 0
       /\ features = {} /\ endpoints = {}
  /\ phase = "identifying" =>
       /\ DOMAIN protocols = IdentifiedPorts
       /\ features = {} /\ endpoints = {}
  /\ phase \in {"probing", "enhancing", "returned"} =>
       /\ DOMAIN protocols = Open
       /\ HintedPort \in Open => protocols[HintedPort].protocol # "tcp"
       /\ \A e \in endpoints : protocols[e.port].protocol \in {"http", "https"}
  /\ phase = "returned" =>
       report = BuildResult(features, Matches(features), TopCategory(Matches(features)))

\* A scan ends, unless a peer that sends without end was found open: every wait but
\* that for a body has a timer.
ScanEnds == <>(Ended \/ \E p \in EndlessPorts : socket[p] = "open")

\* docs/asset-scan-深化拓展-阶段一实现计划.md:429-431 and shared/types/asset-scan.ts:247: the
\* overall score and privilege are the highest of all findings.  Findings of the file
\* scanners are appended after the aggregates were taken.
OverallCoversAllFindings ==
  phase = "returned" => \A f \in report.findings : /\ f.score <= report.score
                                                   /\ f.privilege <= report.privilege

=============================================================================
