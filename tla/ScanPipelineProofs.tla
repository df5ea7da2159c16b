------------------------- MODULE ScanPipelineProofs -------------------------
(***************************************************************************)
(* Proofs about Classification and ScanPipeline, for every catalogue of    *)
(* probes and fingerprints, any ports and any scanners.                    *)
(***************************************************************************)
EXTENDS ScanPipeline, WellFoundedInduction, TLAPS

-----------------------------------------------------------------------------
(* Least and greatest elements.                                            *)

\* Every nonempty set of natural numbers has a least element.
LEMMA LeastExists ==
  ASSUME NEW S \in SUBSET Nat, S # {}
  PROVE  \E x \in S : \A y \in S : x <= y
<1> DEFINE R == OpToRel(<, Nat)
<1>1. IsWellFoundedOn(R, Nat)
  BY NatLessThanWellFounded
<1>2. \A x, y \in Nat : <<y, x>> \in R <=> y < x
  BY DEF OpToRel
<1> HIDE DEF R
<1>3. PICK x \in S : \A y \in S : ~ (<<y, x>> \in R)
  BY <1>1, WFMin
<1>4. \A y \in S : ~ (y < x)
  BY <1>2, <1>3
<1> QED
  BY <1>4

\* What Min returns.
LEMMA MinIs ==
  ASSUME NEW S \in SUBSET Nat, S # {}
  PROVE  Min(S) \in S /\ \A y \in S : Min(S) <= y
<1>1. PICK x \in S : \A y \in S : x <= y
  BY LeastExists
<1> QED
  BY <1>1 DEF Min

\* What Max returns, of a set with a bound.
LEMMA MaxIs ==
  ASSUME NEW N \in Nat, NEW S \in SUBSET (0..N), S # {}
  PROVE  Max(S) \in S /\ \A y \in S : y <= Max(S)
<1> DEFINE T == {m \in Nat : N - m \in S}
<1>1. \A x \in S : x \in Nat /\ N - x \in Nat /\ N - (N - x) = x
  OBVIOUS
<1>2. T \in SUBSET Nat
  OBVIOUS
<1>3. T # {}
  BY <1>1
<1> HIDE DEF T
<1>4. PICK t \in T : \A y \in T : t <= y
  BY <1>2, <1>3, LeastExists
<1> USE DEF T
<1>5. N - t \in S /\ t \in Nat
  BY <1>4
<1>6. \A y \in S : N - y \in T
  BY <1>1
<1>7. \A y \in S : t <= N - y
  BY <1>4, <1>6
<1>8. \A y \in S : N - t >= y
  BY <1>1, <1>5, <1>7
<1>9. \E x \in S : \A y \in S : x >= y
  BY <1>5, <1>8
<1> QED
  BY <1>1, <1>9 DEF Max

-----------------------------------------------------------------------------
(* Scores.                                                                 *)

\* A composite score is a whole number from 0 to 100.
LEMMA CompositeScoreType ==
  ASSUME NEW rule, NEW privilege \in Int,
         rule.exposure \in Int, rule.exploitability \in Int, rule.gap \in Int
  PROVE  CompositeScore(rule, privilege) \in 0..100
<1>1. WeightedSum(rule.exposure, rule.exploitability, privilege, rule.gap) \in Int
  BY DEF WeightedSum, PathReachability
<1>2. \A sum \in Int : Rounded(sum) \in Int
  BY DEF Rounded
<1>3. \A n \in Int : Clamp(n) \in 0..100
  BY DEF Clamp
<1> QED
  BY <1>1, <1>2, <1>3 DEF CompositeScore

\* Rounding keeps the order, although two sums are rounded the other way.
LEMMA RoundedMonotone ==
  ASSUME NEW a \in Int, NEW b \in Int, a <= b
  PROVE  Rounded(a) <= Rounded(b)
<1>1. (a + 50) \div 100 <= (b + 50) \div 100 /\ a \div 100 <= b \div 100
  OBVIOUS
<1>2. CASE a = b
  BY <1>2 DEF Rounded
<1>3. CASE a # b
  <2>1. a + 1 <= b
    BY <1>3
  <2>2. b \in FallsShort => (a + 50) \div 100 <= b \div 100
    BY <2>1 DEF FallsShort
  <2>3. a \in FallsShort => a \div 100 <= (b + 50) \div 100
    BY <2>1 DEF FallsShort
  <2> QED
    BY <1>1, <2>2, <2>3 DEF Rounded
<1> QED
  BY <1>2, <1>3

\* A rule that is worse in every dimension, on an asset that gives at least as much
\* privilege, scores at least as much.
THEOREM CompositeScoreMonotone ==
  ASSUME NEW r, NEW s, NEW p \in Int, NEW q \in Int,
         r.exposure \in Int, r.exploitability \in Int, r.gap \in Int,
         s.exposure \in Int, s.exploitability \in Int, s.gap \in Int,
         r.exposure <= s.exposure, r.exploitability <= s.exploitability,
         r.gap <= s.gap, p <= q
  PROVE  CompositeScore(r, p) <= CompositeScore(s, q)
<1> DEFINE a == WeightedSum(r.exposure, r.exploitability, p, r.gap)
           b == WeightedSum(s.exposure, s.exploitability, q, s.gap)
<1>1. a \in Int /\ b \in Int /\ a <= b
  BY DEF WeightedSum, PathReachability
<1> HIDE DEF a, b
<1>2. Rounded(a) <= Rounded(b) /\ Rounded(a) \in Int /\ Rounded(b) \in Int
  <2>1. Rounded(a) <= Rounded(b)
    BY <1>1, RoundedMonotone
  <2> QED
    BY <1>1, <2>1 DEF Rounded
<1>3. \A m, n \in Int : m <= n => Clamp(m) <= Clamp(n)
  BY DEF Clamp
<1>4. Clamp(Rounded(a)) <= Clamp(Rounded(b))
  BY <1>2, <1>3
<1> QED
  BY <1>4 DEF CompositeScore, a, b

\* The level of a score, as a number, to compare levels.
LevelRank(level) == IF level = "critical" THEN 3
                    ELSE IF level = "high" THEN 2
                    ELSE IF level = "medium" THEN 1 ELSE 0

\* A higher score has no lower level.
THEOREM LevelMonotone ==
  ASSUME NEW a \in Int, NEW b \in Int, a <= b
  PROVE  LevelRank(ScoreToRiskLevel(a)) <= LevelRank(ScoreToRiskLevel(b))
  BY DEF ScoreToRiskLevel, LevelRank
-----------------------------------------------------------------------------
(* The aggregates of the findings.                                         *)

\* The dimensions of each rule are whole numbers.
Dimensions(rule) == /\ rule.exposure \in Int
                    /\ rule.exploitability \in Int
                    /\ rule.gap \in Int
LEMMA RuleDimensions ==
  ASSUME NEW id \in DOMAIN RiskRules
  PROVE  Dimensions(RiskRules[id])
<1> DEFINE numbers == {Deterministic, Reproducible, Plausible, Theoretical, 50, 75, 100}
<1>1. \A c, level : \A e, x, g \in numbers : Dimensions(Rule(c, level, e, x, g))
  BY DEF Dimensions, Rule, Deterministic, Reproducible, Plausible, Theoretical
<1> HIDE DEF numbers
<1>2. /\ {Deterministic, Reproducible, Plausible, Theoretical} \subseteq numbers
      /\ {50, 75, 100} \subseteq numbers
  BY DEF numbers
<1>3. DOMAIN RiskRules =
        {"exposed_api_critical", "exposed_api_high", "info_leak_version",
         "info_leak_debug", "misconfiguration_cors", "misconfiguration_http_sensitive",
         "weak_auth_basic", "unauthorized_sensitive_endpoint", "cve_critical",
         "cve_high", "secret_api_key", "secret_generic"}
  BY DEF RiskRules
<1>4. Dimensions(RiskRules["exposed_api_critical"])
  BY <1>1, <1>2 DEF RiskRules
<1>5. Dimensions(RiskRules["exposed_api_high"])
  BY <1>1, <1>2 DEF RiskRules
<1>6. Dimensions(RiskRules["info_leak_version"])
  BY <1>1, <1>2 DEF RiskRules
<1>7. Dimensions(RiskRules["info_leak_debug"])
  BY <1>1, <1>2 DEF RiskRules
<1>8. Dimensions(RiskRules["misconfiguration_cors"])
  BY <1>1, <1>2 DEF RiskRules
<1>9. Dimensions(RiskRules["misconfiguration_http_sensitive"])
  BY <1>1, <1>2 DEF RiskRules
<1>10. Dimensions(RiskRules["weak_auth_basic"])
  BY <1>1, <1>2 DEF RiskRules
<1>11. Dimensions(RiskRules["unauthorized_sensitive_endpoint"])
  BY <1>1, <1>2 DEF RiskRules
<1>12. Dimensions(RiskRules["cve_critical"])
  BY <1>1, <1>2 DEF RiskRules
<1>13. Dimensions(RiskRules["cve_high"])
  BY <1>1, <1>2 DEF RiskRules
<1>14. Dimensions(RiskRules["secret_api_key"])
  BY <1>1, <1>2 DEF RiskRules
<1>15. Dimensions(RiskRules["secret_generic"])
  BY <1>1, <1>2 DEF RiskRules
<1> QED
  BY <1>3, <1>4, <1>5, <1>6, <1>7, <1>8, <1>9, <1>10, <1>11, <1>12, <1>13, <1>14, <1>15

\* Neither scanner has the name of a rule.
LEMMA ScannersAreNoRules == DOMAIN RiskRules \cap {"gitleaks", "trivy"} = {}
  BY DEF RiskRules

\* The findings of the rules: where they come from, their scores, their privilege.
LEMMA RuleFindingsAre ==
  ASSUME NEW top, NEW fs, NEW es, NEW ps, NEW f \in EvaluateRiskRules(top, fs, es, ps)
  PROVE  /\ f.by \in DOMAIN RiskRules
         /\ f.score \in 0..100
         /\ f.privilege = PrivilegeScore(top)
<1>1. PICK id \in DOMAIN RiskRules : f = BuildFinding(id, PrivilegeScore(top))
  BY DEF EvaluateRiskRules
<1>2. PrivilegeScore(top) \in Int
  BY DEF PrivilegeScore
<1>3. CompositeScore(RiskRules[id], PrivilegeScore(top)) \in 0..100
  BY <1>2, RuleDimensions, CompositeScoreType DEF Dimensions
<1>4. /\ f.by = id
      /\ f.score = CompositeScore(RiskRules[id], PrivilegeScore(top))
      /\ f.privilege = PrivilegeScore(top)
  BY <1>1 DEF BuildFinding
<1> QED
  BY <1>3, <1>4

\* The overall score is the greatest score, or zero; the privilege is everyone's.
LEMMA AggregatesAre ==
  ASSUME NEW top, NEW fs, NEW es, NEW ps
  PROVE  LET findings == EvaluateRiskRules(top, fs, es, ps)
             score    == OverallRiskScore(findings)
         IN  /\ \A f \in findings : /\ f.score <= score
                                    /\ f.privilege = DeriveMaxPrivilege(top, findings)
             /\ score = 0 \/ \E f \in findings : f.score = score
<1> DEFINE findings == EvaluateRiskRules(top, fs, es, ps)
           scores == {0} \cup {f.score : f \in findings}
<1>1. \A f \in findings : f.score \in 0..100 /\ f.privilege = PrivilegeScore(top)
  BY RuleFindingsAre
<1> HIDE DEF findings
<1>2. scores \in SUBSET (0..100) /\ scores # {}
  BY <1>1
<1>3. Max(scores) \in scores /\ \A y \in scores : y <= Max(scores)
  BY <1>2, MaxIs
<1>4. OverallRiskScore(findings) = Max(scores)
  BY DEF OverallRiskScore
<1>5. ASSUME NEW f \in findings
      PROVE  DeriveMaxPrivilege(top, findings) = PrivilegeScore(top)
  <2>1. {g.privilege : g \in findings} = {PrivilegeScore(top)}
    BY <1>1, <1>5
  <2>2. PrivilegeScore(top) \in Int
    BY DEF PrivilegeScore
  <2>3. Max({PrivilegeScore(top)}) = PrivilegeScore(top)
    BY <2>2 DEF Max
  <2> QED
    BY <1>5, <2>1, <2>3 DEF DeriveMaxPrivilege
<1>6. \A f \in findings : f.score <= OverallRiskScore(findings)
  BY <1>3, <1>4
<1>7. \/ OverallRiskScore(findings) = 0
      \/ \E f \in findings : f.score = OverallRiskScore(findings)
  BY <1>3, <1>4
<1>8. \A f \in findings : f.privilege = DeriveMaxPrivilege(top, findings)
  BY <1>1, <1>5
<1> QED
  BY <1>6, <1>7, <1>8 DEF findings
-----------------------------------------------------------------------------
(* The loops.                                                              *)

\* What comes after n in a loop over numbers.
LEMMA AfterIs ==
  ASSUME NEW I \in SUBSET Nat, NEW n \in Nat
  PROVE  \/ After(I, n) = 0 /\ \A m \in I : m <= n
         \/ /\ After(I, n) \in I /\ After(I, n) > n
            /\ \A m \in I : m > n => After(I, n) <= m
<1> DEFINE later == {m \in I : m > n}
<1>1. CASE later = {}
  <2>1. After(I, n) = 0
    BY <1>1 DEF After
  <2> QED
    BY <1>1, <2>1
<1>2. CASE later # {}
  <2>1. After(I, n) = Min(later)
    BY <1>2 DEF After
  <2>2. Min(later) \in later /\ \A y \in later : Min(later) <= y
    BY <1>2, MinIs
  <2> QED
    BY <2>1, <2>2
<1> QED
  BY <1>1, <1>2

\* The turns of the loops are positive numbers.
LEMMA TurnsAre ==
  /\ PortTurns \in SUBSET Nat /\ 0 \notin PortTurns
  /\ ProbeTurns \in SUBSET Nat /\ 0 \notin ProbeTurns
<1>1. Len(Ports) \in Nat /\ Len(Probes) \in Nat
  BY PipelineAssumption
<1> QED
  BY <1>1 DEF PortTurns, ProbeTurns

\* A turn of the first loop is about an open port, and each open port has one.
LEMMA PortTurnsAreOpen == Open = {Ports[n] : n \in PortTurns}
<1>1. DOMAIN Ports = 1..Len(Ports)
  BY PipelineAssumption
<1> QED
  BY <1>1 DEF Open, PortTurns, Range

\* A turn of the second loop is about an open port.
LEMMA ProbeTurnsAreOpen == \A n \in ProbeTurns : PortAt(n) \in Open
  BY DEF ProbeTurns

-----------------------------------------------------------------------------
(* The inductive invariant.                                                *)

\* The state before discovery satisfies the invariant.
LEMMA ScanInit == Init => ScanInv
<1> SUFFICES ASSUME Init PROVE ScanInv
  OBVIOUS
<1>1. DOMAIN protocols = {}
  BY DEF Init
<1>2. PipelineTypeOK
  BY <1>1 DEF Init, PipelineTypeOK, NoStatus
<1> QED
  BY <1>1, <1>2 DEF Init, ScanInv

\* Discovery keeps the invariant.
LEMMA DiscoveryKeeps ==
  ASSUME ScanInv, Throw \/ SelectAsset
  PROVE  ScanInv'
<1>1. /\ phase = "discovering" /\ phase' \in {"thrown", "scanning"}
      /\ UNCHANGED <<socket, protocols, attempt, cursor, answering, features, endpoints,
                     scanner, leaks, report>>
  BY DEF Throw, SelectAsset
<1>2. answering = NoStatus
  BY <1>1 DEF ScanInv, PipelineTypeOK, Probing
<1>3. Open' = Open
  BY <1>1 DEF Open
<1>4. PipelineTypeOK'
  BY <1>1, <1>2, <1>3 DEF ScanInv, PipelineTypeOK
<1> QED
  BY <1>1, <1>4 DEF ScanInv

\* A socket that settles keeps the invariant.
LEMMA FinalizeKeeps ==
  ASSUME ScanInv, NEW p \in Range(Ports), NEW status \in {"open", "closed", "filtered"},
         Finalize(p, status)
  PROVE  ScanInv'
<1>1. /\ phase = "scanning" /\ socket' = [socket EXCEPT ![p] = status]
      /\ UNCHANGED <<phase, protocols, attempt, cursor, answering, features, endpoints,
                     scanner, leaks, report>>
  BY DEF Finalize
<1>2. answering = NoStatus /\ cursor = 0 /\ DOMAIN protocols = {} /\ features = {}
      /\ endpoints = {}
  BY <1>1 DEF ScanInv, PipelineTypeOK, Probing
<1>3. PipelineTypeOK'
  BY <1>1, <1>2 DEF ScanInv, PipelineTypeOK
<1> QED
  BY <1>1, <1>2, <1>3 DEF ScanInv

\* The first loop starts with nothing identified.
LEMMA PortScanEndsKeeps ==
  ASSUME ScanInv, PortScanEnds
  PROVE  ScanInv'
<1>1. /\ phase = "scanning" /\ phase' = "identifying" /\ cursor' = After(PortTurns, 0)
      /\ UNCHANGED <<socket, protocols, attempt, answering, features, endpoints, scanner,
                     leaks, report>>
  BY DEF PortScanEnds
<1>2. answering = NoStatus /\ DOMAIN protocols = {} /\ features = {} /\ endpoints = {}
  BY <1>1 DEF ScanInv, PipelineTypeOK, Probing
<1>3. Open' = Open /\ PortTurns' = PortTurns
  BY <1>1 DEF Open, PortTurns
<1>4. \/ cursor' = 0 /\ \A m \in PortTurns : m <= 0
      \/ cursor' \in PortTurns /\ \A m \in PortTurns : m > 0 => cursor' <= m
  BY <1>1, TurnsAre, AfterIs
<1>5. IdentifiedPorts' = {}
  <2>1. \A m \in PortTurns : m \in Nat /\ m > 0
    BY TurnsAre
  <2>2. \A m \in PortTurns : ~ (cursor' = 0 \/ m < cursor')
    BY <1>4, <2>1
  <2>3. {m \in PortTurns : cursor' = 0 \/ m < cursor'} = {}
    BY <2>2
  <2> QED
    BY <1>3, <2>3 DEF IdentifiedPorts
<1>6. PipelineTypeOK'
  BY <1>1, <1>2, <1>3, <1>4 DEF ScanInv, PipelineTypeOK
<1> QED
  BY <1>1, <1>2, <1>3, <1>5, <1>6 DEF ScanInv

\* One more port is identified.
LEMMA IdentifiedKeeps ==
  ASSUME ScanInv, Inspecting, NEW protocol \in Protocols, NEW service,
         Identified(protocol, service)
  PROVE  ScanInv'
<1>1. /\ phase = "identifying" /\ cursor # 0
      /\ protocols' = [p \in DOMAIN protocols \cup {Ports[cursor]} |->
                         IF p = Ports[cursor]
                         THEN [protocol |-> protocol, service |-> service]
                         ELSE protocols[p]]
      /\ attempt' = "tls" /\ cursor' = After(PortTurns, cursor)
      /\ UNCHANGED <<phase, socket, answering, features, endpoints, scanner, leaks, report>>
  BY DEF Inspecting, Identified
<1>2. /\ cursor \in PortTurns /\ answering = NoStatus /\ features = {} /\ endpoints = {}
      /\ DOMAIN protocols = IdentifiedPorts
  BY <1>1 DEF ScanInv, PipelineTypeOK, Probing
<1>3. Open' = Open /\ PortTurns' = PortTurns
  BY <1>1 DEF Open, PortTurns
<1>4. \/ cursor' = 0 /\ \A m \in PortTurns : m <= cursor
      \/ /\ cursor' \in PortTurns /\ cursor' > cursor
         /\ \A m \in PortTurns : m > cursor => cursor' <= m
  BY <1>1, <1>2, TurnsAre, AfterIs
<1>5. DOMAIN protocols' = IdentifiedPorts \cup {Ports[cursor]}
  BY <1>1, <1>2
<1>6. IdentifiedPorts' = IdentifiedPorts \cup {Ports[cursor]}
  <2>1. \A m \in PortTurns : m \in Nat /\ m > 0
    BY TurnsAre
  <2>2. \A m \in PortTurns : (cursor' = 0 \/ m < cursor') <=> (m < cursor \/ m = cursor)
    BY <1>2, <1>4, <2>1
  <2>3. IdentifiedPorts' = {Ports[n] : n \in {m \in PortTurns : m < cursor \/ m = cursor}}
    BY <1>3, <2>2 DEF IdentifiedPorts
  <2>4. IdentifiedPorts = {Ports[n] : n \in {m \in PortTurns : m < cursor}}
    BY <1>1 DEF IdentifiedPorts
  <2> QED
    BY <1>2, <2>3, <2>4
<1>7. \A p \in DOMAIN protocols' : protocols'[p].protocol \in Protocols
  BY <1>1, <1>2 DEF ScanInv, PipelineTypeOK
<1>8. DOMAIN protocols' \subseteq Open
  BY <1>2, <1>5, PortTurnsAreOpen DEF ScanInv, PipelineTypeOK
<1>9. PipelineTypeOK'
  BY <1>1, <1>2, <1>3, <1>4, <1>7, <1>8 DEF ScanInv, PipelineTypeOK
<1> QED
  BY <1>1, <1>2, <1>5, <1>6, <1>9 DEF ScanInv

\* The second attempt keeps the invariant.
LEMMA TlsFailsKeeps ==
  ASSUME ScanInv, TlsFails
  PROVE  ScanInv'
<1>1. /\ phase = "identifying" /\ attempt' = "http"
      /\ UNCHANGED <<phase, socket, protocols, cursor, answering, features, endpoints,
                     scanner, leaks, report>>
  BY DEF TlsFails, Inspecting
<1>2. answering = NoStatus /\ features = {} /\ endpoints = {}
  BY <1>1 DEF ScanInv, PipelineTypeOK, Probing
<1>3. Open' = Open /\ PortTurns' = PortTurns /\ IdentifiedPorts' = IdentifiedPorts
  BY <1>1 DEF Open, PortTurns, IdentifiedPorts
<1>4. PipelineTypeOK'
  BY <1>1, <1>2, <1>3 DEF ScanInv, PipelineTypeOK
<1> QED
  BY <1>1, <1>2, <1>3, <1>4 DEF ScanInv

\* After the loop each open port is identified, the hinted one not as TCP.
LEMMA IdentificationEndsKeeps ==
  ASSUME ScanInv, IdentificationEnds
  PROVE  ScanInv'
<1>1. /\ phase = "identifying" /\ cursor = 0 /\ phase' = "probing"
      /\ protocols' = [p \in DOMAIN protocols |-> Normalized(p)]
      /\ cursor' = After(ProbeTurns, 0)
      /\ UNCHANGED <<socket, attempt, answering, features, endpoints, scanner, leaks,
                     report>>
  BY DEF IdentificationEnds
<1>2. /\ answering = NoStatus /\ features = {} /\ endpoints = {}
      /\ DOMAIN protocols = Open
  <2>1. IdentifiedPorts = Open
    BY <1>1, PortTurnsAreOpen DEF IdentifiedPorts
  <2> QED
    BY <1>1, <2>1 DEF ScanInv, PipelineTypeOK, Probing
<1>3. Open' = Open /\ ProbeTurns' = ProbeTurns
  BY <1>1 DEF Open, ProbeTurns
<1>4. cursor' = 0 \/ cursor' \in ProbeTurns
  BY <1>1, TurnsAre, AfterIs
<1>5. \A p \in Open : /\ Normalized(p).protocol \in Protocols
                      /\ p = HintedPort => Normalized(p).protocol # "tcp"
  BY <1>2, PipelineAssumption DEF ScanInv, PipelineTypeOK, Normalized, Protocols
<1>6. PipelineTypeOK'
  BY <1>1, <1>2, <1>3, <1>4, <1>5 DEF ScanInv, PipelineTypeOK
<1> QED
  BY <1>1, <1>2, <1>3, <1>5, <1>6 DEF ScanInv

-----------------------------------------------------------------------------
(* The probes.                                                             *)

\* A probe that ends keeps the invariant, if what it found is about its port.
LEMMA MatchedKeeps ==
  ASSUME ScanInv, phase = "probing", cursor # 0, NEW found, NEW reached,
         \A f \in found : f.from[1] = Port,
         \A e \in reached : Web /\ e.port = Port /\ e.status \in Statuses,
         Matched(found, reached)
  PROVE  ScanInv'
<1>1. /\ cursor' = After(ProbeTurns, cursor) /\ answering' = NoStatus
      /\ features' = features \cup found
      /\ endpoints' \subseteq endpoints \cup reached
      /\ UNCHANGED <<phase, socket, protocols, attempt, scanner, leaks, report>>
  BY DEF Matched
<1>2. cursor \in ProbeTurns /\ DOMAIN protocols = Open
  BY DEF ScanInv, PipelineTypeOK
<1>3. Open' = Open /\ ProbeTurns' = ProbeTurns
  BY <1>1 DEF Open, ProbeTurns
<1>4. cursor' = 0 \/ cursor' \in ProbeTurns
  BY <1>1, <1>2, TurnsAre, AfterIs
<1>5. Port \in Open
  BY <1>2, ProbeTurnsAreOpen DEF Port
<1>6. \A f \in features' : f.from[1] \in Open \cup {"scanner"}
  BY <1>1, <1>5 DEF ScanInv, PipelineTypeOK
<1>7. \A e \in endpoints' : e.port \in Open /\ e.status \in Statuses
  BY <1>1, <1>5 DEF ScanInv, PipelineTypeOK
<1>8. \A e \in endpoints' : protocols[e.port].protocol \in {"http", "https"}
  BY <1>1 DEF ScanInv, Web
<1>9. PipelineTypeOK'
  BY <1>1, <1>2, <1>3, <1>4, <1>6, <1>7 DEF ScanInv, PipelineTypeOK
<1> QED
  BY <1>1, <1>2, <1>3, <1>8, <1>9 DEF ScanInv

\* The features of an answer are about the port that gave it.
LEMMA ExtractedIsOfPort ==
  ASSUME NEW status, NEW seen, NEW f \in Extracted(status, seen)
  PROVE  f.from[1] = Port
<1>1. \A type, value : Feature(type, value, <<Port, Probe.id>>).from[1] = Port
  BY DEF Feature
<1> QED
  BY <1>1 DEF Extracted

\* An answer keeps the invariant.
LEMMA AnsweredKeeps ==
  ASSUME ScanInv, Probing("http"), Web, NEW status \in Statuses, NEW seen,
         Answered(status, seen)
  PROVE  ScanInv'
<1> DEFINE reached == {[port |-> Port, path |-> Probe.path, status |-> status]}
<1>1. \A e \in reached : e.port = Port /\ e.status \in Statuses
  OBVIOUS
<1>2. Matched(Extracted(status, seen), reached)
  BY DEF Answered
<1>3. phase = "probing" /\ cursor # 0
  BY DEF Probing
<1> HIDE DEF reached
<1> QED
  BY <1>1, <1>2, <1>3, ExtractedIsOfPort, MatchedKeeps

\* The steps of the probes keep the invariant.
LEMMA ProbesKeep ==
  ASSUME ScanInv,
         \/ ProbeDeclines \/ TcpProbe \/ HttpProbeFails
         \/ \E status \in Statuses : HttpHeaders(status)
         \/ HttpBody \/ WsMessage \/ WsFails
  PROVE  ScanInv'
<1>1. CASE ProbeDeclines \/ HttpProbeFails \/ WsFails
  <2>1. phase = "probing" /\ cursor # 0 /\ Matched({}, {})
    BY <1>1 DEF ProbeDeclines, HttpProbeFails, WsFails, Probing
  <2> QED
    BY <2>1, MatchedKeeps
<1>2. CASE TcpProbe
  <2>1. /\ phase = "probing" /\ cursor # 0
        /\ Matched({Feature("open_port", Port, <<Port, Probe.id>>)}, {})
    BY <1>2 DEF TcpProbe, Probing
  <2>2. \A f \in {Feature("open_port", Port, <<Port, Probe.id>>)} : f.from[1] = Port
    BY DEF Feature
  <2> QED
    BY <2>1, <2>2, MatchedKeeps
<1>3. CASE \E status \in Statuses : HttpHeaders(status)
  <2>1. PICK status \in Statuses : HttpHeaders(status)
    BY <1>3
  <2>2. Probing("http") /\ Web
    BY <2>1 DEF HttpHeaders
  <2>3. CASE Probe.head
    <3>1. Answered(status, {})
      BY <2>1, <2>3 DEF HttpHeaders
    <3> QED
      BY <2>2, <3>1, AnsweredKeeps
  <2>4. CASE ~ Probe.head
    <3>1. /\ answering' = status
          /\ UNCHANGED <<phase, socket, protocols, attempt, cursor, features, endpoints,
                         scanner, leaks, report>>
      BY <2>1, <2>4 DEF HttpHeaders
    <3>2. Open' = Open /\ ProbeTurns' = ProbeTurns /\ Web' = Web /\ Probe' = Probe
      BY <3>1 DEF Open, ProbeTurns, Web, Probe, Port
    <3>3. Probing("http")'
      BY <2>2, <3>1, <3>2 DEF Probing
    <3>4. PipelineTypeOK'
      BY <2>2, <2>4, <3>1, <3>2, <3>3 DEF ScanInv, PipelineTypeOK, Probing
    <3>5. phase = "probing" /\ phase' = "probing"
      BY <2>2, <3>1 DEF Probing
    <3> QED
      BY <3>1, <3>2, <3>4, <3>5 DEF ScanInv
  <2> QED
    BY <2>3, <2>4
<1>4. CASE HttpBody
  <2>1. Probing("http") /\ Web /\ answering \in Statuses
    BY <1>4 DEF HttpBody, ScanInv, PipelineTypeOK
  <2>2. PICK seen : Answered(answering, seen)
    BY <1>4 DEF HttpBody
  <2> QED
    BY <2>1, <2>2, AnsweredKeeps
<1>5. CASE WsMessage
  <2>1. PICK seen : Matched(Extracted(101, seen), {})
    BY <1>5 DEF WsMessage
  <2>2. phase = "probing" /\ cursor # 0
    BY <1>5 DEF WsMessage, Probing
  <2> QED
    BY <2>1, <2>2, ExtractedIsOfPort, MatchedKeeps
<1> QED
  BY <1>1, <1>2, <1>3, <1>4, <1>5

\* The end of the probes keeps the invariant.
LEMMA ProbesEndKeeps ==
  ASSUME ScanInv, ProbesEnd
  PROVE  ScanInv'
<1>1. /\ phase = "probing" /\ cursor = 0 /\ phase' = "enhancing"
      /\ features' = features \cup {Feature("open_port", p, <<p, "pipeline">>) : p \in Open}
      /\ scanner' = [s \in Scanners |-> "checking"]
      /\ UNCHANGED <<socket, protocols, attempt, cursor, answering, endpoints, leaks,
                     report>>
  BY DEF ProbesEnd
<1>2. answering = NoStatus
  BY <1>1 DEF ScanInv, PipelineTypeOK, Probing
<1>3. Open' = Open
  BY <1>1 DEF Open
<1>4. \A f \in {Feature("open_port", p, <<p, "pipeline">>) : p \in Open} : f.from[1] \in Open
  <2>1. \A p \in Open : Feature("open_port", p, <<p, "pipeline">>).from[1] = p
    BY DEF Feature
  <2> QED
    BY <2>1
<1>5. \A f \in features' : f.from[1] \in Open \cup {"scanner"}
  BY <1>1, <1>4 DEF ScanInv, PipelineTypeOK
<1>6. scanner' \in [Scanners -> {"idle", "checking", "available", "absent", "running",
                                 "done"}]
  BY <1>1
<1>7. PipelineTypeOK'
  BY <1>1, <1>2, <1>3, <1>5, <1>6 DEF ScanInv, PipelineTypeOK
<1> QED
  BY <1>1, <1>3, <1>7 DEF ScanInv

-----------------------------------------------------------------------------
(* The scanners and the report.                                            *)

\* Whatever moves only the scanners keeps the invariant.
LEMMA EnhancingKeeps ==
  ASSUME ScanInv, phase = "enhancing",
         UNCHANGED <<phase, socket, protocols, attempt, cursor, answering, features,
                     endpoints, report>>,
         scanner' \in [Scanners -> {"idle", "checking", "available", "absent", "running",
                                    "done"}],
         leaks' \subseteq UNION {Reportable(s) : s \in Scanners}
  PROVE  ScanInv'
<1>1. cursor = 0 /\ answering = NoStatus
  BY DEF ScanInv, PipelineTypeOK, Probing
<1>2. Open' = Open
  BY DEF Open
<1>3. PipelineTypeOK'
  BY <1>1, <1>2 DEF ScanInv, PipelineTypeOK
<1> QED
  BY <1>1, <1>2, <1>3 DEF ScanInv

\* The steps of the scanners keep the invariant.
LEMMA ScannersKeep ==
  ASSUME ScanInv,
         \/ \E s \in Scanners : CheckAvailable(s) \/ ScannerEnds(s)
         \/ RunScanners
  PROVE  ScanInv'
<1> DEFINE states == {"idle", "checking", "available", "absent", "running", "done"}
<1>1. scanner \in [Scanners -> states] /\ leaks \subseteq UNION {Reportable(s) : s \in Scanners}
  BY DEF ScanInv, PipelineTypeOK
<1>2. ASSUME NEW s \in Scanners, CheckAvailable(s)
      PROVE  ScanInv'
  <2>1. /\ phase = "enhancing"
        /\ UNCHANGED <<phase, socket, protocols, attempt, cursor, answering, features,
                       endpoints, leaks, report>>
    BY <1>2 DEF CheckAvailable
  <2>2. scanner' \in [Scanners -> states]
    BY <1>1, <1>2 DEF CheckAvailable
  <2>3. leaks' \subseteq UNION {Reportable(t) : t \in Scanners}
    BY <1>1, <2>1
  <2> QED
    BY <2>1, <2>2, <2>3, EnhancingKeeps
<1>3. ASSUME NEW s \in Scanners, ScannerEnds(s)
      PROVE  ScanInv'
  <2>1. /\ phase = "enhancing"
        /\ UNCHANGED <<phase, socket, protocols, attempt, cursor, answering, features,
                       endpoints, report>>
    BY <1>3 DEF ScannerEnds
  <2>2. scanner' \in [Scanners -> states]
    BY <1>1, <1>3 DEF ScannerEnds
  <2>3. PICK found \in SUBSET Reportable(s) : leaks' = leaks \cup found
    BY <1>3 DEF ScannerEnds
  <2>4. leaks' \subseteq UNION {Reportable(t) : t \in Scanners}
    BY <1>1, <2>3
  <2> QED
    BY <2>1, <2>2, <2>4, EnhancingKeeps
<1>4. ASSUME RunScanners
      PROVE  ScanInv'
  <2>1. /\ phase = "enhancing"
        /\ UNCHANGED <<phase, socket, protocols, attempt, cursor, answering, features,
                       endpoints, leaks, report>>
    BY <1>4 DEF RunScanners
  <2>2. scanner' \in [Scanners -> states]
    BY <1>4 DEF RunScanners
  <2>3. leaks' \subseteq UNION {Reportable(t) : t \in Scanners}
    BY <1>1, <2>1
  <2> QED
    BY <2>1, <2>2, <2>3, EnhancingKeeps
<1> QED
  BY <1>2, <1>3, <1>4

\* The report is made of the state and keeps the invariant.
LEMMA ReportKeeps ==
  ASSUME ScanInv, Report
  PROVE  ScanInv'
<1>1. /\ phase = "enhancing" /\ phase' = "returned"
      /\ features' = features \cup ScannerFeatures
      /\ report' = BuildResult(features', Matches(features'), TopCategory(Matches(features')))
      /\ UNCHANGED <<socket, protocols, attempt, cursor, answering, endpoints, scanner,
                     leaks>>
  BY DEF Report
<1>2. cursor = 0 /\ answering = NoStatus
  BY <1>1 DEF ScanInv, PipelineTypeOK, Probing
<1>3. Open' = Open
  BY <1>1 DEF Open
<1>4. \A f \in ScannerFeatures : f.from[1] = "scanner"
  <2>1. \A type, v : Feature(type, v, <<"scanner", v>>).from[1] = "scanner"
    BY DEF Feature
  <2> QED
    BY <2>1 DEF ScannerFeatures, SecretFeature, VulnerabilityFeature
<1>5. \A f \in features' : f.from[1] \in Open \cup {"scanner"}
  BY <1>1, <1>4 DEF ScanInv, PipelineTypeOK
<1>6. PipelineTypeOK'
  BY <1>1, <1>2, <1>3, <1>5 DEF ScanInv, PipelineTypeOK
<1>7. /\ DOMAIN protocols' = Open'
      /\ HintedPort \in Open' => protocols'[HintedPort].protocol # "tcp"
      /\ \A e \in endpoints' : protocols'[e.port].protocol \in {"http", "https"}
  BY <1>1, <1>3 DEF ScanInv
<1>8. report' = BuildResult(features, Matches(features), TopCategory(Matches(features)))'
  <2> DEFINE matches == Matches(features')
             top     == TopCategory(matches)
             es      == endpoints'
             ps      == {protocols'[p].protocol : p \in DOMAIN protocols'}
             found   == {ScannerFinding(v) : v \in leaks'}
             names   == {m.fingerprint : m \in matches}
  <2>1. ps = {protocols[p].protocol : p \in DOMAIN protocols} /\ es = endpoints
    BY <1>1
  <2>2. found = {ScannerFinding(v) : v \in leaks}
    BY <1>1
  <2>3. report' = [ports |-> Open', protocols |-> protocols', endpoints |-> endpoints',
               fingerprints |-> names,
               findings |-> EvaluateRiskRules(top, features', es, ps) \cup found,
               score |-> OverallRiskScore(EvaluateRiskRules(top, features', es, ps)),
               level |-> ScoreToRiskLevel(OverallRiskScore(
                           EvaluateRiskRules(top, features', es, ps))),
               privilege |-> DeriveMaxPrivilege(top,
                               EvaluateRiskRules(top, features', es, ps))]
    BY <1>1, <1>3, <2>1, <2>2 DEF BuildResult
  <2> QED
    BY <2>3 DEF BuildResult
<1> QED
  BY <1>1, <1>6, <1>7, <1>8 DEF ScanInv

\* Every step keeps the invariant.
LEMMA ScanStep == ScanInv /\ [Next \/ Stop]_vars => ScanInv'
<1> SUFFICES ASSUME ScanInv, [Next \/ Stop]_vars PROVE ScanInv'
  OBVIOUS
<1>1. CASE Throw \/ SelectAsset
  BY <1>1, DiscoveryKeeps
<1>2. CASE \E p \in Range(Ports) : Connect(p) \/ Refuse(p) \/ ConnectTimeout(p)
  BY <1>2, FinalizeKeeps DEF Connect, Refuse, ConnectTimeout
<1>3. CASE PeerIdentifies
  <2>1. PICK service : Identified(IF attempt = "tls" THEN "https" ELSE "http", service)
    BY <1>3 DEF PeerIdentifies
  <2>2. (IF attempt = "tls" THEN "https" ELSE "http") \in Protocols
    BY DEF Protocols
  <2>3. Inspecting
    BY <1>3 DEF PeerIdentifies
  <2> QED
    BY <2>1, <2>2, <2>3, IdentifiedKeeps
<1>4. CASE HeadFails
  <2>1. Identified(IF Ports[cursor] = "50051" THEN "grpc" ELSE "tcp", "unknown")
    BY <1>4 DEF HeadFails
  <2>2. (IF Ports[cursor] = "50051" THEN "grpc" ELSE "tcp") \in Protocols
    BY DEF Protocols
  <2>3. Inspecting
    BY <1>4 DEF HeadFails
  <2> QED
    BY <2>1, <2>2, <2>3, IdentifiedKeeps
<1>5. CASE TlsFails
  BY <1>5, TlsFailsKeeps
<1>6. CASE PortScanEnds
  BY <1>6, PortScanEndsKeeps
<1>7. CASE IdentificationEnds
  BY <1>7, IdentificationEndsKeeps
<1>8. CASE \/ ProbeDeclines \/ TcpProbe \/ HttpProbeFails
           \/ \E status \in Statuses : HttpHeaders(status)
           \/ HttpBody \/ WsMessage \/ WsFails
  BY <1>8, ProbesKeep
<1>9. CASE ProbesEnd
  BY <1>9, ProbesEndKeeps
<1>10. CASE (\E s \in Scanners : CheckAvailable(s) \/ ScannerEnds(s)) \/ RunScanners
  BY <1>10, ScannersKeep
<1>11. CASE Report
  BY <1>11, ReportKeeps
<1>12. CASE UNCHANGED vars
  <2>1. UNCHANGED <<phase, socket, protocols, attempt, cursor, answering, features,
                    endpoints, scanner, leaks, report>>
    BY <1>12 DEF vars
  <2>2. /\ Open' = Open /\ PortTurns' = PortTurns /\ ProbeTurns' = ProbeTurns
        /\ IdentifiedPorts' = IdentifiedPorts /\ Web' = Web /\ Probe' = Probe
    BY <2>1 DEF Open, PortTurns, ProbeTurns, IdentifiedPorts, Web, Probe, Port
  <2>3. \A kind : Probing(kind)' <=> Probing(kind)
    BY <2>1, <2>2 DEF Probing
  <2>4. PipelineTypeOK'
    BY <2>1, <2>2, <2>3 DEF ScanInv, PipelineTypeOK
  <2>5. BuildResult(features, Matches(features), TopCategory(Matches(features)))'
          = BuildResult(features, Matches(features), TopCategory(Matches(features)))
    BY <2>1, <2>2 DEF BuildResult
  <2> QED
    BY <2>1, <2>2, <2>4, <2>5 DEF ScanInv
<1> QED
  BY <1>1, <1>2, <1>3, <1>4, <1>5, <1>6, <1>7, <1>8, <1>9, <1>10, <1>11, <1>12
  DEF Next, Stop

-----------------------------------------------------------------------------
(* What every run guarantees.                                              *)

\* The invariant holds in every reachable state.
THEOREM PipelineInductive == Spec => []ScanInv
<1>1. Init => ScanInv
  BY ScanInit
<1>2. ScanInv /\ [Next \/ Stop]_vars => ScanInv'
  BY ScanStep
<1> QED
  BY <1>1, <1>2, PTL DEF Spec

\* The state has its types, and the loops and awaits are where they can be: an answer
\* is read only while an HTTP probe that wants a body is due.
THEOREM PipelineTypeCorrect == Spec => []PipelineTypeOK
<1>1. ScanInv => PipelineTypeOK
  BY DEF ScanInv
<1> QED
  BY <1>1, PipelineInductive, PTL

\* Every report tells of each open port what was identified, and takes the port of
\* the URL for what the URL says.
THEOREM ReportAlwaysAccounts == Spec => []ReportAccountsForScan
<1>1. ScanInv => ReportAccountsForScan
  <2> SUFFICES ASSUME ScanInv, phase = "returned"
               PROVE  /\ report.ports = Open
                      /\ DOMAIN report.protocols = Open
                      /\ HintedPort \in Open =>
                           report.protocols[HintedPort].protocol # "tcp"
                      /\ \A e \in report.endpoints :
                           report.protocols[e.port].protocol \in {"http", "https"}
    BY DEF ReportAccountsForScan
  <2>1. \A all, matches, top : /\ BuildResult(all, matches, top).ports = Open
                               /\ BuildResult(all, matches, top).protocols = protocols
                               /\ BuildResult(all, matches, top).endpoints = endpoints
    BY DEF BuildResult
  <2>2. report.ports = Open /\ report.protocols = protocols /\ report.endpoints = endpoints
    BY <2>1 DEF ScanInv
  <2> QED
    BY <2>2 DEF ScanInv
<1> QED
  BY <1>1, PipelineInductive, PTL

\* A finding of a scanner has the name of the scanner.
LEMMA ScannerFindingsAre ==
  ASSUME ScanInv, NEW v \in leaks
  PROVE  ScannerFinding(v).by \in {"gitleaks", "trivy"}
<1>1. CASE v \in Secrets
  <2>1. SecretFinding(v).by = "gitleaks"
    BY DEF SecretFinding
  <2> QED
    BY <1>1, <2>1 DEF ScannerFinding
<1>2. CASE v \notin Secrets
  <2>1. v \in {"CRITICAL", "HIGH", "MEDIUM"}
    BY <1>2 DEF ScanInv, PipelineTypeOK, Reportable, Secrets
  <2>2. CASE v = "CRITICAL"
    BY <1>2, <2>2 DEF ScannerFinding, VulnerabilityFinding
  <2>3. CASE v = "HIGH"
    BY <1>2, <2>3 DEF ScannerFinding, VulnerabilityFinding
  <2>4. CASE v = "MEDIUM"
    BY <1>2, <2>4 DEF ScannerFinding, VulnerabilityFinding
  <2> QED
    BY <2>1, <2>2, <2>3, <2>4
<1> QED
  BY <1>1, <1>2

\* In every report the score, the level and the privilege are those of the findings
\* that the rules made, whatever the catalogue and the features.
THEOREM AggregatesAlwaysFit == Spec => []AggregatesFitRuleFindings
<1>1. ASSUME ScanInv, phase = "returned"
      PROVE  /\ \A f \in RuleFindings : /\ f.score <= report.score
                                        /\ f.privilege = report.privilege
             /\ report.score = 0 \/ \E f \in RuleFindings : f.score = report.score
             /\ report.level = ScoreToRiskLevel(report.score)
  <2> DEFINE top   == TopCategory(Matches(features))
             made  == EvaluateRiskRules(top, features, endpoints,
                        {protocols[p].protocol : p \in DOMAIN protocols})
             score == OverallRiskScore(made)
  <2>1. /\ report.findings = made \cup {ScannerFinding(v) : v \in leaks}
        /\ report.score = score
        /\ report.level = ScoreToRiskLevel(score)
        /\ report.privilege = DeriveMaxPrivilege(top, made)
    BY <1>1 DEF ScanInv, BuildResult
  <2>2. /\ \A f \in made : f.score <= score /\ f.privilege = DeriveMaxPrivilege(top, made)
        /\ score = 0 \/ \E f \in made : f.score = score
    BY AggregatesAre
  <2>3. \A f \in made : f.by \in DOMAIN RiskRules
    BY RuleFindingsAre
  <2>4. \A v \in leaks : ScannerFinding(v).by \notin DOMAIN RiskRules
    BY <1>1, ScannerFindingsAre, ScannersAreNoRules
  <2> HIDE DEF top, made, score
  <2>5. RuleFindings = made
    BY <2>1, <2>3, <2>4 DEF RuleFindings
  <2> QED
    BY <2>1, <2>2, <2>5
<1>2. ScanInv => AggregatesFitRuleFindings
  BY <1>1 DEF AggregatesFitRuleFindings
<1> QED
  BY <1>2, PipelineInductive, PTL

-----------------------------------------------------------------------------
(* Sums and confidences.                                                   *)

\* One equation for the partial sums of a list.
Sums(w, n, t) == t = [k \in 0..n |-> IF k = 0 THEN 0 ELSE t[k - 1] + w[k]]

LEMMA SumsExist ==
  ASSUME NEW n \in Nat, NEW w, \A i \in 1..n : w[i] \in Int
  PROVE  \E t \in [0..n -> Int] : Sums(w, n, t)
<1> DEFINE Has(k) == \E t \in [0..k -> Int] : Sums(w, k, t)
           Bad == {k \in 0..n : ~ Has(k)}
<1>1. Has(0)
  <2> DEFINE t == [k \in 0..0 |-> 0]
  <2>1. t \in [0..0 -> Int] /\ t = [k \in 0..0 |-> IF k = 0 THEN 0 ELSE t[k - 1] + w[k]]
    OBVIOUS
  <2> HIDE DEF t
  <2> QED
    BY <2>1 DEF Sums
<1>2. ASSUME NEW k \in 0..(n - 1), Has(k)
      PROVE  Has(k + 1)
  <2>1. PICK t \in [0..k -> Int] : t = [j \in 0..k |-> IF j = 0 THEN 0 ELSE t[j - 1] + w[j]]
    BY <1>2 DEF Sums
  <2> DEFINE u == [j \in 0..(k + 1) |-> IF j = k + 1 THEN t[k] + w[k + 1] ELSE t[j]]
  <2>2. k \in Nat /\ w[k + 1] \in Int /\ t[k] \in Int
    BY <2>1
  <2>3. u \in [0..(k + 1) -> Int]
    BY <2>2
  <2>4. \A j \in 0..(k + 1) : u[j] = IF j = 0 THEN 0 ELSE u[j - 1] + w[j]
    <3> TAKE j \in 0..(k + 1)
    <3>1. CASE j = k + 1
      BY <2>2, <3>1
    <3>2. CASE j # k + 1
      <4>1. j \in 0..k /\ (j # 0 => j - 1 \in 0..k /\ j - 1 # k + 1 /\ j - 1 \in 0..(k + 1))
        BY <2>2, <3>2
      <4>2. u[j] = t[j] /\ (j # 0 => u[j - 1] = t[j - 1])
        BY <3>2, <4>1
      <4>3. t[j] = IF j = 0 THEN 0 ELSE t[j - 1] + w[j]
        BY <2>1, <4>1
      <4> QED
        BY <4>2, <4>3
    <3> QED
      BY <3>1, <3>2
  <2> HIDE DEF u
  <2>5. u = [j \in 0..(k + 1) |-> IF j = 0 THEN 0 ELSE u[j - 1] + w[j]]
    <3>1. u = [j \in 0..(k + 1) |-> u[j]]
      BY <2>3
    <3> QED
      BY <2>4, <3>1
  <2> QED
    BY <2>3, <2>5 DEF Sums
<1>3. Bad = {}
  <2>1. SUFFICES ASSUME Bad # {} PROVE FALSE
    OBVIOUS
  <2>2. PICK m \in Bad : \A x \in Bad : m <= x
    <3>1. Bad \in SUBSET Nat
      OBVIOUS
    <3> HIDE DEF Bad
    <3> QED
      BY <2>1, <3>1, LeastExists
  <2> HIDE DEF Has
  <2>3. m \in 0..n /\ ~ Has(m) /\ m # 0
    BY <1>1, <2>2
  <2>4. m - 1 \in 0..(n - 1) /\ m - 1 \in 0..n /\ ~ (m <= m - 1) /\ (m - 1) + 1 = m
    BY <2>3
  <2>5. m - 1 \notin Bad
    BY <2>2, <2>4
  <2>6. Has(m - 1)
    BY <2>4, <2>5
  <2>7. Has((m - 1) + 1)
    BY <1>2, <2>4, <2>6
  <2> QED
    BY <2>3, <2>4, <2>7
<1>4. n \in 0..n
  OBVIOUS
<1>5. Has(n)
  <2> HIDE DEF Has
  <2> QED
    BY <1>3, <1>4
<1> QED
  BY <1>5

\* A list of numbers has partial sums, and Total is the last of them.
LEMMA TotalIs ==
  ASSUME NEW w \in Seq(Int)
  PROVE  \E t \in [0..Len(w) -> Int] :
           /\ t[0] = 0 /\ \A k \in 1..Len(w) : t[k] = t[k - 1] + w[k]
           /\ Total(w) = t[Len(w)]
<1> DEFINE n == Len(w)
           total == CHOOSE t : t = [k \in 0..n |-> IF k = 0 THEN 0 ELSE t[k - 1] + w[k]]
<1>1. n \in Nat /\ \A i \in 1..n : w[i] \in Int
  OBVIOUS
<1>2. Total(w) = total[n]
  BY DEF Total
<1> HIDE DEF n
<1>3. total = [k \in 0..n |-> IF k = 0 THEN 0 ELSE total[k - 1] + w[k]]
  <2>1. \E t : t = [k \in 0..n |-> IF k = 0 THEN 0 ELSE t[k - 1] + w[k]]
    <3>1. \E t \in [0..n -> Int] : Sums(w, n, t)
      BY ONLY <1>1, SumsExist
    <3> QED
      BY <3>1 DEF Sums
  <2> QED
    BY <2>1
<1> HIDE DEF total
<1>4. total[0] = 0
  BY <1>1, <1>3
<1>5. \A k \in 1..n : total[k] = total[k - 1] + w[k]
  <2> TAKE k \in 1..n
  <2>1. k \in 0..n /\ k # 0
    BY <1>1
  <2> QED
    BY <1>3, <2>1
<1>6. \A k \in 0..n : total[k] \in Int
  <2> DEFINE Bad == {k \in 0..n : total[k] \notin Int}
  <2>1. SUFFICES ASSUME Bad # {} PROVE FALSE
    OBVIOUS
  <2>2. PICK m \in Bad : \A x \in Bad : m <= x
    <3>1. Bad \in SUBSET Nat
      OBVIOUS
    <3> HIDE DEF Bad
    <3> QED
      BY <2>1, <3>1, LeastExists
  <2>3. m \in 1..n
    BY <1>4, <2>2
  <2>4. m - 1 \in 0..n /\ ~ (m <= m - 1)
    BY <1>1, <2>3
  <2>5. total[m - 1] \in Int
    BY <2>2, <2>4
  <2> QED
    BY <1>1, <1>5, <2>2, <2>3, <2>5
<1>7. total \in [0..n -> Int]
  <2>1. total = [k \in 0..n |-> total[k]]
    BY <1>3
  <2> QED
    BY <1>6, <2>1
<1> QED
  BY <1>2, <1>4, <1>5, <1>7 DEF n

\* A list that is nowhere greater has no greater sum.
LEMMA TotalMonotone ==
  ASSUME NEW v \in Seq(Int), NEW w \in Seq(Int), Len(v) = Len(w),
         \A k \in 1..Len(w) : v[k] <= w[k]
  PROVE  Total(v) \in Int /\ Total(w) \in Int /\ Total(v) <= Total(w)
<1> DEFINE n == Len(w)
<1>1. n \in Nat /\ \A k \in 1..n : v[k] \in Int /\ w[k] \in Int /\ v[k] <= w[k]
  OBVIOUS
<1>2. PICK s \in [0..n -> Int] : /\ s[0] = 0 /\ \A k \in 1..n : s[k] = s[k - 1] + v[k]
                                /\ Total(v) = s[n]
  BY TotalIs
<1>3. PICK t \in [0..n -> Int] : /\ t[0] = 0 /\ \A k \in 1..n : t[k] = t[k - 1] + w[k]
                                /\ Total(w) = t[n]
  BY TotalIs
<1> HIDE DEF n
<1>4. \A k \in 0..n : s[k] <= t[k]
  <2> DEFINE Bad == {k \in 0..n : ~ (s[k] <= t[k])}
  <2>1. SUFFICES ASSUME Bad # {} PROVE FALSE
    OBVIOUS
  <2>2. PICK m \in Bad : \A x \in Bad : m <= x
    <3>1. Bad \in SUBSET Nat
      OBVIOUS
    <3> HIDE DEF Bad
    <3> QED
      BY <2>1, <3>1, LeastExists
  <2>3. m \in 1..n
    BY <1>2, <1>3, <2>2
  <2>4. m - 1 \in 0..n /\ ~ (m <= m - 1)
    BY <1>1, <2>3
  <2>5. s[m - 1] <= t[m - 1]
    BY <2>2, <2>4
  <2>6. /\ s[m] = s[m - 1] + v[m] /\ t[m] = t[m - 1] + w[m]
        /\ s[m - 1] \in Int /\ t[m - 1] \in Int
    BY <1>2, <1>3, <2>3, <2>4
  <2>7. ~ (s[m] <= t[m])
    BY <2>2
  <2>8. v[m] \in Int /\ w[m] \in Int /\ v[m] <= w[m]
    BY <1>1, <2>3
  <2> QED
    BY ONLY <2>5, <2>6, <2>7, <2>8
<1>5. n \in 0..n
  BY <1>1
<1> QED
  BY <1>2, <1>3, <1>4, <1>5

\* The weights of a fingerprint, and those that are found.
LEMMA WeightsAre ==
  ASSUME NEW i \in 1..Len(Fingerprints)
  PROVE  LET signals == Fingerprints[i].signals
         IN  /\ Len(signals) \in Nat /\ DOMAIN signals = 1..Len(signals)
             /\ \A n \in 1..Len(signals) : signals[n].weight \in Int
             /\ Fingerprints[i].category \in Category
BY FingerprintsAssumption DEF FingerprintType

Found(i, features_) ==
  [n \in 1..Len(Fingerprints[i].signals) |->
    IF IsFound(Fingerprints[i].signals[n], features_) THEN Fingerprints[i].signals[n].weight
                                                      ELSE 0]

LEMMA ListIs ==
  ASSUME NEW n \in Nat, NEW w \in [1..n -> Int]
  PROVE  w \in Seq(Int) /\ Len(w) = n
OBVIOUS

\* A confidence is a whole number of hundredths.
LEMMA ConfidenceIs ==
  ASSUME NEW i \in 1..Len(Fingerprints), NEW fs
  PROVE  /\ Found(i, fs) \in Seq(Int)
         /\ Len(Found(i, fs)) = Len(Fingerprints[i].signals)
         /\ Confidence(Fingerprints[i], fs) = Clamp(Total(Found(i, fs)))
         /\ Confidence(Fingerprints[i], fs) \in 0..100
<1> DEFINE n == Len(Fingerprints[i].signals)
<1>1. n \in Nat /\ Found(i, fs) \in [1..n -> Int]
  BY WeightsAre DEF Found
<1>2. Found(i, fs) \in Seq(Int) /\ Len(Found(i, fs)) = n
  BY ONLY <1>1, ListIs
<1>3. Confidence(Fingerprints[i], fs) = Clamp(Total(Found(i, fs)))
  BY DEF Confidence, Found
<1>4. Total(Found(i, fs)) \in Int
  BY <1>2, TotalMonotone
<1>5. \A x \in Int : Clamp(x) \in 0..100
  BY DEF Clamp
<1> QED
  BY <1>2, <1>3, <1>4, <1>5

\* The most that the weights of some signals can add up to.
LEMMA ShareIs ==
  ASSUME NEW i \in 1..Len(Fingerprints), NEW indices
  PROVE  LET signals == Fingerprints[i].signals
             share == [n \in 1..Len(signals) |->
                        IF n \in indices /\ signals[n].weight > 0
                        THEN signals[n].weight ELSE 0]
         IN  /\ share \in Seq(Int) /\ Len(share) = Len(signals)
             /\ Share(Fingerprints[i], indices) = Total(share)
<1> DEFINE signals == Fingerprints[i].signals
           share == [n \in 1..Len(signals) |->
                      IF n \in indices /\ signals[n].weight > 0
                      THEN signals[n].weight ELSE 0]
<1>1. Len(signals) \in Nat /\ share \in [1..Len(signals) -> Int]
  BY WeightsAre
<1>2. share \in Seq(Int) /\ Len(share) = Len(signals)
  BY ONLY <1>1, ListIs
<1>3. Share(Fingerprints[i], indices) = Total(share)
  BY DEF Share
<1> QED
  BY <1>2, <1>3

\* The fingerprints of the matches, and their confidence.
LEMMA MatchesAre ==
  ASSUME NEW fs, NEW m \in Matches(fs)
  PROVE  /\ m.fingerprint \in 1..Len(Fingerprints)
         /\ m.confidence = Confidence(Fingerprints[m.fingerprint], fs)
         /\ m.confidence \in 70..100
<1>1. PICK i \in 1..Len(Fingerprints) :
        m = [fingerprint |-> i, confidence |-> Confidence(Fingerprints[i], fs)]
  BY DEF Matches
<1>2. m.confidence >= 70
  BY DEF Matches, SuspectedThreshold
<1>3. m.fingerprint = i /\ m.confidence = Confidence(Fingerprints[i], fs)
  BY <1>1
<1>4. m.confidence \in 0..100
  BY <1>3, ConfidenceIs
<1>5. \A x \in 0..100 : x >= 70 => x \in 70..100
  OBVIOUS
<1>6. m.confidence \in 70..100
  BY <1>2, <1>4, <1>5, Zenon
<1> QED
  BY <1>3, <1>6, Zenon

\* If what is found is among signals that do not reach the threshold alone, the
\* fingerprint does not.
LEMMA PartIsNotEnough ==
  ASSUME NEW i \in 1..Len(Fingerprints), NEW fs, NEW indices,
         Share(Fingerprints[i], indices) < SuspectedThreshold,
         \A n \in 1..Len(Fingerprints[i].signals) :
           IsFound(Fingerprints[i].signals[n], fs) => n \in indices
  PROVE  Confidence(Fingerprints[i], fs) < SuspectedThreshold
<1> DEFINE signals == Fingerprints[i].signals
           share == [n \in 1..Len(signals) |->
                      IF n \in indices /\ signals[n].weight > 0
                      THEN signals[n].weight ELSE 0]
           found == Found(i, fs)
<1>1. /\ share \in Seq(Int) /\ Len(share) = Len(signals)
      /\ Share(Fingerprints[i], indices) = Total(share)
  BY ShareIs
<1>2. /\ found \in Seq(Int) /\ Len(found) = Len(signals)
      /\ Confidence(Fingerprints[i], fs) = Clamp(Total(found))
  BY ConfidenceIs
<1>3. \A n \in 1..Len(signals) : found[n] <= share[n]
  <2> TAKE n \in 1..Len(signals)
  <2>1. signals[n].weight \in Int
    BY WeightsAre
  <2>2. found[n] = IF IsFound(signals[n], fs) THEN signals[n].weight ELSE 0
    BY DEF Found
  <2>3. share[n] = IF n \in indices /\ signals[n].weight > 0 THEN signals[n].weight ELSE 0
    OBVIOUS
  <2>4. IsFound(signals[n], fs) => n \in indices
    OBVIOUS
  <2> HIDE DEF signals, found, share
  <2> QED
    BY <2>1, <2>2, <2>3, <2>4
<1> HIDE DEF share, found
<1>4. Total(found) \in Int /\ Total(share) \in Int /\ Total(found) <= Total(share)
  <2>1. Len(found) = Len(share) /\ \A n \in 1..Len(share) : found[n] <= share[n]
    BY <1>1, <1>2, <1>3
  <2> QED
    BY ONLY <1>1, <1>2, <2>1, TotalMonotone
<1>5. Total(share) < 70
  BY <1>1 DEF SuspectedThreshold
<1>6. Clamp(Total(found)) < 70
  BY <1>4, <1>5 DEF Clamp
<1> QED
  BY <1>2, <1>6 DEF SuspectedThreshold

\* A fingerprint neither whose signals about content nor whose other signals reach the
\* threshold is reported only on evidence of both kinds.
THEOREM FingerprintsAlwaysCombine == Spec => []FingerprintsCombineEvidence
<1>1. ASSUME ScanInv, phase = "returned",
             NEW i \in report.fingerprints, IsBalanced(Fingerprints[i])
      PROVE  LET signals == Range(Fingerprints[i].signals)
                 types   == {s.type : s \in {t \in signals : IsFound(t, features)}}
             IN  types \cap ContentTypes # {} /\ types \ ContentTypes # {}
  <2> DEFINE signals == Fingerprints[i].signals
             found   == {t \in Range(signals) : IsFound(t, features)}
             types   == {s.type : s \in found}
  <2>1. report.fingerprints = {m.fingerprint : m \in Matches(features)}
    BY <1>1 DEF ScanInv, BuildResult
  <2>2. PICK m \in Matches(features) : m.fingerprint = i
    BY <1>1, <2>1
  <2>3. i \in 1..Len(Fingerprints) /\ ~ (Confidence(Fingerprints[i], features) < 70)
    <3>1. /\ i \in 1..Len(Fingerprints)
          /\ m.confidence = Confidence(Fingerprints[i], features)
          /\ m.confidence \in 70..100
      BY <2>2, MatchesAre, Zenon
    <3>2. \A x \in 70..100 : ~ (x < 70)
      OBVIOUS
    <3> QED
      BY <3>1, <3>2, Zenon
  <2>4. \A n \in 1..Len(signals) : signals[n] \in Range(signals)
    BY <2>3, WeightsAre DEF Range
  <2>5. \A n \in 1..Len(signals) : IsFound(signals[n], features) => signals[n].type \in types
    BY <2>4
  <2> DEFINE content == {n \in DOMAIN signals : signals[n].type \in ContentTypes}
  <2>6. /\ Share(Fingerprints[i], content) < SuspectedThreshold
        /\ Share(Fingerprints[i], DOMAIN signals \ content) < SuspectedThreshold
    BY <1>1 DEF IsBalanced
  <2>7. DOMAIN signals = 1..Len(signals)
    BY <2>3, WeightsAre
  <2> HIDE DEF types
  <2>8. types \cap ContentTypes # {}
    <3> SUFFICES ASSUME types \cap ContentTypes = {} PROVE FALSE
      OBVIOUS
    <3>1. \A n \in 1..Len(signals) :
            IsFound(signals[n], features) => n \in DOMAIN signals \ content
      BY <2>5, <2>7
    <3> HIDE DEF content
    <3> QED
      BY <2>3, <2>6, <3>1, PartIsNotEnough DEF SuspectedThreshold
  <2>9. types \ ContentTypes # {}
    <3> SUFFICES ASSUME types \ ContentTypes = {} PROVE FALSE
      OBVIOUS
    <3>1. \A n \in 1..Len(signals) : IsFound(signals[n], features) => n \in content
      BY <2>5, <2>7
    <3> HIDE DEF content
    <3> QED
      BY <2>3, <2>6, <3>1, PartIsNotEnough DEF SuspectedThreshold
  <2> QED
    BY <2>8, <2>9 DEF types
<1>2. ScanInv => FingerprintsCombineEvidence
  BY <1>1 DEF FingerprintsCombineEvidence
<1> QED
  BY <1>2, PipelineInductive, PTL

-----------------------------------------------------------------------------
(* An exposed model API.                                                   *)

\* When something matches, the top category is that of one of the matches.
LEMMA TopIs ==
  ASSUME NEW fs, Matches(fs) # {}
  PROVE  \E m \in Matches(fs) :
           TopCategory(Matches(fs)) = Fingerprints[m.fingerprint].category
<1> DEFINE matches == Matches(fs)
           confidences == {m.confidence : m \in matches}
           IsTop(m) == \A other \in matches :
                         \/ m.confidence > other.confidence
                         \/ /\ m.confidence = other.confidence
                            /\ m.fingerprint <= other.fingerprint
           top == CHOOSE m \in matches : IsTop(m)
<1>1. \A m \in matches : /\ m.fingerprint \in 1..Len(Fingerprints)
                         /\ m.confidence \in 70..100
  BY MatchesAre, Zenon
<1>2. TopCategory(matches) = Fingerprints[top.fingerprint].category
  BY DEF TopCategory
<1>3. matches # {}
  OBVIOUS
<1> HIDE DEF matches
<1>4. PICK c \in confidences : \A d \in confidences : d <= c
  <2>1. confidences \in SUBSET (0..100) /\ confidences # {}
    <3>1. \A x \in 70..100 : x \in 0..100
      OBVIOUS
    <3> QED
      BY <1>1, <1>3, <3>1, Zenon
  <2> HIDE DEF confidences
  <2> QED
    BY <2>1, MaxIs
<1> DEFINE most  == {m \in matches : m.confidence = c}
           numbers == {m.fingerprint : m \in most}
<1>5. PICK i \in numbers : \A j \in numbers : i <= j
  <2>1. numbers \in SUBSET Nat /\ numbers # {}
    BY <1>1, <1>4
  <2> HIDE DEF numbers
  <2> QED
    BY <2>1, LeastExists
<1>6. PICK m \in matches : m.confidence = c /\ m.fingerprint = i
  BY <1>5
<1>7. IsTop(m)
  <2> SUFFICES ASSUME NEW other \in matches
               PROVE  \/ m.confidence > other.confidence
                      \/ /\ m.confidence = other.confidence
                         /\ m.fingerprint <= other.fingerprint
    OBVIOUS
  <2>1. other.confidence <= c
    BY <1>4
  <2>2. other.confidence = c => i <= other.fingerprint
    BY <1>5
  <2>3. other.confidence \in 70..100 /\ c \in 70..100
    BY <1>1, <1>6
  <2> QED
    BY <1>6, <2>1, <2>2, <2>3
<1> HIDE DEF IsTop
<1>8. top \in matches
  BY <1>6, <1>7
<1> QED
  BY <1>2, <1>8 DEF matches

\* The conditions of the two rules about services that answer without authentication.
LEMMA UnauthenticatedConditions ==
  /\ \A cs : /\ OfCategory(cs).categories = cs /\ OfCategory(cs).sensitive = FALSE
             /\ OfCategory(cs).patterns = {} /\ OfCategory(cs).plaintext = FALSE
  /\ /\ SensitiveEndpoint.categories = {} /\ SensitiveEndpoint.patterns = {}
     /\ SensitiveEndpoint.plaintext = FALSE
  /\ \A c, l, e, x, g : Rule(c, l, e, x, g).conditions = c
<1>1. ASSUME NEW cs
      PROVE  /\ OfCategory(cs).categories = cs /\ OfCategory(cs).sensitive = FALSE
             /\ OfCategory(cs).patterns = {} /\ OfCategory(cs).plaintext = FALSE
  BY DEF OfCategory, NoConditions
<1>2. /\ SensitiveEndpoint.categories = {} /\ SensitiveEndpoint.patterns = {}
      /\ SensitiveEndpoint.plaintext = FALSE
  BY DEF SensitiveEndpoint, NoConditions
<1>3. \A c, l, e, x, g : Rule(c, l, e, x, g).conditions = c
  BY DEF Rule
<1> QED
  BY <1>1, <1>2, <1>3

\* An open list of models is a critical exposure on an asset whose top category is at
\* least that of an agent framework.
LEMMA ExposedModelApiScores ==
  ASSUME NEW top \in Category \ LesserCategories, NEW fs, NEW es, NEW ps,
         NEW e \in es, e.path = "/api/tags", ~ AuthRequired(e)
  PROVE  \E f \in EvaluateRiskRules(top, fs, es, ps) : f.score \in Nat /\ f.score >= 75
<1> DEFINE p == PrivilegeScore(top)
<1>1. \A id \in DOMAIN RiskRules :
        MatchRule(RiskRules[id], top, fs, es, ps)
          => BuildFinding(id, p) \in EvaluateRiskRules(top, fs, es, ps)
  BY DEF EvaluateRiskRules
<1>2. CASE top = "llm_api"
  <2> DEFINE id == "exposed_api_critical"
  <2>1. id \in DOMAIN RiskRules /\ RiskRules[id] =
          Rule(OfCategory({"llm_api"}), "critical", 100, Reproducible, 100)
    BY DEF RiskRules
  <2>2. MatchRule(RiskRules[id], top, fs, es, ps)
    <3> DEFINE c == RiskRules[id].conditions
    <3>1. c = OfCategory({"llm_api"})
      BY <2>1, UnauthenticatedConditions
    <3>2. /\ c.categories = {"llm_api"} /\ c.sensitive = FALSE
          /\ c.patterns = {} /\ c.plaintext = FALSE
      BY <3>1, UnauthenticatedConditions, Zenon
    <3> QED
      BY <1>2, <3>2, Zenon DEF MatchRule
  <2>3. CompositeScore(RiskRules[id], 9) = 83
    BY <2>1 DEF CompositeScore, Rounded, WeightedSum, FallsShort, Clamp, Rule,
      Reproducible, PathReachability
  <2>4. p = 9
    BY <1>2 DEF PrivilegeScore
  <2>5. BuildFinding(id, p).score = 83
    BY <2>3, <2>4 DEF BuildFinding
  <2> QED
    BY <1>1, <2>1, <2>2, <2>5
<1>3. CASE top # "llm_api"
  <2> DEFINE id == "unauthorized_sensitive_endpoint"
  <2>1. id \in DOMAIN RiskRules /\ RiskRules[id] =
          Rule(SensitiveEndpoint, "high", 75, Reproducible, 100)
    BY DEF RiskRules
  <2>2. MatchRule(RiskRules[id], top, fs, es, ps)
    <3> DEFINE c == RiskRules[id].conditions
    <3>1. c = SensitiveEndpoint
      BY <2>1, UnauthenticatedConditions
    <3>2. c.categories = {} /\ c.patterns = {} /\ c.plaintext = FALSE
      BY <3>1, UnauthenticatedConditions, Zenon
    <3> QED
      BY <3>2, Zenon DEF MatchRule, SensitivePaths
  <2>3. CompositeScore(RiskRules[id], 8) = 75 /\ CompositeScore(RiskRules[id], 9) = 78
    BY <2>1 DEF CompositeScore, Rounded, WeightedSum, FallsShort, Clamp, Rule,
      Reproducible, PathReachability
  <2>4. p \in {8, 9}
    BY <1>3 DEF PrivilegeScore, Category, LesserCategories
  <2>5. BuildFinding(id, p).score \in {75, 78}
    BY <2>3, <2>4 DEF BuildFinding
  <2> QED
    BY <1>1, <2>1, <2>2, <2>5
<1> QED
  BY <1>2, <1>3

\* An open list of models makes the report critical, with any catalogue, when a model
\* API is among the matches and no application, MCP server or lesser service is.
THEOREM ExposedModelApiAlwaysCritical == Spec => []ExposedModelApiIsCritical
<1> DEFINE categories == {Fingerprints[i].category : i \in report.fingerprints}
<1>1. ASSUME ScanInv, phase = "returned",
             "llm_api" \in categories, categories \cap LesserCategories = {},
             NEW e \in report.endpoints, e.path = "/api/tags", ~ AuthRequired(e)
      PROVE  report.level = "critical"
  <2> DEFINE matches == Matches(features)
             top   == TopCategory(matches)
             ps    == {protocols[p].protocol : p \in DOMAIN protocols}
             made  == EvaluateRiskRules(top, features, endpoints, ps)
             score == OverallRiskScore(made)
  <2>1. /\ report.fingerprints = {m.fingerprint : m \in matches}
        /\ report.endpoints = endpoints
        /\ report.level = ScoreToRiskLevel(score)
    BY <1>1 DEF ScanInv, BuildResult
  <2>2. matches # {}
    BY <1>1, <2>1
  <2>3. PICK m \in matches : top = Fingerprints[m.fingerprint].category
    BY <2>2, TopIs
  <2>4. top \in Category
    <3>1. m.fingerprint \in 1..Len(Fingerprints)
      BY <2>3, MatchesAre, Zenon
    <3> QED
      BY <2>3, <3>1, WeightsAre, Zenon
  <2>5. top \in categories
    BY <2>1, <2>3
  <2>6. top \in Category \ LesserCategories
    BY <1>1, <2>4, <2>5
  <2>7. PICK f \in made : f.score \in Nat /\ f.score >= 75
    <3>1. e \in endpoints
      BY <1>1, <2>1
    <3> HIDE DEF top, ps
    <3> QED
      BY <1>1, <2>6, <3>1, ExposedModelApiScores
  <2>8. f.score <= score /\ (score = 0 \/ \E g \in made : g.score = score)
    BY <2>7, AggregatesAre
  <2>9. \A g \in made : g.score \in 0..100
    BY RuleFindingsAre
  <2> HIDE DEF made, score
  <2>10. score \in 0..100 /\ score >= 75
    BY <2>7, <2>8, <2>9
  <2> QED
    BY <2>1, <2>10 DEF ScoreToRiskLevel
<1>2. ScanInv => ExposedModelApiIsCritical
  BY <1>1 DEF ExposedModelApiIsCritical
<1> QED
  BY <1>2, PipelineInductive, PTL

-----------------------------------------------------------------------------
(* Where features come from.                                               *)

\* A feature is what it was made of.
LEMMA FeatureIs ==
  ASSUME NEW type, NEW value, NEW port, NEW by
  PROVE  LET f == Feature(type, value, <<port, by>>)
         IN  f.type = type /\ f.value = value /\ f.from[1] = port
BY DEF Feature

\* The turn at hand is a probe of the catalogue on an open port of its own.
LEMMA TurnIs ==
  ASSUME ScanInv, phase = "probing", cursor # 0
  PROVE  Port \in Open /\ \E i \in DOMAIN Probes : Probe = Probes[i] /\ Port \in Probe.ports
<1>1. cursor \in Nat /\ Port \in Open /\ Port \in Probe.ports
  BY TurnsAre DEF ScanInv, PipelineTypeOK, ProbeTurns, Port, Probe
<1>2. Len(Probes) \in Nat /\ Len(Probes) # 0 /\ DOMAIN Probes = 1..Len(Probes)
  BY PipelineAssumption
<1>3. ((cursor - 1) % Len(Probes)) + 1 \in 1..Len(Probes)
  BY <1>1, <1>2
<1> QED
  BY <1>1, <1>2, <1>3 DEF Probe, ProbeAt

\* What is made of an answer is of the port and what its probe looks for.
LEMMA ExtractedShows ==
  ASSUME ScanInv, phase = "probing", cursor # 0, NEW status, NEW seen \in SUBSET Probe.sees,
         NEW f \in Extracted(status, seen)
  PROVE  f.from[1] \in Open /\ Shows(f.from[1], f.type, f.value)
<1> DEFINE from == <<Port, Probe.id>>
<1>1. PICK i \in DOMAIN Probes : Probe = Probes[i] /\ Port \in Probe.ports
  BY TurnIs
<1>2. Port \in Open
  BY TurnIs
<1>3. CASE f \in {Feature(Probe.content, v, from) : v \in seen}
  <2>1. PICK v \in seen : f = Feature(Probe.content, v, from)
    BY <1>3
  <2>2. f.type = Probe.content /\ f.value = v /\ f.from[1] = Port
    BY <2>1, FeatureIs
  <2> QED
    BY <1>1, <1>2, <2>2 DEF Shows
<1>4. CASE f \notin {Feature(Probe.content, v, from) : v \in seen}
  <2>1. /\ f.type \in Probe.extracts
        /\ f \in {Feature("http_status", "200", from), Feature("api_path", Probe.path, from)}
    BY <1>4 DEF Extracted
  <2>2. CASE f = Feature("http_status", "200", from)
    <3>1. f.type = "http_status" /\ f.value = "200" /\ f.from[1] = Port
      BY <2>2, FeatureIs
    <3> QED
      BY <1>1, <1>2, <2>1, <3>1 DEF Shows
  <2>3. CASE f = Feature("api_path", Probe.path, from)
    <3>1. f.type = "api_path" /\ f.value = Probe.path /\ f.from[1] = Port
      BY <2>3, FeatureIs
    <3> QED
      BY <1>1, <1>2, <2>1, <3>1 DEF Shows
  <2> QED
    BY <2>1, <2>2, <2>3
<1> QED
  BY <1>3, <1>4

\* A probe that ends keeps the origins.
LEMMA MatchedKeepsOrigins ==
  ASSUME FeaturesHaveOrigins, NEW found, NEW reached, Matched(found, reached),
         \A f \in found : f.from[1] \in Open /\ Shows(f.from[1], f.type, f.value)
  PROVE  FeaturesHaveOrigins'
<1>1. features' = features \cup found /\ Open' = Open
  BY DEF Matched, Open
<1> QED
  BY <1>1 DEF FeaturesHaveOrigins, Shows

\* The steps of the probes keep the origins.
LEMMA ProbesKeepOrigins ==
  ASSUME ScanInv, FeaturesHaveOrigins,
         \/ ProbeDeclines \/ TcpProbe \/ HttpProbeFails
         \/ \E status \in Statuses : HttpHeaders(status)
         \/ HttpBody \/ WsMessage \/ WsFails
  PROVE  FeaturesHaveOrigins'
<1>1. phase = "probing" /\ cursor # 0
  BY DEF ProbeDeclines, TcpProbe, HttpProbeFails, HttpHeaders, HttpBody, WsMessage, WsFails,
    Probing
<1>2. CASE ProbeDeclines \/ HttpProbeFails \/ WsFails
  <2>1. Matched({}, {})
    BY <1>2 DEF ProbeDeclines, HttpProbeFails, WsFails
  <2> QED
    BY <2>1, MatchedKeepsOrigins
<1>3. CASE TcpProbe
  <2> DEFINE f == Feature("open_port", Port, <<Port, Probe.id>>)
  <2>1. Matched({f}, {})
    BY <1>3 DEF TcpProbe
  <2>2. f.type = "open_port" /\ f.value = Port /\ f.from[1] = Port
    BY FeatureIs
  <2>3. f.from[1] \in Open /\ Shows(f.from[1], f.type, f.value)
    BY <1>1, <2>2, TurnIs DEF Shows
  <2> HIDE DEF f
  <2> QED
    BY <2>1, <2>3, MatchedKeepsOrigins
<1>4. ASSUME NEW status, NEW seen \in SUBSET Probe.sees, NEW reached,
             Matched(Extracted(status, seen), reached)
      PROVE  FeaturesHaveOrigins'
  BY <1>1, <1>4, ExtractedShows, MatchedKeepsOrigins
<1>5. CASE \E status \in Statuses : HttpHeaders(status)
  <2>1. PICK status \in Statuses : HttpHeaders(status)
    BY <1>5
  <2>2. CASE Probe.head
    BY <1>4, <2>1, <2>2 DEF HttpHeaders, Answered
  <2>3. CASE ~ Probe.head
    <3>1. features' = features /\ Open' = Open
      BY <2>1, <2>3 DEF HttpHeaders, Open
    <3> QED
      BY <3>1 DEF FeaturesHaveOrigins, Shows
  <2> QED
    BY <2>2, <2>3
<1>6. CASE HttpBody
  BY <1>4, <1>6 DEF HttpBody, Answered
<1>7. CASE WsMessage
  BY <1>4, <1>7 DEF WsMessage
<1> QED
  BY <1>2, <1>3, <1>5, <1>6, <1>7

\* Every step keeps the origins.
LEMMA OriginsStep ==
  ScanInv /\ FeaturesHaveOrigins /\ [Next \/ Stop]_vars => FeaturesHaveOrigins'
<1> SUFFICES ASSUME ScanInv, FeaturesHaveOrigins, [Next \/ Stop]_vars
             PROVE  FeaturesHaveOrigins'
  OBVIOUS
<1>1. ASSUME UNCHANGED <<socket, features>>
      PROVE  FeaturesHaveOrigins'
  <2>1. features' = features /\ Open' = Open
    BY <1>1 DEF Open
  <2> QED
    BY <2>1 DEF FeaturesHaveOrigins, Shows
<1>2. CASE \E p \in Range(Ports) : Connect(p) \/ Refuse(p) \/ ConnectTimeout(p)
  <2>1. phase = "scanning" /\ features' = features
    BY <1>2 DEF Connect, Refuse, ConnectTimeout, Finalize
  <2>2. features' = {}
    BY <2>1 DEF ScanInv
  <2> QED
    BY <2>2 DEF FeaturesHaveOrigins
<1>3. CASE \/ ProbeDeclines \/ TcpProbe \/ HttpProbeFails
           \/ \E status \in Statuses : HttpHeaders(status)
           \/ HttpBody \/ WsMessage \/ WsFails
  BY <1>3, ProbesKeepOrigins
<1>4. CASE ProbesEnd
  <2>1. /\ features' = features \cup {Feature("open_port", p, <<p, "pipeline">>) : p \in Open}
        /\ Open' = Open
    BY <1>4 DEF ProbesEnd, Open
  <2>2. ASSUME NEW p \in Open, NEW f, f = Feature("open_port", p, <<p, "pipeline">>)
        PROVE  f.from[1] \in Open /\ Shows(f.from[1], f.type, f.value)
    <3>1. f.type = "open_port" /\ f.value = p /\ f.from[1] = p
      BY <2>2, FeatureIs
    <3> QED
      BY <2>2, <3>1 DEF Shows
  <2> QED
    BY <2>1, <2>2 DEF FeaturesHaveOrigins, Shows
<1>5. CASE Report
  <2>1. features' = features \cup ScannerFeatures /\ Open' = Open
    BY <1>5 DEF Report, Open
  <2>2. ASSUME NEW f \in ScannerFeatures
        PROVE  f.from[1] = "scanner" /\ f.type \in ScannerTypes
    <3>1. PICK v : f = SecretFeature(v) \/ f = VulnerabilityFeature(v)
      BY <2>2 DEF ScannerFeatures
    <3> QED
      BY <3>1, FeatureIs DEF SecretFeature, VulnerabilityFeature, ScannerTypes
  <2> QED
    BY <2>1, <2>2 DEF FeaturesHaveOrigins, Shows
<1>6. CASE UNCHANGED vars
  BY <1>1, <1>6 DEF vars
<1>7. CASE \/ Throw \/ SelectAsset \/ PeerIdentifies \/ TlsFails \/ HeadFails
           \/ PortScanEnds \/ IdentificationEnds \/ RunScanners \/ Stop
           \/ \E s \in Scanners : CheckAvailable(s) \/ ScannerEnds(s)
  <2>1. UNCHANGED <<socket, features>>
    BY <1>7 DEF Throw, SelectAsset, PeerIdentifies, TlsFails, HeadFails, Identified,
      PortScanEnds, IdentificationEnds, RunScanners, Stop, vars, CheckAvailable, ScannerEnds
  <2> QED
    BY <1>1, <2>1
<1> QED
  BY <1>2, <1>3, <1>4, <1>5, <1>6, <1>7 DEF Next

\* Each feature is of an open port and what is looked for there, or of a scanner.
THEOREM FeaturesAlwaysHaveOrigins == Spec => []FeaturesHaveOrigins
<1>1. Init => FeaturesHaveOrigins
  BY DEF Init, FeaturesHaveOrigins
<1> QED
  BY <1>1, OriginsStep, PipelineInductive, PTL DEF Spec

\* A list of numbers that are not positive has no positive sum.
LEMMA TotalOfNone ==
  ASSUME NEW w \in Seq(Int), \A k \in 1..Len(w) : w[k] <= 0
  PROVE  Total(w) \in Int /\ Total(w) <= 0
<1> DEFINE n == Len(w)
<1>1. n \in Nat /\ \A k \in 1..n : w[k] \in Int /\ w[k] <= 0
  OBVIOUS
<1>2. PICK t \in [0..n -> Int] : /\ t[0] = 0 /\ \A k \in 1..n : t[k] = t[k - 1] + w[k]
                                /\ Total(w) = t[n]
  BY TotalIs
<1> HIDE DEF n
<1>3. \A k \in 0..n : t[k] <= 0
  <2> DEFINE Bad == {k \in 0..n : ~ (t[k] <= 0)}
  <2>1. SUFFICES ASSUME Bad # {} PROVE FALSE
    OBVIOUS
  <2>2. PICK m \in Bad : \A x \in Bad : m <= x
    <3>1. Bad \in SUBSET Nat
      OBVIOUS
    <3> HIDE DEF Bad
    <3> QED
      BY <2>1, <3>1, LeastExists
  <2>3. m \in 1..n
    BY <1>2, <2>2
  <2>4. m - 1 \in 0..n /\ ~ (m <= m - 1)
    BY <1>1, <2>3
  <2>5. t[m - 1] <= 0
    BY <2>2, <2>4
  <2>6. t[m] = t[m - 1] + w[m] /\ t[m - 1] \in Int /\ ~ (t[m] <= 0)
    BY <1>2, <2>2, <2>3, <2>4
  <2>7. w[m] \in Int /\ w[m] <= 0
    BY <1>1, <2>3
  <2> QED
    BY ONLY <2>5, <2>6, <2>7
<1>4. n \in 0..n
  BY <1>1
<1> QED
  BY <1>2, <1>3, <1>4

\* Of two sets of features, the one in which all that speaks for a fingerprint is found
\* that is found in the other, and nothing else that speaks against it, gives no less
\* confidence.
LEMMA ConfidenceGrows ==
  ASSUME NEW i \in 1..Len(Fingerprints), NEW fs, NEW gs,
         \A n \in 1..Len(Fingerprints[i].signals) :
           LET signal == Fingerprints[i].signals[n]
           IN  /\ signal.weight > 0 /\ IsFound(signal, fs) => IsFound(signal, gs)
               /\ ~ (signal.weight > 0) /\ IsFound(signal, gs) => IsFound(signal, fs)
  PROVE  Confidence(Fingerprints[i], fs) <= Confidence(Fingerprints[i], gs)
<1> DEFINE signals == Fingerprints[i].signals
           less == Found(i, fs)
           more == Found(i, gs)
<1>1. /\ less \in Seq(Int) /\ Len(less) = Len(signals)
      /\ Confidence(Fingerprints[i], fs) = Clamp(Total(less))
      /\ more \in Seq(Int) /\ Len(more) = Len(signals)
      /\ Confidence(Fingerprints[i], gs) = Clamp(Total(more))
  BY ConfidenceIs
<1>2. \A n \in 1..Len(signals) : less[n] <= more[n]
  <2> TAKE n \in 1..Len(signals)
  <2>1. signals[n].weight \in Int
    BY WeightsAre
  <2>2. /\ less[n] = IF IsFound(signals[n], fs) THEN signals[n].weight ELSE 0
        /\ more[n] = IF IsFound(signals[n], gs) THEN signals[n].weight ELSE 0
    BY DEF Found
  <2>3. /\ signals[n].weight > 0 /\ IsFound(signals[n], fs) => IsFound(signals[n], gs)
        /\ ~ (signals[n].weight > 0) /\ IsFound(signals[n], gs) => IsFound(signals[n], fs)
    OBVIOUS
  <2> HIDE DEF signals, less, more
  <2> QED
    BY <2>1, <2>2, <2>3
<1> HIDE DEF less, more
<1>3. Total(less) \in Int /\ Total(more) \in Int /\ Total(less) <= Total(more)
  <2>1. Len(less) = Len(more) /\ \A n \in 1..Len(more) : less[n] <= more[n]
    BY <1>1, <1>2
  <2> QED
    BY ONLY <1>1, <2>1, TotalMonotone
<1>4. \A m, n \in Int : m <= n => Clamp(m) <= Clamp(n)
  BY DEF Clamp
<1> QED
  BY <1>1, <1>3, <1>4

\* What is not found does not make a fingerprint.
LEMMA NothingIsNotEnough ==
  ASSUME NEW i \in 1..Len(Fingerprints), NEW fs,
         \A n \in 1..Len(Fingerprints[i].signals) :
           Fingerprints[i].signals[n].weight > 0 => ~ IsFound(Fingerprints[i].signals[n], fs)
  PROVE  Confidence(Fingerprints[i], fs) < SuspectedThreshold
<1> DEFINE signals == Fingerprints[i].signals
           found == Found(i, fs)
<1>1. /\ found \in Seq(Int) /\ Len(found) = Len(signals)
      /\ Confidence(Fingerprints[i], fs) = Clamp(Total(found))
  BY ConfidenceIs
<1>2. \A n \in 1..Len(signals) : found[n] <= 0
  <2> TAKE n \in 1..Len(signals)
  <2>1. signals[n].weight \in Int
    BY WeightsAre
  <2>2. found[n] = IF IsFound(signals[n], fs) THEN signals[n].weight ELSE 0
    BY DEF Found
  <2>3. signals[n].weight > 0 => ~ IsFound(signals[n], fs)
    OBVIOUS
  <2> HIDE DEF signals, found
  <2> QED
    BY <2>1, <2>2, <2>3
<1> HIDE DEF found
<1>3. Total(found) \in Int /\ Total(found) <= 0
  BY <1>1, <1>2, TotalOfNone
<1> QED
  BY <1>1, <1>3 DEF Clamp, SuspectedThreshold

\* If each fingerprint of the catalogue is tied to a port, or out of reach, then no
\* fingerprint that is reported was pieced together from several ports: the features of one
\* open port suffice for it.
THEOREM TiedCatalogueIsOfOnePort ==
  ASSUME IsTiedCatalogue
  PROVE  Spec => []EvidenceOfOnePort
<1>1. ASSUME ScanInv, FeaturesHaveOrigins, phase = "returned", NEW i \in report.fingerprints
      PROVE  \E p \in Open :
               Confidence(Fingerprints[i], {f \in features : f.from[1] = p})
                 >= SuspectedThreshold
  <2> DEFINE signals == Fingerprints[i].signals
             Of(p) == {f \in features : f.from[1] = p}
  <2>1. report.fingerprints = {m.fingerprint : m \in Matches(features)}
    BY <1>1 DEF ScanInv, BuildResult
  <2>2. PICK m \in Matches(features) : m.fingerprint = i
    BY <1>1, <2>1
  <2>3. /\ i \in 1..Len(Fingerprints) /\ Confidence(Fingerprints[i], features) \in 70..100
    BY <2>2, MatchesAre, Zenon
  <2>4. ~ (Confidence(Fingerprints[i], features) < SuspectedThreshold)
    <3>1. \A x \in 70..100 : ~ (x < 70)
      OBVIOUS
    <3> QED
      BY <2>3, <3>1, Zenon DEF SuspectedThreshold
  <2>5. DOMAIN signals = 1..Len(signals) /\ i \in DOMAIN Fingerprints
    BY <2>3, WeightsAre, FingerprintsAssumption
  <2>6. ~ (Share(Fingerprints[i], DOMAIN signals) < SuspectedThreshold)
    BY <2>3, <2>4, <2>5, PartIsNotEnough
  <2>7. IsTied(Fingerprints[i])
    BY <2>5 DEF IsTiedCatalogue
  <2>8. PICK port \in Range(Ports) : \A n \in DOMAIN signals : signals[n].weight > 0 =>
          /\ signals[n].type \notin ScannerTypes
          /\ \A other \in Range(Ports), value \in signals[n].values :
               Shows(other, signals[n].type, value) => other = port
    BY <2>6, <2>7 DEF IsTied
  <2>9. ASSUME NEW n \in 1..Len(signals), signals[n].weight > 0,
               NEW f \in features, IsSignalMatch(signals[n], f)
        PROVE  port \in Open /\ f \in Of(port)
    <3>1. signals[n].type = f.type /\ f.value \in signals[n].values
      BY <2>9 DEF IsSignalMatch
    <3>2. f.type \notin ScannerTypes
      BY <2>5, <2>8, <2>9, <3>1
    <3>3. f.from[1] \in Open /\ Shows(f.from[1], f.type, f.value)
      BY <1>1, <3>2 DEF FeaturesHaveOrigins
    <3>4. f.from[1] \in Range(Ports)
      BY <3>3 DEF Open
    <3>5. f.from[1] = port
      BY <2>5, <2>8, <2>9, <3>1, <3>3, <3>4
    <3> QED
      BY <3>3, <3>5
  <2>10. PICK n \in 1..Len(signals) : signals[n].weight > 0 /\ IsFound(signals[n], features)
    BY <2>3, <2>4, NothingIsNotEnough
  <2>11. port \in Open
    BY <2>9, <2>10 DEF IsFound
  <2>12. Confidence(Fingerprints[i], features) <= Confidence(Fingerprints[i], Of(port))
    <3>1. ASSUME NEW k \in 1..Len(signals)
          PROVE  /\ signals[k].weight > 0 /\ IsFound(signals[k], features)
                      => IsFound(signals[k], Of(port))
                 /\ ~ (signals[k].weight > 0) /\ IsFound(signals[k], Of(port))
                      => IsFound(signals[k], features)
      BY <2>9, <3>1 DEF IsFound
    <3> HIDE DEF Of
    <3> QED
      BY <2>3, <3>1, ConfidenceGrows
  <2>13. Confidence(Fingerprints[i], Of(port)) \in 0..100
    BY <2>3, ConfidenceIs
  <2>14. \A x \in 70..100, y \in 0..100 : x <= y => y >= 70
    OBVIOUS
  <2>15. Confidence(Fingerprints[i], Of(port)) >= SuspectedThreshold
    BY <2>3, <2>12, <2>13, <2>14, Zenon DEF SuspectedThreshold
  <2> QED
    BY <2>11, <2>15
<1>2. ScanInv /\ FeaturesHaveOrigins => EvidenceOfOnePort
  BY <1>1 DEF EvidenceOfOnePort
<1> QED
  BY <1>2, PipelineInductive, FeaturesAlwaysHaveOrigins, PTL
=============================================================================
