-------------------------- MODULE RiskDerivation --------------------------
(***************************************************************************)
(* How the backend turns the findings of an engine into the numbers of a   *)
(* RiskSummary.  A list of findings is abstracted to how many findings it  *)
(* holds of each level: its order and the findings' texts are of no        *)
(* consequence to the summary.                                             *)
(***************************************************************************)
EXTENDS Integers

(***************************************************************************)
(* The five RiskLevels of the shared contract, lowest first.  A finding of *)
(* an asset scan may carry any other level, or none at all: "unknown".     *)
(***************************************************************************)
RiskLevels == {"info", "low", "medium", "high", "critical"}
FindingLevels == RiskLevels \cup {"unknown"}

Findings == [FindingLevels -> Nat]

NoFindings == [l \in FindingLevels |-> 0]

\* The level a task is given: the highest level that has a finding.
RiskLevelOf(f) ==
    IF f["critical"] > 0 THEN "critical"
    ELSE IF f["high"] > 0 THEN "high"
    ELSE IF f["medium"] > 0 THEN "medium"
    ELSE IF f["low"] > 0 THEN "low"
    ELSE "info"

\* findings.length: a finding of an unknown level is in no count but this one.
TotalFindings(f) ==
    f["info"] + f["low"] + f["medium"] + f["high"] + f["critical"] + f["unknown"]

\* The part of a RiskSummary that is derived from the findings.
DeriveRiskSummary(f) ==
    [ risk_level |-> RiskLevelOf(f),
      total_findings |-> TotalFindings(f),
      counts |-> [l \in RiskLevels |-> f[l]] ]

DerivedSummaries ==
    [ risk_level : RiskLevels, total_findings : Nat, counts : [RiskLevels -> Nat] ]

===========================================================================
