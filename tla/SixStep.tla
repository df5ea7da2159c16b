------------------------------ MODULE SixStep ------------------------------
(***************************************************************************)
(* runFofaSixStepMinimal: a command line tool that reads a FOFA export,    *)
(* converges it to distinct targets, looks at each with naabu and nmap,    *)
(* matches what it sees with the fingerprint of Ollama, and writes a       *)
(* report with the assets that match and a summary of its steps.           *)
(*                                                                         *)
(* A command that hangs is killed by a timer, which is always set.         *)
(***************************************************************************)
EXTENDS Integers, Sequences, FiniteSets, SequencesExt

CONSTANTS
  Exports,    \* what a file may hold: sequences of records
  MaxTargets  \* the values of maxTargets, in halves; 0 stands for one that is not positive

\* A record names an address and a port; 0 is one that is missing.
FofaRecords == [ip : Nat, port : Nat]

ASSUME ExportsAssumption == Exports \subseteq Seq(FofaRecords)
ASSUME MaxTargetsAssumption == MaxTargets \subseteq Nat

VARIABLES
  stage,      \* what the tool does; idle if it is not run
  records,    \* the records of the file
  limit,      \* maxTargets, once it is normalised
  converged,  \* convergedTargets
  nextTarget, \* the target at hand
  assets,     \* the matches so far
  summary,    \* the counters of the summary, once it is made
  live        \* history: the targets whose port naabu has found open

sixStepVars == <<stage, records, limit, converged, nextTarget, assets, summary, live>>

-----------------------------------------------------------------------------
(* The targets.                                                            *)

\* The loop breaks after the target that reaches the limit, so it takes one in any case.
Take(taken, record, max) ==
  IF \/ record.ip = 0 \/ record.port = 0
     \/ record \in ToSet(taken)
     \/ taken # <<>> /\ Len(taken) >= max
    THEN taken ELSE Append(taken, record)

uniqueByIpPort(list, max) ==
  FoldLeft(LAMBDA taken, record : Take(taken, record, max), <<>>, list)

\* Half a target is floored to none.
NormalizedLimit(halves) == IF halves > 0 THEN halves \div 2 ELSE 50

-----------------------------------------------------------------------------
(* The fingerprint, in hundredths.                                         *)

OllamaPort == 11434

Weights == [open_port |-> 35, api_path |-> 35, http_title |-> 20, tls_subject |-> 10]

\* What nmap may have seen: the route, and Ollama in the title or in the TLS subject.
Evidence == SUBSET {"api_path", "http_title", "tls_subject"}

Signals(target, evidence) ==
  evidence \cup (IF target.port = OllamaPort THEN {"open_port"} ELSE {})

\* Mutant: the sum of doubles is not rounded, and 0.35 + 0.35 + 0.1 is less than 0.8.
UnroundedConfidence(signals) ==
  SumFunctionOnSet(Weights, signals) - (IF "tls_subject" \in signals THEN 1 ELSE 0)

\* The sum, as toFixed(2) leaves it.
Confidence(signals) == SumFunctionOnSet(Weights, signals)

RiskLevel(confidence) == IF confidence >= 80 THEN "high" ELSE "medium"

Matches == [target : FofaRecords, matched_signals : SUBSET (DOMAIN Weights),
            level : {"high", "medium"}]

Asset(target, signals) ==
  [target |-> target, matched_signals |-> signals,
   level |-> RiskLevel(Confidence(signals))]

-----------------------------------------------------------------------------
NoSummary == [discovered |-> 0, converged |-> 0, live |-> 0, matched |-> 0, high |-> 0]

SixStepInit ==
  /\ stage \in {"idle", "reading"} /\ records = <<>> /\ limit = 0 /\ converged = <<>>
  /\ nextTarget = 1 /\ assets = <<>> /\ summary = NoSummary /\ live = {}

ReadExport ==
  /\ stage = "reading"
  /\ \/ \E file \in Exports, halves \in MaxTargets :
          /\ records' = file
          /\ limit' = NormalizedLimit(halves)
          /\ converged' = uniqueByIpPort(file, limit')
          /\ stage' = "naabu"
     \/ stage' = "failed" /\ UNCHANGED <<records, limit, converged>>
  /\ UNCHANGED <<nextTarget, assets, summary, live>>

Candidate == converged[nextTarget]

PassOn == nextTarget' = nextTarget + 1 /\ stage' = "naabu"

\* naabu has listed the port of the target and exited well, or the target is passed over.
NaabuCollects ==
  /\ stage = "naabu" /\ nextTarget <= Len(converged)
  /\ \/ stage' = "nmap" /\ live' = live \cup {Candidate} /\ UNCHANGED nextTarget
     \/ PassOn /\ UNCHANGED live
  /\ UNCHANGED <<records, limit, converged, assets, summary>>

\* nmap has failed, or its output is matched.
NmapFingerprints ==
  /\ stage = "nmap"
  /\ \/ UNCHANGED assets
     \/ \E evidence \in Evidence :
          LET signals == Signals(Candidate, evidence)
          IN  assets' = IF Confidence(signals) >= 70
                          THEN Append(assets, Asset(Candidate, signals)) ELSE assets
  /\ PassOn
  /\ UNCHANGED <<records, limit, converged, summary, live>>

\* The summary counts the assets that match where it names live targets.
Summarise ==
  /\ stage = "naabu" /\ nextTarget > Len(converged)
  /\ summary' = [discovered |-> Len(uniqueByIpPort(records, Len(records))),
                 converged  |-> Len(converged),
                 live       |-> Len(assets),
                 matched    |-> Len(assets),
                 high       |-> Len(SelectSeq(assets, LAMBDA a : a.level = "high"))]
  /\ stage' = "writing"
  /\ UNCHANGED <<records, limit, converged, nextTarget, assets, live>>

WriteReport == /\ stage = "writing"
               /\ stage' \in {"written", "failed"}
               /\ UNCHANGED <<records, limit, converged, nextTarget, assets, summary, live>>

SixStepRests == stage \in {"idle", "written", "failed"}

SixStepNext == ReadExport \/ NaabuCollects \/ NmapFingerprints \/ Summarise \/ WriteReport

-----------------------------------------------------------------------------
(* Properties.                                                             *)

Usable(list) == {record \in ToSet(list) : record.ip # 0 /\ record.port # 0}

\* Distinct targets of the file, as many as the limit allows and one at least.
Converges(list, max, taken) ==
  /\ ToSet(taken) \subseteq Usable(list) /\ IsInjective(taken)
  /\ Len(taken) = Min({Cardinality(Usable(list)), Max({max, 1})})

Place(target, targets) == CHOOSE i \in DOMAIN targets : targets[i] = target

\* Of the targets, in their order, assets whose port naabu has found open, each with the
\* port and with the route, since no other signals reach the threshold, and of high risk
\* exactly when one more signal was seen.
WereSeen(found, targets, open) ==
  \A i \in DOMAIN found :
    /\ found[i].target \in open \cap ToSet(targets)
    /\ i > 1 => Place(found[i - 1].target, targets) < Place(found[i].target, targets)
    /\ {"open_port", "api_path"} \subseteq found[i].matched_signals
    /\ (found[i].level = "high") <=> Cardinality(found[i].matched_signals) > 2

\* What the report of runFofaSixStepMinimal rests on, however its commands have ended.
ReportedAssetsWereSeen ==
  stage \in {"writing", "written"} =>
    Converges(records, limit, converged) /\ WereSeen(assets, converged, live)

\* docs/fofa-six-step-minimal.md:23: how many targets are live depends on reachability, on
\* ports and on timeouts.  The code counts the assets that match.
LiveTargetsAreCounted ==
  stage \in {"writing", "written"} => summary.live = Cardinality(live)

\* Assets of targets before this one.
AreBefore(found, targets, next) ==
  \A i \in DOMAIN found : Place(found[i].target, targets) < next

\* The inductive invariant: so it is from the beginning, with the assets all of targets
\* before the one at hand, and at nmap only with a port that naabu has found open.
SixStepInv ==
  /\ records \in Seq(FofaRecords) /\ limit \in Nat /\ converged \in Seq(FofaRecords)
  /\ nextTarget \in Nat \ {0} /\ assets \in Seq(Matches)
  /\ stage = "reading" => assets = <<>>
  /\ stage \in {"naabu", "nmap", "writing", "written"} =>
       /\ Converges(records, limit, converged) /\ WereSeen(assets, converged, live)
       /\ AreBefore(assets, converged, nextTarget)
  /\ stage = "nmap" => nextTarget <= Len(converged) /\ Candidate \in live
=============================================================================
