CONSTANTS
  Ports <- MCPorts
  HintedPort = "5000"
  HintedProtocol = "http"
  Probes <- MCProbes
  Fingerprints <- MCFingerprints
  Scanners = {"gitleaks", "trivy"}
  EndlessPorts = {"11434"}
  MaxReported = 1
SPECIFICATION FairScanSpec
INVARIANTS
  FingerprintsCombineEvidence
  EvidenceOfOnePort
  ReportAccountsForScan
  AggregatesFitRuleFindings
  ExposedModelApiIsCritical
  ScanInv
PROPERTY ScanEnds
