CONSTANTS
  Ports <- MCOnePort
  HintedPort = "11434"
  HintedProtocol = "http"
  Probes <- MCProbes
  Fingerprints <- MCFingerprints
  Scanners = {"gitleaks"}
  EndlessPorts = {}
  MaxReported = 1
SPECIFICATION Spec
INVARIANT OverallCoversAllFindings
