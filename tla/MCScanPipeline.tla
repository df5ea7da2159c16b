--------------------------- MODULE MCScanPipeline ---------------------------
(* ScanPipeline on a host with up to three services, with the probes of      *)
(* probes.v2.yaml and the fingerprints of fingerprints.v2.yaml for them.     *)
EXTENDS ScanPipeline

MCPorts   == <<"5000", "11434", "18789">>
MCOnePort == <<"11434">>

ProbeRule(id, protocol, ports, path, content, sees, extracts) ==
  [id |-> id, protocol |-> protocol, ports |-> ports, path |-> path,
   head |-> id = "http_root_head", content |-> content, sees |-> sees,
   extracts |-> extracts]

TcpConnect == ProbeRule("tcp_connect_priority_ports", "tcp", {"5000", "11434", "18789"},
                    "", "none", {}, {})
RootHead == ProbeRule("http_root_head", "http", {"5000", "11434", "18789"}, "/", "none",
                  {}, {})
OpenclawConnect == ProbeRule("openclaw_gateway_ws_connect", "ws", {"18789"}, "/",
                         "ws_message", {"hello-ok", "presence"}, {})
OllamaTags == ProbeRule("ollama_api_tags", "http", {"11434"}, "/api/tags", "json_key",
                    {"models"}, {"http_status", "api_path"})

MCProbes == <<TcpConnect, RootHead, OpenclawConnect, OllamaTags>>

Signal(type, values, weight) == [type |-> type, values |-> values, weight |-> weight]

Openclaw == [name |-> "openclaw-gateway", category |-> "agent_gateway",
  signals |-> <<Signal("open_port", {"18789"}, 30), Signal("ws_message", {"hello-ok"}, 45),
               Signal("ws_message", {"presence"}, 20), Signal("http_body", {"nginx"}, -20)>>]
Ollama == [name |-> "ollama", category |-> "llm_api",
  signals |-> <<Signal("open_port", {"11434"}, 25), Signal("api_path", {"/api/tags"}, 20),
               Signal("json_key", {"models"}, 45), Signal("http_body", {"nginx"}, -20)>>]
Dify == [name |-> "dify", category |-> "agent_application",
  signals |-> <<Signal("open_port", {"5000"}, 30), Signal("api_path", {"/api/tags"}, 20)>>]

MCFingerprints == <<Openclaw, Ollama, Dify>>

\* The hypotheses of the theorems about catalogues.
ASSUME CatalogueAssumption ==
  /\ IsTiedCatalogue
  /\ \A i \in DOMAIN Fingerprints : IsBalanced(Fingerprints[i])
=============================================================================
