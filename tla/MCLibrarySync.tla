--------------------------- MODULE MCLibrarySync ---------------------------
(* LibrarySync over a stock with a gap, with a candidate of each kind.       *)
EXTENDS LibrarySync, TLC

Candidate(status, models, error, reason) ==
  [status |-> status, models |-> models, excerpt |-> TRUE, error |-> error,
   reason |-> reason]

Ollama   == Candidate("200", TRUE, "none", "none")
OtherApi == Candidate("200", FALSE, "none", "other")
NotFound == Candidate("404", FALSE, "none", "other")
Refused  == Candidate("null", FALSE, "transport", "none")
Repeated == [Ollama EXCEPT !.error = "other"]

MCCandidateFiles == {<<<<Ollama, Refused, Repeated, OtherApi>>, <<Ollama, NotFound>>>>,
                     <<<<OtherApi, Repeated>>, <<Refused, OtherApi>>>>}
MCStock == [l \in Libraries |-> IF l = "positive" THEN {1, 3} ELSE {}]
RunSymmetry == Permutations(Runs)
=============================================================================
