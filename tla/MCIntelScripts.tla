--------------------------- MODULE MCIntelScripts ---------------------------
(* IntelScripts: listings with an asset that is listed twice and with rows    *)
(* that end a submission before or after its first task, two targets, and     *)
(* exports with repeated and incomplete records.                              *)
EXTENDS IntelScripts

ListedRow(shape, n) == [shape |-> shape, asset |-> n]
Found(n) == ListedRow("addressed", n)

MCListings == {<<>>, <<Found(1), Found(1)>>,
               <<Found(1), Found(2), ListedRow("unaddressed", 3)>>,
               <<Found(1), ListedRow("malformed", 2)>>}

MCTaskFiles == {<<>>, <<"resolved", "unnamed", "resolved">>,
                <<"resolved", "unresolvable">>}

ExportRow(address, port) == [ip |-> address, port |-> port]

MCExports == {<<>>, <<ExportRow(1, OllamaPort), ExportRow(2, OllamaPort)>>,
              <<ExportRow(1, OllamaPort), ExportRow(2, 80), ExportRow(1, OllamaPort),
                ExportRow(0, 80), ExportRow(2, 0), ExportRow(2, OllamaPort)>>}
=============================================================================
