-------------------------- MODULE MCConsoleDetail --------------------------
(***************************************************************************)
(* ConsoleDetail on small instances, with Contracts: task ids are model    *)
(* values of the configurations, and the payloads are all the ways to      *)
(* fill the fields below, of which some are missing and some amiss.        *)
(***************************************************************************)
EXTENDS ConsoleDetail

Nothing == [kind |-> "undefined", of |-> 0]
Null    == Value("null", 0)
Half(n) == Value("number", n)
Strings == Value("strings", [i \in 1..1 |-> Text("s")])
Array(seq) == Value("array", seq)
NoFields == Object([f \in {} |-> Nothing])

\* The objects whose fields are filled one way or another.
Filled(ways) ==
  {Object(Without(fields, {f \in DOMAIN fields : fields[f] = Nothing})) : fields \in ways}

MCNumerals == [numeral \in {"7.5", "-1"} |-> IF numeral = "7.5" THEN 15 ELSE -2]

MCTargets ==
  Filled([target_type : {Text("skill_package"), Null}, target_value : {Text("v"), Nothing},
          display_name : {Text(""), Nothing}, metadata : {Strings, NoFields}])

MCParameters ==
  Filled([max_targets : {Half(0), Half(10001), Half(7), Text("7.5"), Text("-1"), Text("many"),
                         Null, Nothing},
          query : {Text("q"), Text(""), Half(2), Nothing},
          audit : {Object([interruption_reason |-> Text("timeout"), query |-> Text("mine")]),
                   Object([interruption_reason |-> Text("weather"), requested_at |-> Half(1)]),
                   Strings, Nothing}])

MCBodies ==
  {Strings, Null} \cup
  Filled([task_type : {Text("asset_scan"), Text("static_analysis"), Text("audit"), Nothing},
          title : {Text("t"), Half(2)}, target : MCTargets,
          requested_by : {Text(""), Text("me"), Nothing}, parameters : {Nothing, Strings}])
  \cup
  Filled([task_type : {Text("asset_scan"), Text("sandbox_run")}, title : {Text("t")},
          target : {Object([target_type |-> Text("ip"), target_value |-> Text("v")])},
          requested_by : {Text("me")}, parameters : MCParameters])

MCScanDetails ==
  {details.of : details \in
    Filled([target : {Null, Nothing}, confidence : {Half(1), Text("high")},
            execution_context :
              {Nothing, Strings, NoFields,
               Object([max_targets |-> Text("all"), audit |-> Null]),
               Object([audit |-> Object([interruption_reason |-> Text("budget"),
                                         requested_by |-> Half(1)])]),
               Object([audit |-> Object([interruption_reason |-> Text("weather")])])}])}

Step(line) == Object([step |-> Text("source"), line_start |-> line])

MCHits ==
  {Null} \cup
  Filled([rule_id : {Text("r")}, severity : {Text("low"), Text("high"), Text("severe")},
          message : {Text("m"), Nothing}, file_path : {Text("f")}, risk_score : {Half(2)},
          line_start : {Half(2), Null, Nothing}, line_end : {Half(4), Half(1), Nothing},
          trace : {Array(<<>>), Array(<<Step(Half(2)), Step(Null)>>), Strings, Nothing}])

Dependencies == Object([risk_score |-> Half(2), direct |-> Half(4)])

\* Pairs of hits too, for the order.
MCOutputs ==
  {Null} \cup
  Filled([language : {Text("ts"), Nothing}, entry_files : {Strings, Array(<<Null>>)},
          files_scanned : {Half(2), Text("2")}, sample_name : {Half(2)},
          sensitive_capabilities : {Strings}, dependency_summary : {Dependencies, Null},
          rule_hits : {Strings, Array(<<Null>>), Array(<<>>)}])
  \cup
  Filled([language : {Text("ts")}, entry_files : {Strings}, files_scanned : {Half(2)},
          sample_name : {Text("n"), Nothing}, sensitive_capabilities : {Strings},
          dependency_summary : {Dependencies},
          rule_hits : {Array(<<hit>>) : hit \in MCHits}
            \cup {Array(<<one, other>>) : one, other \in
                    {hit \in MCHits : hit.kind = "object" /\ "trace" \notin DOMAIN hit.of
                                                         /\ "line_start" \notin DOMAIN hit.of}}])

\* Some payloads are accepted, some are not, and some limits are out of their range.
ASSUME PayloadsAreMixed ==
  /\ Accepted # {} /\ Accepted # Bodies
  /\ \E output \in Outputs : OutputAccepted(output)
  /\ \E output \in Outputs : ~OutputAccepted(output)
  /\ \A output \in {o \in Outputs : OutputAccepted(o)} : Orders(output.of.rule_hits.of) # {}
============================================================================
