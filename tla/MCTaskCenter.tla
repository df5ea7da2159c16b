--------------------------- MODULE MCTaskCenter ---------------------------
(***************************************************************************)
(* TaskCenter on small instances.                                          *)
(***************************************************************************)
EXTENDS TaskCenter

(* One output without findings, one with a finding of two levels, and one  *)
(* with a finding that no level of the platform fits.                      *)
MCDetails ==
    { NoFindings,
      [NoFindings EXCEPT !["critical"] = 1, !["low"] = 2],
      [NoFindings EXCEPT !["medium"] = 1, !["unknown"] = 1] }

===========================================================================
