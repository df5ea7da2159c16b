-------------------------- MODULE MCAssetScanRun --------------------------
(***************************************************************************)
(* AssetScanRun on small instances.                                        *)
(***************************************************************************)
EXTENDS AssetScanRun

(* A pipeline that finds something, of a level the platform knows and of   *)
(* one it does not.  No findings at all is what a pipeline that throws     *)
(* has.                                                                    *)
MCRunDetails == { [NoFindings EXCEPT !["high"] = 1, !["unknown"] = 1] }

===========================================================================
