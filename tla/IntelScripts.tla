---------------------------- MODULE IntelScripts ----------------------------
(***************************************************************************)
(* The command line tools of scripts/dev/intel that start from a listing   *)
(* of FOFA: the submission of its assets and the report on their tasks,    *)
(* the verification of the targets that a submission has printed, and the  *)
(* six steps from an export to assessed assets.  They share no state but   *)
(* the files that a user hands on, so a behaviour runs one of them.        *)
(***************************************************************************)
EXTENDS TaskSubmission, PortVerification, SixStep

scriptVars == <<submissionVars, verificationVars, sixStepVars>>

Init == /\ SubmissionInit /\ VerificationInit /\ SixStepInit
        /\ Cardinality({s \in {1, 2, 3} : <<phase, step, stage>>[s] # "idle"}) = 1

\* Each tool ends; the backend goes on.
Stop == SubmissionRests /\ VerificationRests /\ SixStepRests /\ UNCHANGED scriptVars

Next == \/ SubmissionNext /\ UNCHANGED <<verificationVars, sixStepVars>>
        \/ VerificationNext /\ UNCHANGED <<submissionVars, sixStepVars>>
        \/ SixStepNext /\ UNCHANGED <<submissionVars, verificationVars>>
        \/ Stop

Spec == Init /\ [][Next]_scriptVars /\ SubmissionFairness /\ VerificationFairness

\* Whatever hangs, a submission and a report end, and so does a verification whose
\* timeouts are numbers.
ToolsEnd == SubmissionEnds /\ VerificationEnds
=============================================================================
