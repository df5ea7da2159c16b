-------------------------- MODULE PortVerification --------------------------
(***************************************************************************)
(* runFofaMainlinePortscan: a command line tool that looks at the targets  *)
(* of a submission with naabu and nmap, one after another, and asks the    *)
(* HTTP endpoint itself where nmap does not tell enough.  It leaves three  *)
(* layers of samples and a summary in a directory, where files of an       *)
(* earlier run may lie.                                                    *)
(*                                                                         *)
(* Every command may fail, or hang until its timer kills it; the timer is  *)
(* only set for a positive number, and Number("abc") is none.  The process *)
(* may die at any moment.                                                  *)
(***************************************************************************)
EXTENDS Naturals, Sequences, FiniteSets, Functions

CONSTANT TaskFiles  \* what the task file may hold: sequences of kinds of tasks

\* A task may lack its id or its target value, or have an address that cannot be told.
TaskKinds == {"resolved", "unnamed", "unresolvable"}

ASSUME TaskFilesAssumption == TaskFiles \subseteq Seq(TaskKinds)

Layers == {"exposure-candidates", "verified-fingerprints", "raw-evidence"}
Summary == "workflow-summary"

VARIABLES
  options,    \* whether the naabu and nmap timeouts are numbers, and the fallback is on
  step,       \* what the tool does; idle if it is not run
  targets,    \* how many targets it has
  skipNaabu,  \* skipNaabuDueToRunnerInitFailure
  naabu,      \* how naabu ended for the target at hand
  evidence,   \* rawEvidence: how naabu and nmap ended, for each target so far
  verified,   \* verifiedFingerprints: the targets of the samples
  counts,     \* the counters of the summary
  writing,    \* the files that are being written
  files,      \* [file -> what it holds]
  looked,     \* history: the targets that a tool was run for
  seenOpen    \* history: the targets whose port a tool has listed as open

output == <<writing, files>>
verificationVars == <<options, step, targets, skipNaabu, naabu, evidence, verified, counts,
                      output, looked, seenOpen>>

VerificationInit ==
  /\ options = [naabuTimed |-> TRUE, nmapTimed |-> TRUE, fallback |-> TRUE]
  /\ step \in {"idle", "reading"} /\ targets = 0
  /\ skipNaabu = FALSE /\ naabu = "failed"
  /\ evidence = <<>> /\ verified = <<>>
  /\ counts = [naabuSuccess |-> 0, nmapAttempted |-> 0, failed |-> 0]
  /\ writing = {} /\ files = [f \in Layers \cup {Summary} |-> "earlier"]
  /\ looked = {} /\ seenOpen = {}

-----------------------------------------------------------------------------
(* The file of the submission.                                             *)

\* Number() makes no number of some texts; the fallback is off for one word only.
Options == [naabuTimed : BOOLEAN, nmapTimed : BOOLEAN, fallback : BOOLEAN]

\* Tasks without a name are left out; one whose address cannot be told ends the run, and
\* so does a file that is missing or holds no JSON.
Targets(file) == Cardinality({i \in DOMAIN file : file[i] = "resolved"})

ReadTasks ==
  /\ step = "reading"
  /\ options' \in Options
  /\ \/ \E file \in TaskFiles :
          /\ "unresolvable" \notin Range(file)
          /\ targets' = Targets(file)
          /\ step' = "targets"
     \/ step' = "failed" /\ UNCHANGED targets
  /\ UNCHANGED <<skipNaabu, naabu, evidence, verified, counts, output, looked,
                 seenOpen>>

-----------------------------------------------------------------------------
(* One target after another.                                               *)

Target == Len(evidence) + 1

\* The target at hand gets its entry, and the loop goes on.
FileEvidence(exit, nmap) == evidence' = Append(evidence, [naabu |-> exit, nmap |-> nmap])

NotOpen(exit) == /\ FileEvidence(exit, "not run")
                 /\ step' = "targets"
                 /\ UNCHANGED seenOpen

Open == /\ step' = "nmap"
        /\ seenOpen' = seenOpen \cup {Target}
        /\ UNCHANGED evidence

\* The first command for a target is naabu, until the failure of its runner was met.
StartTarget ==
  /\ step = "targets" /\ Target <= targets /\ ~skipNaabu
  /\ step' = "naabu"
  /\ UNCHANGED <<options, targets, skipNaabu, naabu, evidence, verified, counts, output,
                 looked, seenOpen>>

\* Mutant: a target is skipped with its naabu.
SkipTarget ==
  /\ step = "targets" /\ Target <= targets /\ skipNaabu
  /\ naabu' = "failed"
  /\ NotOpen("failed")
  /\ UNCHANGED <<options, targets, skipNaabu, verified, counts, output, looked>>

\* Without naabu the port is looked at by nmap.
SkipNaabu ==
  /\ step = "targets" /\ Target <= targets /\ skipNaabu
  /\ naabu' = "failed"
  /\ step' = "open check"
  /\ UNCHANGED <<options, targets, skipNaabu, evidence, verified, counts, output, looked,
                 seenOpen>>

\* naabu has ended.  It may have listed the port before it failed; a target whose port it
\* did not list is only looked at again if its runner could not be created.
NaabuEnds(exit) ==
  /\ step = "naabu"
  /\ naabu' = exit
  /\ looked' = looked \cup {Target}
  /\ LET ok == IF exit = "ok" THEN 1 ELSE 0
     IN  \/ /\ Open
            /\ counts' = [counts EXCEPT !.naabuSuccess = @ + ok, !.nmapAttempted = @ + 1]
            /\ UNCHANGED skipNaabu
         \/ /\ NotOpen(exit)
            /\ counts' = [counts EXCEPT !.naabuSuccess = @ + ok]
            /\ UNCHANGED skipNaabu
         \/ /\ exit = "failed"
            /\ skipNaabu' = TRUE
            /\ step' = "open check"
            /\ UNCHANGED <<counts, evidence, seenOpen>>
  /\ UNCHANGED <<options, targets, verified, output>>

\* Mutant: an open port is counted again before its scan.
CountedTwice(exit) ==
  /\ step = "open check"
  /\ looked' = looked \cup {Target}
  /\ \/ /\ exit = "ok" /\ Open
        /\ counts' = [counts EXCEPT !.nmapAttempted = @ + 2]
     \/ NotOpen(naabu) /\ UNCHANGED counts
  /\ UNCHANGED <<options, targets, skipNaabu, naabu, verified, output>>

\* nmap --open has ended.  It counts as an attempt of nmap if it found the port open.
OpenCheckEnds(exit) ==
  /\ step = "open check"
  /\ looked' = looked \cup {Target}
  /\ \/ /\ exit = "ok" /\ Open
        /\ counts' = [counts EXCEPT !.nmapAttempted = @ + 1]
     \/ NotOpen(naabu) /\ UNCHANGED counts
  /\ UNCHANGED <<options, targets, skipNaabu, naabu, verified, output>>

Verified(target) == verified' = Append(verified, target)

\* nmap -sV has ended: its output shows the product, or the endpoint itself is asked.
NmapEnds(exit) ==
  /\ step = "nmap"
  /\ FileEvidence(naabu, exit)
  /\ \/ exit = "ok" /\ step' = "targets" /\ Verified(Target) /\ UNCHANGED counts
     \/ options.fallback /\ step' = "probe" /\ UNCHANGED <<verified, counts>>
     \/ /\ ~options.fallback
        /\ step' = "targets"
        /\ counts' = IF exit = "ok" THEN counts ELSE [counts EXCEPT !.failed = @ + 1]
        /\ UNCHANGED verified
  /\ UNCHANGED <<options, targets, skipNaabu, naabu, output, looked, seenOpen>>

\* The GET of /api/tags has ended, if only by its abort; no URL is as good as no answer.
ProbeEnds ==
  /\ step = "probe"
  /\ step' = "targets"
  /\ \/ Verified(Len(evidence)) /\ UNCHANGED counts
     \/ /\ counts' = IF evidence[Len(evidence)].nmap = "ok" THEN counts
                     ELSE [counts EXCEPT !.failed = @ + 1]
        /\ UNCHANGED verified
  /\ UNCHANGED <<options, targets, skipNaabu, naabu, evidence, output, looked, seenOpen>>

CommandEnds(exit) == NaabuEnds(exit) \/ OpenCheckEnds(exit) \/ NmapEnds(exit)

\* Mutant: the promise waits for the close of the killed child.
TimerKills == UNCHANGED verificationVars

\* The timer kills the child and resolves the promise, with what was written so far.
TimerFires == \/ options.naabuTimed /\ NaabuEnds("failed")
              \/ options.nmapTimed /\ (OpenCheckEnds("failed") \/ NmapEnds("failed"))

-----------------------------------------------------------------------------
(* The files.  writeFile empties a file before it writes.                  *)

loop == <<options, targets, skipNaabu, naabu, evidence, verified, counts, looked, seenOpen>>

\* All three layers are written at once.
ExportLayers ==
  /\ step = "targets" /\ Target > targets
  /\ step' = "layers"
  /\ writing' = Layers
  /\ UNCHANGED <<loop, files>>

OpenFile(f) == /\ f \in writing /\ files[f] = "earlier"
               /\ files' = [files EXCEPT ![f] = "empty"]
               /\ UNCHANGED <<loop, step, writing>>

WriteFile(f) == /\ f \in writing /\ files[f] = "empty"
                /\ files' = [files EXCEPT ![f] = "current"]
                /\ writing' = writing \ {f}
                /\ UNCHANGED <<loop, step>>

\* One failure ends the run, while the other writes go on.
WriteFails(f) == /\ f \in writing
                 /\ \/ files[f] = "empty" /\ files' = [files EXCEPT ![f] = "torn"]
                    \/ UNCHANGED files
                 /\ writing' = writing \ {f}
                 /\ step' = "failed"
                 /\ UNCHANGED loop

WriteSummary == /\ step = "layers" /\ writing = {}
                /\ step' = "summary"
                /\ writing' = {Summary}
                /\ UNCHANGED <<loop, files>>

ReturnSummary == /\ step = "summary" /\ writing = {}
                 /\ step' = "returned"
                 /\ UNCHANGED <<loop, output>>

Ended == {"returned", "failed", "dead"}

\* The process is killed: what it was writing stays empty, or is there in part.
Die == /\ step \notin Ended \cup {"idle"} \/ writing # {}
       /\ step' = "dead"
       /\ writing' = {}
       /\ files' \in [Layers \cup {Summary} -> {"earlier", "empty", "torn", "current"}]
       /\ \A f \in DOMAIN files : \/ files'[f] = files[f]
                                  \/ f \in writing /\ files[f] = "empty" /\ files'[f] = "torn"
       /\ UNCHANGED loop
-----------------------------------------------------------------------------
Work == \/ ReadTasks \/ StartTarget \/ SkipNaabu \/ ProbeEnds \/ TimerFires
        \/ ExportLayers \/ WriteSummary \/ ReturnSummary
        \/ \E f \in Layers \cup {Summary} : OpenFile(f) \/ WriteFile(f) \/ WriteFails(f)

VerificationRests == step \in Ended \cup {"idle"} /\ writing = {}

VerificationNext == Work \/ (\E exit \in {"ok", "failed"} : CommandEnds(exit)) \/ Die

\* The tool, its timers and the file system go on; a command may hang.
VerificationFairness == WF_verificationVars(Work)

-----------------------------------------------------------------------------
(* Properties.                                                             *)

Exits == {"ok", "failed"}
NmapExits == Exits \cup {"not run"}
EvidenceEntries == [naabu : Exits, nmap : NmapExits]
Counters == [naabuSuccess : Nat, nmapAttempted : Nat, failed : Nat]
Contents == {"earlier", "empty", "torn", "current"}

VerificationTypeOK ==
  /\ options \in Options
  /\ step \in {"idle", "reading", "targets", "naabu", "open check", "nmap", "probe", "layers",
               "summary"} \cup Ended
  /\ targets \in Nat /\ skipNaabu \in BOOLEAN /\ naabu \in Exits
  /\ evidence \in Seq(EvidenceEntries)
  /\ verified \in Seq(Nat)
  /\ counts \in Counters
  /\ writing \subseteq DOMAIN files
  /\ files \in [Layers \cup {Summary} -> Contents]
  /\ looked \subseteq 1 .. targets /\ seenOpen \subseteq 1 .. targets

NaabuOk == {t \in DOMAIN evidence : evidence[t].naabu = "ok"}
NmapRun == {t \in DOMAIN evidence : evidence[t].nmap # "not run"}
Lost    == {t \in DOMAIN evidence : evidence[t].nmap = "failed"} \ Range(verified)

\* When the loop is over the layers have one entry for each target, which a tool was run
\* for, also after naabu was given up; a sample only where a tool has seen the port open
\* and nmap was run; and the counters of the summary are those of the entries, whichever
\* of the routes each target took.
SummaryFitsLayers ==
  step \in {"layers", "summary", "returned"} =>
    /\ Len(evidence) = targets
    /\ DOMAIN evidence \subseteq looked
    /\ NmapRun = seenOpen
    /\ \A i \in DOMAIN verified : /\ verified[i] \in seenOpen
                                  /\ i > 1 => verified[i - 1] < verified[i]
    /\ counts = [naabuSuccess  |-> Cardinality(NaabuOk),
                 nmapAttempted |-> Cardinality(seenOpen),
                 failed        |-> Cardinality(Lost)]

\* The summary is touched when the layers are complete.  So a run that returns leaves four
\* files of its own, and a summary of an earlier run beside new layers means that the run
\* has not ended or has not returned.
SummaryComesLast ==
  LET done == \A f \in Layers : files[f] = "current"
  IN  /\ files[Summary] # "earlier" => done
      /\ step = "returned" => done /\ files[Summary] = "current"

\* With both timeouts the tool ends whatever its commands do.
VerificationEnds ==
  (step = "targets" /\ options.naabuTimed /\ options.nmapTimed)
    ~> (step \in Ended /\ writing = {})

-----------------------------------------------------------------------------
(* Why they hold.                                                          *)

\* The targets behind: those with an entry, and the one that waits for its probe only
\* for its failure to be counted.
InLoop == step \in {"naabu", "open check", "nmap"}
Uncounted == IF step = "probe" /\ evidence[Len(evidence)].nmap = "failed" THEN 1 ELSE 0

LoopInv ==
  /\ step = "reading" => targets = 0
  /\ Len(evidence) <= targets
  /\ InLoop => Target <= targets
  /\ step = "naabu" => ~skipNaabu
  /\ step = "open check" => naabu = "failed"
  /\ step = "probe" => /\ evidence # <<>> /\ Len(evidence) \in NmapRun
                       /\ \A i \in DOMAIN verified : verified[i] < Len(evidence)
  /\ DOMAIN evidence \subseteq looked
  /\ seenOpen = NmapRun \cup (IF step = "nmap" THEN {Target} ELSE {})
  /\ step = "nmap" => Target \in looked
  /\ \A i \in DOMAIN verified : /\ verified[i] \in NmapRun
                                /\ i > 1 => verified[i - 1] < verified[i]
  /\ step \in {"layers", "summary", "returned"} => Len(evidence) = targets

CountsInv ==
  /\ counts.naabuSuccess =
       Cardinality(NaabuOk) + (IF step = "nmap" /\ naabu = "ok" THEN 1 ELSE 0)
  /\ counts.nmapAttempted = Cardinality(seenOpen)
  /\ counts.failed + Uncounted = Cardinality(Lost)

FilesInv ==
  /\ step \in {"idle", "reading", "targets", "probe"} \/ InLoop =>
       writing = {} /\ \A f \in DOMAIN files : files[f] = "earlier"
  /\ step = "layers" =>
       /\ Summary \notin writing /\ files[Summary] = "earlier"
       /\ \A f \in Layers : IF f \in writing THEN files[f] \in {"earlier", "empty"}
                                             ELSE files[f] = "current"
  /\ step \in {"summary", "returned"} =>
       /\ \A f \in Layers : f \notin writing /\ files[f] = "current"
       /\ Summary \in writing \/ files[Summary] = "current"
  /\ SummaryComesLast
  /\ Summary \in writing => step = "summary"

VerificationInv == /\ VerificationTypeOK /\ FilesInv
                   /\ step \notin {"failed", "dead"} => LoopInv /\ CountsInv
=============================================================================
