---------------------------- MODULE LibrarySync ----------------------------
(***************************************************************************)
(* syncOllamaFingerprintLibrary: a command line tool that files verified   *)
(* candidates as numbered samples in two directories.  It reads two        *)
(* candidate files, lists both directories, numbers on from the highest    *)
(* file name, and writes sample after sample.                              *)
(*                                                                         *)
(* A run may die at any moment, writeFile truncates a file before it       *)
(* writes, and nothing keeps two runs from working at the same time.  The  *)
(* directories outlive all of them.                                        *)
(***************************************************************************)
EXTENDS Naturals, FiniteSets, Sequences, FiniteSetsExt, Functions

CONSTANTS
  Runs,            \* invocations of the tool, each once
  CandidateFiles,  \* what the two files may hold: pairs of sequences of candidates
  Stock            \* [library -> numbers of the samples there at first]

Libraries == {"positive", "negative"}

ASSUME FilesAssumption ==
  \A files \in CandidateFiles, i \in {1, 2} :
    Len(files[i]) \in Nat /\ DOMAIN files[i] = 1..Len(files[i])

ASSUME StockAssumption ==
  Stock \in [Libraries -> SUBSET (Nat \ {0})] /\ \A l \in Libraries : IsFiniteSet(Stock[l])

VARIABLES
  library,     \* [library -> [number of a file in it -> what the file holds]]
  phase,       \* the await of each run
  todo,        \* [run -> [library -> the candidates it will file there]]
  seen,        \* the libraries that each run has listed
  listed,      \* [run -> [library -> the numbers it found there]]
  written,     \* [run -> [library -> how many samples it has filed]]
  opened,      \* whether the run has truncated the file of its next sample
  overlapped   \* history: whether another run worked in the libraries meanwhile

vars == <<library, phase, todo, seen, listed, written, opened, overlapped>>

\* What a file holds that is not a sample: nothing yet, or parts of two writes.
Empty == [kind |-> "empty", of |-> {}]
Torn  == [kind |-> "torn", of |-> {}]
Older == [kind |-> "older sample", of |-> {}]
Sample(candidate) == [kind |-> "sample", of |-> {candidate}]

-----------------------------------------------------------------------------
(* Which candidates are filed, and under which number.                     *)

\* A candidate's status is "null", "absent" or a number; its error and its reason are
\* "none", "transport" (a text with one of the words for it) or "other".
IsStrongPositive(c) == c.status = "200" /\ c.models /\ c.excerpt
IsTransportFailure(c) == c.status = "null" \/ "transport" \in {c.error, c.reason}
IsStrongNegative(c) == /\ ~IsTransportFailure(c)
                       /\ c.status \notin {"null", "absent"}
                       /\ c.reason # "none"

\* Array.filter, of the places that are kept: the k-th has k - 1 of the others before it.
Filter(candidates, kept) ==
  [k \in 1..Cardinality(kept) |->
     candidates[CHOOSE i \in kept : Cardinality({j \in kept : j < i}) = k - 1]]

StrongPositives(candidates) ==
  Filter(candidates, {i \in DOMAIN candidates : IsStrongPositive(candidates[i])})
StrongNegatives(candidates) ==
  Filter(candidates, {i \in DOMAIN candidates : IsStrongNegative(candidates[i])})

\* Mutant: the count of files.
CountedIndex(numbers) == Cardinality(numbers) + 1

\* One more than the highest number in a file name.
ExtractNextIndex(numbers) == IF numbers = {} THEN 1 ELSE Max(numbers) + 1

\* Mutant: the number is not counted on.
SameNumber(r, l) == ExtractNextIndex(listed[r][l])

\* Mutant: one number for both libraries.
SharedNumber(r, l) ==
  ExtractNextIndex(listed[r]["positive"] \cup listed[r]["negative"]) + written[r][l]

\* The number of the next sample of a run.
Number(r, l) == ExtractNextIndex(listed[r][l]) + written[r][l]

Left(r, l) == written[r][l] < Len(todo[r][l])

\* Positive samples are filed first.
Target(r) == IF Left(r, "positive") THEN "positive" ELSE "negative"

\* A run that has looked at the libraries and may still write there.
Working(r) == phase[r] \in {"listing", "writing"} /\ seen[r] # {}

-----------------------------------------------------------------------------
Init ==
  /\ library = [l \in Libraries |-> [n \in Stock[l] |-> Older]]
  /\ phase = [r \in Runs |-> "idle"]
  /\ todo = [r \in Runs |-> [l \in Libraries |-> <<>>]]
  /\ seen = [r \in Runs |-> {}]
  /\ listed = [r \in Runs |-> [l \in Libraries |-> {}]]
  /\ written = [r \in Runs |-> [l \in Libraries |-> 0]]
  /\ opened = [r \in Runs |-> FALSE]
  /\ overlapped = [r \in Runs |-> FALSE]

\* Both candidate files are read, parsed and filtered.
ReadCandidates(r) ==
  /\ phase[r] = "idle"
  /\ \E files \in CandidateFiles :
       todo' = [todo EXCEPT ![r] =
                  [l \in Libraries |->
                     IF l = "positive" THEN StrongPositives(files[1])
                                       ELSE StrongNegatives(files[2])]]
  /\ phase' = [phase EXCEPT ![r] = "listing"]
  /\ UNCHANGED <<library, seen, listed, written, opened, overlapped>>

\* A file is missing or holds no JSON.
ReadThrows(r) == /\ phase[r] = "idle"
                 /\ phase' = [phase EXCEPT ![r] = "failed"]
                 /\ UNCHANGED <<library, todo, seen, listed, written, opened, overlapped>>

\* One of the two readdir calls, which run at once, is answered.
ListDirectory(r, l) ==
  LET others == {s \in Runs \ {r} : Working(s)}
  IN  /\ phase[r] = "listing" /\ l \notin seen[r]
      /\ seen' = [seen EXCEPT ![r] = @ \cup {l}]
      /\ listed' = [listed EXCEPT ![r][l] = DOMAIN library[l]]
      /\ phase' = [phase EXCEPT ![r] = IF seen'[r] = Libraries THEN "writing" ELSE @]
      /\ overlapped' = [s \in Runs |-> \/ overlapped[s]
                                       \/ s \in others
                                       \/ s = r /\ others # {}]
      /\ UNCHANGED <<library, todo, written, opened>>

Holds(l, n, content) ==
  library' = [library EXCEPT ![l] =
                [m \in DOMAIN library[l] \cup {n} |->
                   IF m = n THEN content ELSE library[l][m]]]

\* Mutant: writeFile is not awaited.
OpenUnawaited(r) ==
  LET l == Target(r)
  IN  /\ phase[r] = "writing" /\ ~opened[r] /\ Left(r, l)
      /\ Holds(l, Number(r, l), Empty)
      /\ written' = [written EXCEPT ![r][l] = @ + 1]
      /\ UNCHANGED <<phase, todo, seen, listed, opened, overlapped>>

\* writeFile creates the file of the next sample, or empties the one there is.
OpenSample(r) ==
  LET l == Target(r)
  IN  /\ phase[r] = "writing" /\ ~opened[r] /\ Left(r, l)
      /\ Holds(l, Number(r, l), Empty)
      /\ opened' = [opened EXCEPT ![r] = TRUE]
      /\ UNCHANGED <<phase, todo, seen, listed, written, overlapped>>

\* It writes from the start of the file; where another run has written since, the end
\* of a longer text may stay.
WriteSample(r) ==
  LET l == Target(r)
      n == Number(r, l)
      sample == Sample(todo[r][l][written[r][l] + 1])
  IN  /\ phase[r] = "writing" /\ opened[r]
      /\ \/ Holds(l, n, sample)
         \/ library[l][n] # Empty /\ Holds(l, n, Torn)
      /\ written' = [written EXCEPT ![r][l] = @ + 1]
      /\ opened' = [opened EXCEPT ![r] = FALSE]
      /\ UNCHANGED <<phase, todo, seen, listed, overlapped>>

Return(r) == /\ phase[r] = "writing" /\ ~opened[r]
             /\ \A l \in Libraries : ~Left(r, l)
             /\ phase' = [phase EXCEPT ![r] = "returned"]
             /\ UNCHANGED <<library, todo, seen, listed, written, opened, overlapped>>

\* The process is killed, or a call fails: what it was writing may be there in part.
Die(r) ==
  /\ phase[r] \in {"listing", "writing"}
  /\ phase' = [phase EXCEPT ![r] = "failed"]
  /\ \/ UNCHANGED library
     \/ opened[r] /\ Holds(Target(r), Number(r, Target(r)), Torn)
  /\ UNCHANGED <<todo, seen, listed, written, opened, overlapped>>

Next == \E r \in Runs :
  \/ ReadCandidates(r) \/ ReadThrows(r)
  \/ \E l \in Libraries : ListDirectory(r, l)
  \/ OpenSample(r) \/ WriteSample(r) \/ Return(r) \/ Die(r)

\* The end of all runs is the end of the model.
Stop == (\A r \in Runs : phase[r] \in {"returned", "failed"}) /\ UNCHANGED vars

Spec == Init /\ [][Next \/ Stop]_vars
-----------------------------------------------------------------------------
(* Properties.                                                             *)

\* A file that no run can mistake for free: whoever works has found it.
Settled(l, n) ==
  /\ n \in DOMAIN library[l]
  /\ \A r \in Runs : Working(r) /\ l \in seen[r] => n \in listed[r][l]

Undisturbed ==
  \A l \in Libraries : \A n \in DOMAIN library[l] :
    Settled(l, n) => /\ n \in DOMAIN library'[l]
                     /\ library'[l][n] = library[l][n]
                     /\ Settled(l, n)'

\* A file is overwritten only by a run that listed the library before the file was
\* there; once no such run is left it stays as it is for good, whatever gaps and torn
\* files crashes and racing runs have left.
SettledSamplesStay == [][Undisturbed]_vars

\* A run that worked alone has filed what it reports, every sample under its own
\* number, and neither earlier crashes nor later runs take anything away from it.
LoneRunIsWhole ==
  \A r \in Runs : phase[r] = "returned" /\ ~overlapped[r] =>
    \A l \in Libraries : \A i \in 1..Len(todo[r][l]) :
      LET n == ExtractNextIndex(listed[r][l]) + i - 1
      IN  n \in DOMAIN library[l] /\ library[l][n] = Sample(todo[r][l][i])

\* The numbers of the samples go on from the stock without a gap, also after crashes and
\* races: the next number is found from the file names alone.
NumbersAreDense ==
  \A l \in Libraries : \A n \in DOMAIN library[l] \ Stock[l] :
    n = 1 \/ n - 1 \in DOMAIN library[l]

\* A file without a sample in it is being written, or its run died over it, or two runs
\* worked at the same time.
UnreadableHasCause ==
  (\A r \in Runs : ~overlapped[r]) =>
    \A l \in Libraries : \A n \in DOMAIN library[l] :
      library[l][n] \in {Empty, Torn} =>
        \E r \in Runs : opened[r] /\ Target(r) = l /\ Number(r, l) = n

\* The inductive invariant, of the numbers: one that a run has still to use is greater than all
\* it has found, and the numbers it has used up to there are taken.
NumbersInv ==
  /\ library = [l \in Libraries |-> library[l]]
  /\ \A l \in Libraries : DOMAIN library[l] \in SUBSET (Nat \ {0})
                         /\ IsFiniteSet(DOMAIN library[l])
  /\ phase \in [Runs -> {"idle", "listing", "writing", "returned", "failed"}]
  /\ seen \in [Runs -> SUBSET Libraries]
  /\ listed \in [Runs -> [Libraries -> SUBSET Nat]]
  /\ written \in [Runs -> [Libraries -> Nat]]
  /\ opened \in [Runs -> BOOLEAN]
  /\ \A r \in Runs :
       /\ phase[r] = "idle" => seen[r] = {}
       /\ phase[r] = "writing" => seen[r] = Libraries
       /\ phase[r] \in {"idle", "listing"} =>
            ~opened[r] /\ \A l \in Libraries : written[r][l] = 0
       /\ \A l \in Libraries : /\ listed[r][l] \subseteq DOMAIN library[l]
                               /\ \A k \in 0..(written[r][l] - 1) :
                                    ExtractNextIndex(listed[r][l]) + k \in DOMAIN library[l]
  /\ NumbersAreDense

\* The inductive invariant, of the samples: two runs that work at the same time are both
\* counted as overlapped; a run that has worked alone finds the file it has opened as it left it and
\* its samples where it wrote them, and whoever works after it has listed them.
SamplesInv ==
  /\ overlapped \in [Runs -> BOOLEAN]
  /\ \A r \in Runs, l \in Libraries : Len(todo[r][l]) \in Nat
  /\ \A r \in Runs : phase[r] = "returned" => \A l \in Libraries : ~Left(r, l)
  /\ \A r, s \in Runs : r # s /\ Working(r) /\ Working(s) => overlapped[r]
  /\ \A r \in Runs : ~overlapped[r] =>
       /\ phase[r] = "writing" /\ opened[r] =>
            library[Target(r)][Number(r, Target(r))] = Empty
       /\ \A l \in Libraries : \A i \in 1..written[r][l] :
            LET n == ExtractNextIndex(listed[r][l]) + i - 1
            IN  /\ library[l][n] = Sample(todo[r][l][i])
                /\ \A s \in Runs \ {r} : Working(s) /\ l \in seen[s] => n \in listed[s][l]
  /\ UnreadableHasCause

SyncInv == NumbersInv /\ SamplesInv

=============================================================================
