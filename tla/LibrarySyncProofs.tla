------------------------- MODULE LibrarySyncProofs -------------------------
(***************************************************************************)
(* Proofs about LibrarySync, for any number of runs, any candidate files   *)
(* and any stock.                                                          *)
(***************************************************************************)
EXTENDS LibrarySync, FiniteSetTheorems, WellFoundedInduction, TLAPS

-----------------------------------------------------------------------------
(* The numbers.                                                            *)

\* A finite nonempty set of natural numbers has a greatest element: one with the
\* fewest elements above it.
LEMMA MaxIs ==
  ASSUME NEW S \in SUBSET Nat, IsFiniteSet(S), S # {}
  PROVE  Max(S) \in S /\ \A y \in S : y <= Max(S)
<1> DEFINE Above(x) == {y \in S : y > x}
           Counts == {n \in Nat : \E x \in S : n = Cardinality(Above(x))}
           R == OpToRel(<, Nat)
<1>1. \A x \in S : IsFiniteSet(Above(x)) /\ Cardinality(Above(x)) \in Nat
  BY FS_Subset, FS_CardinalityType
<1>2. Counts # {}
  BY <1>1
<1>3. PICK c \in Counts : \A d \in Counts : ~ (<<d, c>> \in R)
  <2>1. IsWellFoundedOn(R, Nat)
    BY NatLessThanWellFounded
  <2>2. Counts \subseteq Nat
    OBVIOUS
  <2> HIDE DEF R, Counts
  <2> QED
    BY <1>2, <2>1, <2>2, WFMin
<1>4. \A d \in Counts : ~ (d < c)
  BY <1>3 DEF OpToRel
<1>5. PICK x \in S : c = Cardinality(Above(x))
  OBVIOUS
<1>6. ASSUME NEW y \in S, y > x
      PROVE  FALSE
  <2>1. Above(y) \subseteq Above(x) /\ y \in Above(x) /\ y \notin Above(y)
    <3>1. x \in Nat /\ y \in Nat /\ \A z \in S : z \in Nat
      OBVIOUS
    <3>2. \A z \in S : z > y => z > x
      BY <1>6, <3>1
    <3>3. ~ (y > y)
      BY <3>1
    <3> QED
      BY <1>6, <3>2, <3>3
  <2>2. Cardinality(Above(y)) \in Counts
    BY <1>1
  <2> HIDE DEF Above, Counts
  <2>3. Above(y) # Above(x)
    BY <2>1
  <2>4. Cardinality(Above(y)) <= Cardinality(Above(x))
        /\ Cardinality(Above(x)) # Cardinality(Above(y))
    BY <1>1, <2>1, <2>3, FS_Subset
  <2>5. Cardinality(Above(y)) \in Nat /\ Cardinality(Above(x)) \in Nat
    BY <1>1
  <2> QED
    BY <1>4, <1>5, <2>2, <2>4, <2>5
<1>7. \A y \in S : x >= y
  BY <1>6
<1>8. \E z \in S : \A y \in S : z >= y
  BY <1>7
<1> QED
  BY <1>8 DEF Max

\* The next number is positive, greater than all there are, and follows one of them.
LEMMA NextIndexIs ==
  ASSUME NEW S \in SUBSET Nat, IsFiniteSet(S)
  PROVE  /\ ExtractNextIndex(S) \in Nat \ {0}
         /\ \A n \in S : n < ExtractNextIndex(S)
         /\ S = {} => ExtractNextIndex(S) = 1
         /\ S # {} => ExtractNextIndex(S) - 1 \in S
<1>1. CASE S = {}
  BY <1>1 DEF ExtractNextIndex
<1>2. CASE S # {}
  <2>1. Max(S) \in S /\ \A n \in S : n <= Max(S)
    BY <1>2, MaxIs
  <2>2. ExtractNextIndex(S) = Max(S) + 1
    BY <1>2 DEF ExtractNextIndex
  <2>3. Max(S) \in Nat /\ \A n \in S : n \in Nat
    BY <2>1
  <2> QED
    BY <1>2, <2>1, <2>2, <2>3
<1> QED
  BY <1>1, <1>2

\* What a run has listed is finite, so that its next number is what NextIndexIs says.
LEMMA NumberIs ==
  ASSUME NumbersInv, NEW r \in Runs, NEW l \in Libraries
  PROVE  /\ ExtractNextIndex(listed[r][l]) \in Nat \ {0}
         /\ Number(r, l) = ExtractNextIndex(listed[r][l]) + written[r][l]
         /\ Number(r, l) \in Nat \ {0}
         /\ \A n \in listed[r][l] : n < Number(r, l)
<1>1. listed[r][l] \in SUBSET Nat /\ IsFiniteSet(listed[r][l])
  BY FS_Subset DEF NumbersInv
<1>2. written[r][l] \in Nat
  BY DEF NumbersInv
<1> QED
  BY <1>1, <1>2, NextIndexIs DEF Number

\* The number before the next one is taken, or there is none.
LEMMA NumberFollows ==
  ASSUME NumbersInv, NEW r \in Runs, NEW l \in Libraries
  PROVE  Number(r, l) = 1 \/ Number(r, l) - 1 \in DOMAIN library[l]
<1>1. listed[r][l] \in SUBSET Nat /\ IsFiniteSet(listed[r][l])
      /\ listed[r][l] \subseteq DOMAIN library[l]
  BY FS_Subset DEF NumbersInv
<1>2. written[r][l] \in Nat
      /\ \A k \in 0..(written[r][l] - 1) :
           ExtractNextIndex(listed[r][l]) + k \in DOMAIN library[l]
  BY DEF NumbersInv
<1>3. CASE written[r][l] = 0
  BY <1>1, <1>3, NextIndexIs, NumberIs
<1>4. CASE written[r][l] # 0
  <2>1. ExtractNextIndex(listed[r][l]) + (written[r][l] - 1) \in DOMAIN library[l]
    BY <1>2, <1>4
  <2> QED
    BY <1>2, <2>1, NumberIs
<1> QED
  BY <1>3, <1>4

-----------------------------------------------------------------------------
(* The inductive invariant.                                                *)

\* The stock satisfies the invariant.
LEMMA NumbersInit == Init => NumbersInv
<1> SUFFICES ASSUME Init PROVE NumbersInv
  OBVIOUS
<1>1. \A l \in Libraries : /\ DOMAIN library[l] = Stock[l]
                           /\ Stock[l] \in SUBSET (Nat \ {0}) /\ IsFiniteSet(Stock[l])
  BY StockAssumption DEF Init
<1>2. NumbersAreDense
  BY <1>1 DEF NumbersAreDense
<1>3. library = [l \in Libraries |-> library[l]]
  BY DEF Init
<1>4. \A r \in Runs, l \in Libraries : written[r][l] = 0 /\ listed[r][l] = {}
  BY DEF Init
<1>5. /\ phase \in [Runs -> {"idle", "listing", "writing", "returned", "failed"}]
      /\ seen \in [Runs -> SUBSET Libraries]
      /\ listed \in [Runs -> [Libraries -> SUBSET Nat]]
      /\ written \in [Runs -> [Libraries -> Nat]]
      /\ opened \in [Runs -> BOOLEAN]
      /\ \A r \in Runs : phase[r] = "idle" /\ ~opened[r] /\ seen[r] = {}
  BY DEF Init
<1> QED
  BY <1>1, <1>2, <1>3, <1>4, <1>5 DEF NumbersInv

\* What writing to the file of the next sample does to the libraries, whatever it holds
\* then: one number more, if it was not there.
LEMMA HoldsIs ==
  ASSUME NumbersInv, NEW r \in Runs, NEW l \in Libraries, NEW content,
         Holds(l, Number(r, l), content)
  PROVE  /\ library' = [m \in Libraries |-> library'[m]]
         /\ DOMAIN library'[l] = DOMAIN library[l] \cup {Number(r, l)}
         /\ library'[l][Number(r, l)] = content
         /\ \A n \in DOMAIN library[l] : n # Number(r, l) => library'[l][n] = library[l][n]
         /\ \A m \in Libraries : m # l => library'[m] = library[m]
         /\ \A m \in Libraries : /\ DOMAIN library[m] \subseteq DOMAIN library'[m]
                                 /\ DOMAIN library'[m] \in SUBSET (Nat \ {0})
                                 /\ IsFiniteSet(DOMAIN library'[m])
         /\ NumbersAreDense'
<1> DEFINE file == [m \in DOMAIN library[l] \cup {Number(r, l)} |->
                      IF m = Number(r, l) THEN content ELSE library[l][m]]
<1>1. library' = [library EXCEPT ![l] = file]
  BY DEF Holds
<1>2. DOMAIN file = DOMAIN library[l] \cup {Number(r, l)} /\ file[Number(r, l)] = content
      /\ \A n \in DOMAIN library[l] : n # Number(r, l) => file[n] = library[l][n]
  OBVIOUS
<1> HIDE DEF file
<1>3. DOMAIN library = Libraries
  BY DEF NumbersInv
<1>4. library'[l] = file /\ library' = [m \in Libraries |-> library'[m]]
      /\ \A m \in Libraries : m # l => library'[m] = library[m]
  BY <1>1, <1>3
<1>5. DOMAIN library'[l] = DOMAIN library[l] \cup {Number(r, l)}
      /\ library'[l][Number(r, l)] = content
      /\ \A n \in DOMAIN library[l] : n # Number(r, l) => library'[l][n] = library[l][n]
  BY <1>2, <1>4
<1>6. \A m \in Libraries : DOMAIN library[m] \in SUBSET (Nat \ {0})
                           /\ IsFiniteSet(DOMAIN library[m])
  BY DEF NumbersInv
<1>7. Number(r, l) \in Nat \ {0}
  BY NumberIs
<1>8. IsFiniteSet(DOMAIN library'[l])
  BY <1>5, <1>6, FS_AddElement
<1>9. ASSUME NEW m \in Libraries
      PROVE  /\ DOMAIN library[m] \subseteq DOMAIN library'[m]
             /\ DOMAIN library'[m] \in SUBSET (Nat \ {0})
             /\ IsFiniteSet(DOMAIN library'[m])
  <2>1. CASE m = l
    BY <1>5, <1>6, <1>7, <1>8, <2>1
  <2>2. CASE m # l
    BY <1>4, <1>6, <2>2
  <2> QED
    BY <2>1, <2>2
<1>10. ASSUME NEW m \in Libraries, NEW n \in DOMAIN library'[m] \ Stock[m]
       PROVE  n = 1 \/ n - 1 \in DOMAIN library'[m]
  <2>1. CASE n \in DOMAIN library[m]
    <3>1. n = 1 \/ n - 1 \in DOMAIN library[m]
      BY <2>1 DEF NumbersInv, NumbersAreDense
    <3> QED
      BY <1>9, <3>1
  <2>2. CASE n \notin DOMAIN library[m]
    <3>1. m = l /\ n = Number(r, l)
      BY <1>4, <1>5, <2>2
    <3> QED
      BY <1>9, <3>1, NumberFollows
  <2> QED
    BY <2>1, <2>2
<1>11. NumbersAreDense'
  BY <1>10 DEF NumbersAreDense
<1> QED
  BY <1>4, <1>5, <1>9, <1>11

\* A step that leaves the libraries alone keeps what depends on them only.
LEMMA OthersKeep ==
  ASSUME NumbersInv, NEW r \in Runs, UNCHANGED <<library, listed, written>>,
         phase' \in [Runs -> {"idle", "listing", "writing", "returned", "failed"}],
         \A s \in Runs : \/ phase'[s] = phase[s]
                         \/ phase[s] = "idle" /\ phase'[s] = "listing"
                         \/ phase'[s] \in {"returned", "failed"},
         UNCHANGED <<seen, opened>>
  PROVE  NumbersInv'
<1>1. NumbersAreDense'
  BY DEF NumbersInv, NumbersAreDense
<1>2. ASSUME NEW s \in Runs
      PROVE  /\ phase'[s] = "idle" => seen'[s] = {}
             /\ phase'[s] = "writing" => seen'[s] = Libraries
             /\ phase'[s] \in {"idle", "listing"} =>
                  ~opened'[s] /\ \A l \in Libraries : written'[s][l] = 0
  BY DEF NumbersInv
<1> QED
  BY <1>1, <1>2 DEF NumbersInv, Number, ExtractNextIndex

\* Reading the candidates, or failing to, keeps the invariant.
LEMMA ReadKeeps ==
  ASSUME NumbersInv, NEW r \in Runs, ReadCandidates(r) \/ ReadThrows(r)
  PROVE  NumbersInv'
<1>1. UNCHANGED <<library, seen, listed, written, opened>> /\ phase[r] = "idle"
      /\ \/ phase' = [phase EXCEPT ![r] = "listing"]
         \/ phase' = [phase EXCEPT ![r] = "failed"]
  BY DEF ReadCandidates, ReadThrows
<1>2. phase \in [Runs -> {"idle", "listing", "writing", "returned", "failed"}]
  BY DEF NumbersInv
<1>3. /\ phase' \in [Runs -> {"idle", "listing", "writing", "returned", "failed"}]
      /\ \A s \in Runs : \/ phase'[s] = phase[s]
                         \/ phase[s] = "idle" /\ phase'[s] = "listing"
                         \/ phase'[s] \in {"returned", "failed"}
  BY <1>1, <1>2
<1> QED
  BY <1>1, <1>3, OthersKeep

\* Returning keeps the invariant.
LEMMA ReturnKeeps ==
  ASSUME NumbersInv, NEW r \in Runs, Return(r)
  PROVE  NumbersInv'
<1>1. UNCHANGED <<library, seen, listed, written, opened>>
      /\ phase' = [phase EXCEPT ![r] = "returned"]
  BY DEF Return
<1>2. phase \in [Runs -> {"idle", "listing", "writing", "returned", "failed"}]
  BY DEF NumbersInv
<1>3. /\ phase' \in [Runs -> {"idle", "listing", "writing", "returned", "failed"}]
      /\ \A s \in Runs : \/ phase'[s] = phase[s]
                         \/ phase[s] = "idle" /\ phase'[s] = "listing"
                         \/ phase'[s] \in {"returned", "failed"}
  BY <1>1, <1>2
<1> QED
  BY <1>1, <1>3, OthersKeep

\* A run that lists a library has used no number yet.
LEMMA ListKeeps ==
  ASSUME NumbersInv, NEW r \in Runs, NEW l \in Libraries, ListDirectory(r, l)
  PROVE  NumbersInv'
<1>1. /\ phase[r] = "listing"
      /\ seen' = [seen EXCEPT ![r] = @ \cup {l}]
      /\ listed' = [listed EXCEPT ![r][l] = DOMAIN library[l]]
      /\ phase' = [phase EXCEPT ![r] = IF seen'[r] = Libraries THEN "writing" ELSE @]
      /\ UNCHANGED <<library, written, opened>>
  BY DEF ListDirectory
<1>2. \A m \in Libraries : DOMAIN library[m] \in SUBSET Nat
  BY DEF NumbersInv
<1>3. /\ phase' \in [Runs -> {"idle", "listing", "writing", "returned", "failed"}]
      /\ seen' \in [Runs -> SUBSET Libraries]
  BY <1>1 DEF NumbersInv
<1>4. listed' \in [Runs -> [Libraries -> SUBSET Nat]]
  BY <1>1, <1>2 DEF NumbersInv
<1>5. NumbersAreDense'
  BY <1>1 DEF NumbersInv, NumbersAreDense
<1>6. ASSUME NEW s \in Runs
      PROVE  /\ phase'[s] = "idle" => seen'[s] = {}
             /\ phase'[s] = "writing" => seen'[s] = Libraries
             /\ phase'[s] \in {"idle", "listing"} =>
                  ~opened'[s] /\ \A m \in Libraries : written'[s][m] = 0
  BY <1>1 DEF NumbersInv
<1>7. ASSUME NEW s \in Runs, NEW m \in Libraries
      PROVE  /\ listed'[s][m] \subseteq DOMAIN library'[m]
             /\ \A k \in 0..(written'[s][m] - 1) :
                  ExtractNextIndex(listed'[s][m]) + k \in DOMAIN library'[m]
  <2>1. CASE s = r /\ m = l
    <3>1. listed'[s][m] = DOMAIN library[l] /\ written'[s][m] = 0
      BY <1>1, <2>1 DEF NumbersInv
    <3> QED
      BY <1>1, <2>1, <3>1
  <2>2. CASE ~ (s = r /\ m = l)
    <3>1. listed'[s][m] = listed[s][m]
      BY <1>1, <2>2 DEF NumbersInv
    <3> QED
      BY <1>1, <3>1 DEF NumbersInv
  <2> QED
    BY <2>1, <2>2
<1> QED
  BY <1>1, <1>3, <1>4, <1>5, <1>6, <1>7 DEF NumbersInv

\* What a run that writes does to the invariant: all it touches is the file of its next
\* sample.
LEMMA HoldsKeeps ==
  ASSUME NumbersInv, NEW r \in Runs, NEW l \in Libraries, NEW content,
         Holds(l, Number(r, l), content), UNCHANGED <<seen, listed>>,
         opened' \in [Runs -> BOOLEAN],
         phase[r] = "writing",
         \A s \in Runs : s # r => phase'[s] = phase[s] /\ opened'[s] = opened[s],
         phase' \in [Runs -> {"idle", "listing", "writing", "returned", "failed"}],
         phase'[r] \in {"writing", "failed"},
         \/ written' = written
         \/ written' = [written EXCEPT ![r][l] = @ + 1]
  PROVE  NumbersInv'
<1>1. /\ library' = [m \in Libraries |-> library'[m]]
      /\ DOMAIN library'[l] = DOMAIN library[l] \cup {Number(r, l)}
      /\ \A m \in Libraries : /\ DOMAIN library[m] \subseteq DOMAIN library'[m]
                              /\ DOMAIN library'[m] \in SUBSET (Nat \ {0})
                              /\ IsFiniteSet(DOMAIN library'[m])
      /\ NumbersAreDense'
  BY HoldsIs
<1>2. written' \in [Runs -> [Libraries -> Nat]]
  <2>1. written \in [Runs -> [Libraries -> Nat]] /\ written[r][l] + 1 \in Nat
    BY DEF NumbersInv
  <2> QED
    BY <2>1
<1>3. \A s \in Runs, m \in Libraries : s # r => written'[s][m] = written[s][m]
  BY DEF NumbersInv
<1>4. ASSUME NEW s \in Runs
      PROVE  /\ phase'[s] = "idle" => seen'[s] = {}
             /\ phase'[s] = "writing" => seen'[s] = Libraries
             /\ phase'[s] \in {"idle", "listing"} =>
                  ~opened'[s] /\ \A m \in Libraries : written'[s][m] = 0
  BY <1>3 DEF NumbersInv
<1>5. ASSUME NEW s \in Runs, NEW m \in Libraries
      PROVE  /\ listed'[s][m] \subseteq DOMAIN library'[m]
             /\ \A k \in 0..(written'[s][m] - 1) :
                  ExtractNextIndex(listed'[s][m]) + k \in DOMAIN library'[m]
  <2>1. /\ listed[s][m] \subseteq DOMAIN library'[m]
        /\ \A k \in 0..(written[s][m] - 1) :
             ExtractNextIndex(listed[s][m]) + k \in DOMAIN library'[m]
    BY <1>1 DEF NumbersInv
  <2>2. CASE written'[s][m] = written[s][m]
    BY <2>1, <2>2
  <2>3. CASE written'[s][m] # written[s][m]
    <3>1. s = r /\ m = l /\ written'[s][m] = written[s][m] + 1
      BY <2>3 DEF NumbersInv
    <3>2. ExtractNextIndex(listed[s][m]) + written[s][m] \in DOMAIN library'[m]
      BY <1>1, <3>1, NumberIs
    <3>3. written[s][m] \in Nat
      BY DEF NumbersInv
    <3>4. \A k \in 0..(written'[s][m] - 1) : k \in 0..(written[s][m] - 1) \/ k = written[s][m]
      BY <3>1, <3>3
    <3> QED
      BY <2>1, <3>2, <3>4
  <2> QED
    BY <2>2, <2>3
<1>6. listed' \in [Runs -> [Libraries -> SUBSET Nat]] /\ seen' \in [Runs -> SUBSET Libraries]
  BY DEF NumbersInv
<1> QED
  BY <1>1, <1>2, <1>4, <1>5, <1>6 DEF NumbersInv

\* A run that opens, writes or dies keeps the invariant.
LEMMA WriteKeeps ==
  ASSUME NumbersInv, NEW r \in Runs, OpenSample(r) \/ WriteSample(r) \/ Die(r)
  PROVE  NumbersInv'
<1> DEFINE l == Target(r)
<1>1. l \in Libraries
  BY DEF Target, Libraries
<1>2. /\ phase \in [Runs -> {"idle", "listing", "writing", "returned", "failed"}]
      /\ opened \in [Runs -> BOOLEAN]
      /\ opened[r] => phase[r] \notin {"idle", "listing"}
  BY DEF NumbersInv
<1>3. CASE OpenSample(r)
  <2>1. /\ phase[r] = "writing" /\ Holds(l, Number(r, l), Empty)
        /\ opened' = [opened EXCEPT ![r] = TRUE]
        /\ UNCHANGED <<phase, seen, listed, written>>
    BY <1>3 DEF OpenSample
  <2> HIDE DEF l
  <2>2. /\ opened' \in [Runs -> BOOLEAN]
        /\ \A s \in Runs : s # r => phase'[s] = phase[s] /\ opened'[s] = opened[s]
    BY <1>2, <2>1
  <2> QED
    BY <1>1, <1>2, <2>1, <2>2, HoldsKeeps
<1>4. CASE WriteSample(r)
  <2>1. PICK content : /\ phase[r] = "writing" /\ Holds(l, Number(r, l), content)
                       /\ opened' = [opened EXCEPT ![r] = FALSE]
                       /\ written' = [written EXCEPT ![r][l] = @ + 1]
                       /\ UNCHANGED <<phase, seen, listed>>
    BY <1>4 DEF WriteSample
  <2> HIDE DEF l
  <2>2. /\ opened' \in [Runs -> BOOLEAN]
        /\ \A s \in Runs : s # r => phase'[s] = phase[s] /\ opened'[s] = opened[s]
    BY <1>2, <2>1
  <2> QED
    BY <1>1, <1>2, <2>1, <2>2, HoldsKeeps
<1>5. CASE Die(r)
  <2>1. /\ phase[r] \in {"listing", "writing"}
        /\ phase' = [phase EXCEPT ![r] = "failed"]
        /\ UNCHANGED <<seen, listed, written, opened>>
        /\ \/ UNCHANGED library
           \/ opened[r] /\ Holds(l, Number(r, l), Torn)
    BY <1>5 DEF Die
  <2> HIDE DEF l
  <2>2. /\ phase' \in [Runs -> {"idle", "listing", "writing", "returned", "failed"}]
        /\ \A s \in Runs : s # r => phase'[s] = phase[s] /\ opened'[s] = opened[s]
        /\ phase'[r] = "failed"
    BY <1>2, <2>1
  <2>3. CASE UNCHANGED library
    <3>1. \A s \in Runs : \/ phase'[s] = phase[s]
                          \/ phase[s] = "idle" /\ phase'[s] = "listing"
                          \/ phase'[s] \in {"returned", "failed"}
      BY <2>2
    <3> QED
      BY <2>1, <2>2, <2>3, <3>1, OthersKeep
  <2>4. CASE opened[r] /\ Holds(l, Number(r, l), Torn)
    <3>1. phase[r] = "writing" /\ opened' \in [Runs -> BOOLEAN]
      BY <1>2, <2>1, <2>4
    <3> QED
      BY <1>1, <2>1, <2>2, <2>4, <3>1, HoldsKeeps
  <2> QED
    BY <2>1, <2>3, <2>4
<1> QED
  BY <1>3, <1>4, <1>5

\* Every step keeps the invariant.
LEMMA NumbersStep == NumbersInv /\ [Next \/ Stop]_vars => NumbersInv'
<1> SUFFICES ASSUME NumbersInv, [Next \/ Stop]_vars PROVE NumbersInv'
  OBVIOUS
<1>1. CASE Next
  <2>1. PICK r \in Runs :
          \/ ReadCandidates(r) \/ ReadThrows(r)
          \/ \E l \in Libraries : ListDirectory(r, l)
          \/ OpenSample(r) \/ WriteSample(r) \/ Return(r) \/ Die(r)
    BY <1>1 DEF Next
  <2> QED
    BY <2>1, ReadKeeps, ListKeeps, WriteKeeps, ReturnKeeps
<1>2. CASE UNCHANGED vars
  BY <1>2 DEF vars, NumbersInv, NumbersAreDense
<1> QED
  BY <1>1, <1>2 DEF Stop

-----------------------------------------------------------------------------
(* The samples of a run that works alone.                                  *)

\* What a filter keeps of an array is an array.
LEMMA KeptIs ==
  ASSUME NEW candidates, NEW kept \in SUBSET DOMAIN candidates,
         Len(candidates) \in Nat, DOMAIN candidates = 1..Len(candidates)
  PROVE  Cardinality(kept) \in Nat
<1>1. IsFiniteSet(1..Len(candidates))
  BY FS_Interval
<1> QED
  BY <1>1, FS_Subset, FS_CardinalityType

\* A run that has opened a file has looked at both libraries; one that waits has not.
LEMMA WhoWorks ==
  ASSUME NumbersInv, NEW r \in Runs
  PROVE  /\ phase[r] = "writing" => Working(r) /\ \A l \in Libraries : l \in seen[r]
         /\ phase[r] = "idle" => ~Working(r)
         /\ phase[r] \in {"idle", "listing"} =>
              ~opened[r] /\ \A l \in Libraries : written[r][l] = 0
  BY DEF NumbersInv, Working, Libraries

LEMMA SamplesInit == Init => SamplesInv
<1> SUFFICES ASSUME Init PROVE SamplesInv
  OBVIOUS
<1>1. /\ overlapped \in [Runs -> BOOLEAN]
      /\ \A r \in Runs : phase[r] = "idle" /\ seen[r] = {}
      /\ \A r \in Runs, l \in Libraries : todo[r][l] = <<>> /\ written[r][l] = 0
  BY DEF Init
<1>2. UnreadableHasCause
  <2>1. \A l \in Libraries : \A n \in DOMAIN library[l] : library[l][n] = Older
    BY DEF Init
  <2>2. Older \notin {Empty, Torn}
    BY DEF Older, Empty, Torn
  <2> QED
    BY <2>1, <2>2 DEF UnreadableHasCause
<1> QED
  BY <1>1, <1>2 DEF SamplesInv, Working

\* A run that changes no file and no number, and does not start to work.
LEMMA QuietKeeps ==
  ASSUME NumbersInv, SamplesInv, NEW r \in Runs,
         UNCHANGED <<library, seen, listed, written, opened, overlapped>>,
         \A s \in Runs : s # r => phase'[s] = phase[s] /\ todo'[s] = todo[s],
         \A l \in Libraries : Len(todo'[r][l]) \in Nat,
         phase[r] = "idle" \/ todo'[r] = todo[r],
         phase'[r] # "writing",
         Working(r)' => Working(r),
         phase'[r] = "returned" => \A l \in Libraries : ~Left(r, l)'
  PROVE  SamplesInv'
<1>1. \A s \in Runs : Working(s)' => Working(s)
  BY DEF Working
<1>2. ASSUME NEW s \in Runs, s # r
      PROVE  /\ Target(s)' = Target(s)
             /\ \A l \in Libraries : (Left(s, l)' <=> Left(s, l)) /\ Number(s, l)' = Number(s, l)
  BY <1>2 DEF Target, Left, Number
<1>3. ASSUME phase[r] # "idle"
      PROVE  Target(r)' = Target(r) /\ \A l \in Libraries : Number(r, l)' = Number(r, l)
  BY <1>3 DEF Target, Left, Number
<1>4. \A s \in Runs, l \in Libraries : Len(todo'[s][l]) \in Nat
  BY DEF SamplesInv
<1>5. \A s \in Runs : phase'[s] = "returned" => \A l \in Libraries : ~Left(s, l)'
  BY <1>2 DEF SamplesInv
<1>6. \A s, t \in Runs : s # t /\ Working(s)' /\ Working(t)' => overlapped'[s]
  BY <1>1 DEF SamplesInv
<1>7. ASSUME NEW s \in Runs, ~overlapped'[s], phase'[s] = "writing", opened'[s]
      PROVE  library'[Target(s)'][Number(s, Target(s))'] = Empty
  <2>1. s # r /\ Target(s) \in Libraries
    BY <1>7 DEF Target, Libraries
  <2>2. Target(s)' = Target(s) /\ Number(s, Target(s))' = Number(s, Target(s))
    BY <2>1, <1>2 DEF Number
  <2> QED
    BY <1>7, <2>1, <2>2 DEF SamplesInv
<1>8. ASSUME NEW s \in Runs, ~overlapped'[s], NEW l \in Libraries,
             NEW i \in 1..written'[s][l]
      PROVE  LET n == ExtractNextIndex(listed'[s][l]) + i - 1
             IN  /\ library'[l][n] = Sample(todo'[s][l][i])
                 /\ \A t \in Runs \ {s} : Working(t)' /\ l \in seen'[t] => n \in listed'[t][l]
  <2>1. todo'[s] = todo[s]
    BY <1>8, WhoWorks
  <2> QED
    BY <1>1, <1>8, <2>1 DEF SamplesInv
<1>9. UnreadableHasCause'
  <2> SUFFICES ASSUME \A s \in Runs : ~overlapped'[s], NEW l \in Libraries,
                      NEW n \in DOMAIN library'[l], library'[l][n] \in {Empty, Torn}
               PROVE  \E s \in Runs : opened'[s] /\ Target(s)' = l /\ Number(s, l)' = n
    BY DEF UnreadableHasCause
  <2>1. PICK s \in Runs : opened[s] /\ Target(s) = l /\ Number(s, l) = n
    BY DEF SamplesInv, UnreadableHasCause
  <2>2. phase[s] # "idle"
    BY <2>1, WhoWorks
  <2> QED
    BY <1>2, <1>3, <2>1, <2>2
<1> QED
  BY <1>4, <1>5, <1>6, <1>7, <1>8, <1>9 DEF SamplesInv

\* Reading, or failing to, starts no work.
LEMMA ReadKeepsSamples ==
  ASSUME NumbersInv, SamplesInv, NEW r \in Runs, ReadCandidates(r) \/ ReadThrows(r)
  PROVE  SamplesInv'
<1>1. /\ UNCHANGED <<library, seen, listed, written, opened, overlapped>>
      /\ phase[r] = "idle" /\ seen[r] = {}
  BY DEF ReadCandidates, ReadThrows, NumbersInv
<1>2. DOMAIN phase = Runs
  BY DEF NumbersInv
<1>3. \A l \in Libraries : Len(todo[r][l]) \in Nat
  BY DEF SamplesInv
<1>4. ~Working(r)'
  BY <1>1 DEF Working
<1>5. CASE ReadThrows(r)
  <2>1. todo' = todo /\ phase' = [phase EXCEPT ![r] = "failed"]
    BY <1>5 DEF ReadThrows
  <2>2. phase'[r] = "failed" /\ \A s \in Runs : s # r => phase'[s] = phase[s]
    BY <1>2, <2>1
  <2> QED
    BY <1>1, <1>3, <1>4, <2>1, <2>2, QuietKeeps
<1>6. CASE ReadCandidates(r)
  <2> DEFINE filtered(files) ==
        [l \in Libraries |-> IF l = "positive" THEN StrongPositives(files[1])
                                              ELSE StrongNegatives(files[2])]
  <2>1. PICK files \in CandidateFiles : todo' = [todo EXCEPT ![r] = filtered(files)]
    BY <1>6 DEF ReadCandidates
  <2>2. phase' = [phase EXCEPT ![r] = "listing"]
    BY <1>6 DEF ReadCandidates
  <2>3. phase'[r] = "listing" /\ \A s \in Runs : s # r => phase'[s] = phase[s]
    BY <1>2, <2>2
  <2>4. \A l \in Libraries : Len(filtered(files)[l]) \in Nat
    <3> DEFINE strong == {i \in DOMAIN files[1] : IsStrongPositive(files[1][i])}
               weak   == {i \in DOMAIN files[2] : IsStrongNegative(files[2][i])}
    <3>1. Cardinality(strong) \in Nat /\ Cardinality(weak) \in Nat
      BY FilesAssumption, KeptIs
    <3>2. Len(StrongPositives(files[1])) = Cardinality(strong)
      <4> HIDE DEF strong
      <4> QED
        BY <3>1 DEF Filter, StrongPositives, strong
    <3>3. Len(StrongNegatives(files[2])) = Cardinality(weak)
      <4> HIDE DEF weak
      <4> QED
        BY <3>1 DEF Filter, StrongNegatives, weak
    <3> HIDE DEF strong, weak
    <3> QED
      BY <3>1, <3>2, <3>3
  <2> HIDE DEF filtered
  <2>5. \A s \in Runs : s # r => todo'[s] = todo[s]
    BY <2>1
  <2>6. todo'[r] = filtered(files) \/ todo'[r] = todo[r]
    BY <2>1
  <2>7. \A l \in Libraries : Len(todo'[r][l]) \in Nat
    BY <1>3, <2>4, <2>6
  <2> QED
    BY <1>1, <1>4, <2>3, <2>5, <2>7, QuietKeeps
<1> QED
  BY <1>5, <1>6

\* A run that lists a library while another works is overlapped, and so is the other.
LEMMA ListKeepsSamples ==
  ASSUME NumbersInv, SamplesInv, NEW r \in Runs, NEW l \in Libraries, ListDirectory(r, l)
  PROVE  SamplesInv'
<1> DEFINE others == {s \in Runs \ {r} : Working(s)}
<1>1. /\ phase[r] = "listing"
      /\ seen' = [seen EXCEPT ![r] = @ \cup {l}]
      /\ listed' = [listed EXCEPT ![r][l] = DOMAIN library[l]]
      /\ phase' = [phase EXCEPT ![r] = IF seen'[r] = Libraries THEN "writing" ELSE @]
      /\ overlapped' = [s \in Runs |-> \/ overlapped[s]
                                       \/ s \in others
                                       \/ s = r /\ others # {}]
      /\ UNCHANGED <<library, todo, written, opened>>
  BY DEF ListDirectory
<1>2. \A s \in Runs : overlapped[s] => overlapped'[s]
  BY <1>1
<1>3. ~opened[r] /\ \A m \in Libraries : written[r][m] = 0
  BY <1>1, WhoWorks
<1>4. /\ DOMAIN phase = Runs /\ DOMAIN seen = Runs
      /\ listed \in [Runs -> [Libraries -> SUBSET Nat]]
  BY DEF NumbersInv
<1>5. /\ phase'[r] \in {"listing", "writing"}
      /\ \A m \in Libraries : m # l => listed'[r][m] = listed[r][m]
      /\ \A m \in seen'[r] : m = l \/ m \in seen[r]
      /\ listed'[r][l] = DOMAIN library[l]
  BY <1>1, <1>4
<1>6. \A s \in Runs : s # r => /\ phase'[s] = phase[s] /\ seen'[s] = seen[s]
                                /\ listed'[s] = listed[s]
                                /\ (Working(s)' <=> Working(s))
  BY <1>1, <1>4 DEF Working
<1>7. \A s \in Runs : /\ Target(s)' = Target(s)
                      /\ \A m \in Libraries : Left(s, m)' <=> Left(s, m)
                      /\ s # r => \A m \in Libraries : Number(s, m)' = Number(s, m)
  BY <1>1, <1>6 DEF Target, Left, Number
<1>8. overlapped' \in [Runs -> BOOLEAN]
  BY <1>1 DEF SamplesInv
<1>9. \A s \in Runs : phase'[s] = "returned" => \A m \in Libraries : ~Left(s, m)'
  BY <1>5, <1>6, <1>7 DEF SamplesInv
<1>10. ASSUME NEW s \in Runs, NEW t \in Runs, s # t, Working(s)', Working(t)'
       PROVE  overlapped'[s]
  <2>1. CASE s = r
    <3>1. t \in others
      BY <1>6, <1>10, <2>1
    <3> QED
      BY <1>1, <2>1, <3>1
  <2>2. CASE s # r
    <3>1. Working(s)
      BY <1>6, <1>10, <2>2
    <3>2. CASE t = r
      BY <1>1, <2>2, <3>1, <3>2
    <3>3. CASE t # r
      BY <1>2, <1>6, <1>10, <3>1, <3>3 DEF SamplesInv
    <3> QED
      BY <3>2, <3>3
  <2> QED
    BY <2>1, <2>2
<1> HIDE DEF others
<1>11. ASSUME NEW s \in Runs, ~overlapped'[s], phase'[s] = "writing", opened'[s]
       PROVE  library'[Target(s)'][Number(s, Target(s))'] = Empty
  <2>1. s # r /\ Target(s) \in Libraries
    BY <1>1, <1>3, <1>11 DEF Target, Libraries
  <2>2. Target(s)' = Target(s) /\ Number(s, Target(s))' = Number(s, Target(s))
    BY <1>6, <1>7, <2>1 DEF Number
  <2> QED
    BY <1>1, <1>2, <1>6, <1>11, <2>1, <2>2 DEF SamplesInv
<1>12. ASSUME NEW s \in Runs, ~overlapped'[s], NEW m \in Libraries,
              NEW i \in 1..written'[s][m]
       PROVE  LET n == ExtractNextIndex(listed'[s][m]) + i - 1
              IN  /\ library'[m][n] = Sample(todo'[s][m][i])
                  /\ \A t \in Runs \ {s} : Working(t)' /\ m \in seen'[t] => n \in listed'[t][m]
  <2>1. s # r /\ listed'[s] = listed[s] /\ ~overlapped[s]
    BY <1>1, <1>2, <1>3, <1>6, <1>12
  <2> DEFINE n == ExtractNextIndex(listed[s][m]) + i - 1
  <2>2. library[m][n] = Sample(todo[s][m][i])
        /\ \A t \in Runs \ {s} : Working(t) /\ m \in seen[t] => n \in listed[t][m]
    BY <1>1, <1>12, <2>1 DEF SamplesInv
  <2>3. n \in DOMAIN library[m]
    <3>1. i - 1 \in 0..(written[s][m] - 1) /\ written[s][m] \in Nat
      BY <1>1, <1>12 DEF NumbersInv
    <3>2. ExtractNextIndex(listed[s][m]) + (i - 1) \in DOMAIN library[m]
      BY <3>1 DEF NumbersInv
    <3>3. ExtractNextIndex(listed[s][m]) \in Nat
      BY NumberIs
    <3> QED
      BY <3>1, <3>2, <3>3
  <2> HIDE DEF n
  <2>4. ASSUME NEW t \in Runs \ {s}, Working(t)', m \in seen'[t]
        PROVE  n \in listed'[t][m]
    <3>1. CASE t # r
      BY <1>6, <2>2, <2>4, <3>1
    <3>2. CASE t = r /\ m = l
      BY <1>5, <2>3, <3>2
    <3>3. CASE t = r /\ m # l
      <4>1. m \in seen[r] /\ Working(r)
        BY <1>1, <1>5, <2>4, <3>3 DEF Working
      <4> QED
        BY <1>5, <2>2, <3>3, <4>1
    <3> QED
      BY <3>1, <3>2, <3>3
  <2> QED
    BY <1>1, <2>1, <2>2, <2>4 DEF n
<1>13. UnreadableHasCause'
  <2> SUFFICES ASSUME \A s \in Runs : ~overlapped'[s], NEW m \in Libraries,
                      NEW n \in DOMAIN library'[m], library'[m][n] \in {Empty, Torn}
               PROVE  \E s \in Runs : opened'[s] /\ Target(s)' = m /\ Number(s, m)' = n
    BY DEF UnreadableHasCause
  <2>1. PICK s \in Runs : opened[s] /\ Target(s) = m /\ Number(s, m) = n
    BY <1>1, <1>2 DEF SamplesInv, UnreadableHasCause
  <2>2. s # r
    BY <1>3, <2>1
  <2> QED
    BY <1>1, <1>7, <2>1, <2>2
<1>14. \A s \in Runs, m \in Libraries : Len(todo'[s][m]) \in Nat
  BY <1>1 DEF SamplesInv
<1> QED
  BY <1>8, <1>9, <1>10, <1>11, <1>12, <1>13, <1>14 DEF SamplesInv

\* The samples a run has filed are in the library under numbers below its next one.
LEMMA FiledIs ==
  ASSUME NumbersInv, NEW r \in Runs, NEW l \in Libraries, NEW i \in 1..written[r][l]
  PROVE  LET n == ExtractNextIndex(listed[r][l]) + i - 1
         IN  n \in Nat /\ n \in DOMAIN library[l] /\ n < Number(r, l)
<1>1. written[r][l] \in Nat /\ ExtractNextIndex(listed[r][l]) \in Nat
      /\ Number(r, l) = ExtractNextIndex(listed[r][l]) + written[r][l]
  BY NumberIs DEF NumbersInv
<1>2. i - 1 \in 0..(written[r][l] - 1)
  BY <1>1
<1>3. ExtractNextIndex(listed[r][l]) + (i - 1) \in DOMAIN library[l]
  BY <1>2 DEF NumbersInv
<1> QED
  BY <1>1, <1>3

\* What a run does to a file leaves the samples of those that worked alone as they are,
\* its own and those of the others, none of whom is working.
LEMMA LoneSamplesStay ==
  ASSUME NumbersInv, SamplesInv, NEW r \in Runs, NEW l \in Libraries, NEW content,
         Holds(l, Number(r, l), content), phase[r] = "writing",
         NEW s \in Runs, ~overlapped[s]
  PROVE  /\ s # r => ~Working(s)
         /\ \A m \in Libraries : \A i \in 1..written[s][m] :
              LET n == ExtractNextIndex(listed[s][m]) + i - 1
              IN  library'[m][n] = library[m][n]
<1>1. Working(r) /\ \A m \in Libraries : m \in seen[r]
  BY WhoWorks
<1>2. s # r => ~Working(s)
  BY <1>1 DEF SamplesInv
<1>3. ASSUME NEW m \in Libraries, NEW i \in 1..written[s][m]
      PROVE  LET n == ExtractNextIndex(listed[s][m]) + i - 1
             IN  library'[m][n] = library[m][n]
  <2> DEFINE n == ExtractNextIndex(listed[s][m]) + i - 1
  <2>1. n \in Nat /\ n \in DOMAIN library[m] /\ n < Number(s, m)
    BY FiledIs
  <2>2. s # r => n \in listed[r][m]
    BY <1>1 DEF SamplesInv
  <2> HIDE DEF n
  <2>3. CASE m # l
    BY <2>3, HoldsIs
  <2>4. CASE m = l
    <3>1. n # Number(r, l)
      <4>1. Number(r, l) \in Nat /\ \A k \in listed[r][l] : k < Number(r, l)
        BY NumberIs
      <4>2. n < Number(r, l)
        BY <2>1, <2>2, <2>4, <4>1
      <4> QED
        BY <2>1, <4>1, <4>2
    <3>2. \A k \in DOMAIN library[l] : k # Number(r, l) => library'[l][k] = library[l][k]
      BY HoldsIs
    <3> QED
      BY <2>1, <2>4, <3>1, <3>2 DEF n
  <2> QED
    BY <2>3, <2>4
<1> QED
  BY <1>2, <1>3

\* Emptying the file of the next sample, or dying over it.
LEMMA OpenedKeeps ==
  ASSUME NumbersInv, SamplesInv, NEW r \in Runs, NEW content,
         Holds(Target(r), Number(r, Target(r)), content), phase[r] = "writing",
         UNCHANGED <<todo, seen, listed, written, overlapped>>,
         \A s \in Runs : s # r => phase'[s] = phase[s] /\ opened'[s] = opened[s],
         opened'[r],
         \/ phase'[r] = "writing" /\ content = Empty
         \/ phase'[r] = "failed"
  PROVE  SamplesInv'
<1> DEFINE l == Target(r)
           n == Number(r, l)
<1>1. l \in Libraries
  BY DEF Target, Libraries
<1>2. \A s \in Runs : /\ Target(s)' = Target(s)
                      /\ \A m \in Libraries : /\ Left(s, m)' <=> Left(s, m)
                                              /\ Number(s, m)' = Number(s, m)
                      /\ Working(s)' => Working(s)
  BY DEF Target, Left, Number, Working
<1>3. /\ library'[l][n] = content /\ DOMAIN library'[l] = DOMAIN library[l] \cup {n}
      /\ \A k \in DOMAIN library[l] : k # n => library'[l][k] = library[l][k]
      /\ \A m \in Libraries : m # l => library'[m] = library[m]
  BY <1>1, HoldsIs
<1> HIDE DEF l, n
<1>4. \A s \in Runs : phase'[s] = "returned" => \A m \in Libraries : ~Left(s, m)'
  BY <1>2 DEF SamplesInv
<1>5. \A s, t \in Runs : s # t /\ Working(s)' /\ Working(t)' => overlapped'[s]
  BY <1>2 DEF SamplesInv
<1>6. ASSUME NEW s \in Runs, ~overlapped'[s]
      PROVE  /\ phase'[s] = "writing" /\ opened'[s] =>
                  library'[Target(s)'][Number(s, Target(s))'] = Empty
             /\ \A m \in Libraries : \A i \in 1..written'[s][m] :
                  LET k == ExtractNextIndex(listed'[s][m]) + i - 1
                  IN  /\ library'[m][k] = Sample(todo'[s][m][i])
                      /\ \A t \in Runs \ {s} : Working(t)' /\ m \in seen'[t] => k \in listed'[t][m]
  <2>1. /\ s # r => ~Working(s)
        /\ \A m \in Libraries : \A i \in 1..written[s][m] :
             LET k == ExtractNextIndex(listed[s][m]) + i - 1
             IN  library'[m][k] = library[m][k]
    BY <1>1, <1>6, LoneSamplesStay DEF l
  <2>2. ASSUME phase'[s] = "writing", opened'[s]
        PROVE  library'[Target(s)'][Number(s, Target(s))'] = Empty
    <3>1. s = r
      BY <2>1, <2>2, WhoWorks
    <3>2. Target(s)' = l /\ Number(s, Target(s))' = n
      BY <1>2, <3>1 DEF l, n, Number
    <3> QED
      BY <1>3, <2>2, <3>1, <3>2
  <2>3. ASSUME NEW m \in Libraries, NEW i \in 1..written'[s][m]
        PROVE  LET k == ExtractNextIndex(listed'[s][m]) + i - 1
               IN  /\ library'[m][k] = Sample(todo'[s][m][i])
                   /\ \A t \in Runs \ {s} : Working(t)' /\ m \in seen'[t] => k \in listed'[t][m]
    BY <1>2, <1>6, <2>1, <2>3 DEF SamplesInv
  <2> QED
    BY <2>2, <2>3
<1>7. UnreadableHasCause'
  <2> SUFFICES ASSUME \A s \in Runs : ~overlapped'[s], NEW m \in Libraries,
                      NEW k \in DOMAIN library'[m], library'[m][k] \in {Empty, Torn}
               PROVE  \E s \in Runs : opened'[s] /\ Target(s)' = m /\ Number(s, m)' = k
    BY DEF UnreadableHasCause
  <2>1. CASE m = l /\ k = n
    BY <1>1, <1>2, <2>1 DEF l, n
  <2>2. CASE ~ (m = l /\ k = n)
    <3>1. k \in DOMAIN library[m] /\ library[m][k] = library'[m][k]
      BY <1>3, <2>2
    <3>2. PICK s \in Runs : opened[s] /\ Target(s) = m /\ Number(s, m) = k
      BY <3>1 DEF SamplesInv, UnreadableHasCause
    <3> QED
      BY <1>2, <3>2
  <2> QED
    BY <2>1, <2>2
<1> QED
  BY <1>4, <1>5, <1>6, <1>7 DEF SamplesInv

\* Writing the next sample: whole, unless another run writes there, too.
LEMMA WrittenKeeps ==
  ASSUME NumbersInv, SamplesInv, NEW r \in Runs, WriteSample(r)
  PROVE  SamplesInv'
<1> DEFINE l == Target(r)
           n == Number(r, l)
           sample == Sample(todo[r][l][written[r][l] + 1])
<1>1. l \in Libraries
  BY DEF Target, Libraries
<1>2. /\ phase[r] = "writing" /\ opened[r]
      /\ written' = [written EXCEPT ![r][l] = @ + 1]
      /\ opened' = [opened EXCEPT ![r] = FALSE]
      /\ UNCHANGED <<phase, todo, seen, listed, overlapped>>
  BY DEF WriteSample
<1>3. PICK content : /\ Holds(l, n, content)
                     /\ content = sample \/ library[l][n] # Empty
  BY DEF WriteSample
<1>4. ~overlapped[r] => content = sample
  BY <1>2, <1>3 DEF SamplesInv
<1> HIDE DEF sample
<1>5. /\ library'[l][n] = content /\ DOMAIN library'[l] = DOMAIN library[l] \cup {n}
      /\ \A k \in DOMAIN library[l] : k # n => library'[l][k] = library[l][k]
      /\ \A m \in Libraries : m # l => library'[m] = library[m]
  BY <1>1, <1>3, HoldsIs
<1>6. /\ n = ExtractNextIndex(listed[r][l]) + written[r][l]
      /\ ExtractNextIndex(listed[r][l]) \in Nat /\ written[r][l] \in Nat
  BY <1>1, NumberIs DEF NumbersInv
<1> HIDE DEF n
<1>7. /\ \A s \in Runs : s # r => written'[s] = written[s] /\ opened'[s] = opened[s]
      /\ \A m \in Libraries : m # l => written'[r][m] = written[r][m]
      /\ written'[r][l] = written[r][l] + 1 /\ ~opened'[r]
  BY <1>1, <1>2 DEF NumbersInv
<1>8. \A s \in Runs :
        /\ Working(s)' <=> Working(s)
        /\ s # r => /\ Target(s)' = Target(s)
                    /\ \A m \in Libraries : /\ Left(s, m)' <=> Left(s, m)
                                            /\ Number(s, m)' = Number(s, m)
  BY <1>2, <1>7 DEF Target, Left, Number, Working
<1>9. \A s \in Runs : phase'[s] = "returned" => \A m \in Libraries : ~Left(s, m)'
  BY <1>2, <1>8 DEF SamplesInv
<1>10. \A s, t \in Runs : s # t /\ Working(s)' /\ Working(t)' => overlapped'[s]
  BY <1>2, <1>8 DEF SamplesInv
<1>11. ASSUME NEW s \in Runs, ~overlapped'[s]
       PROVE  /\ phase'[s] = "writing" => ~opened'[s]
              /\ \A m \in Libraries : \A i \in 1..written'[s][m] :
                   LET k == ExtractNextIndex(listed'[s][m]) + i - 1
                   IN  /\ library'[m][k] = Sample(todo'[s][m][i])
                       /\ \A t \in Runs \ {s} : Working(t)' /\ m \in seen'[t] => k \in listed'[t][m]
  <2>1. ~overlapped[s]
    BY <1>2, <1>11
  <2>2. /\ s # r => ~Working(s)
        /\ \A m \in Libraries : \A i \in 1..written[s][m] :
             LET k == ExtractNextIndex(listed[s][m]) + i - 1
             IN  library'[m][k] = library[m][k]
    BY <1>1, <1>2, <1>3, <2>1, LoneSamplesStay DEF n
  <2>3. phase'[s] = "writing" => ~opened'[s]
    BY <1>2, <1>7, <2>2, WhoWorks
  <2>4. ASSUME NEW m \in Libraries, NEW i \in 1..written'[s][m]
        PROVE  LET k == ExtractNextIndex(listed'[s][m]) + i - 1
               IN  /\ library'[m][k] = Sample(todo'[s][m][i])
                   /\ \A t \in Runs \ {s} : Working(t)' /\ m \in seen'[t] => k \in listed'[t][m]
    <3>1. CASE i \in 1..written[s][m]
      BY <1>2, <1>8, <2>1, <2>2, <3>1 DEF SamplesInv
    <3>2. CASE i \notin 1..written[s][m]
      <4>1. s = r /\ m = l /\ i = written[r][l] + 1
        BY <1>6, <1>7, <2>4, <3>2
      <4>2. ExtractNextIndex(listed'[s][m]) + i - 1 = n /\ listed' = listed
        BY <1>2, <1>6, <4>1
      <4>3. library'[m][n] = Sample(todo'[s][m][i])
        BY <1>2, <1>4, <1>5, <2>1, <4>1 DEF sample
      <4>4. \A t \in Runs \ {s} : ~Working(t)'
        <5>1. Working(r)
          BY <1>2, WhoWorks
        <5> QED
          BY <1>8, <2>1, <4>1, <5>1 DEF SamplesInv
      <4> HIDE DEF l
      <4> QED
        BY <4>2, <4>3, <4>4
    <3> QED
      BY <3>1, <3>2
  <2> QED
    BY <2>3, <2>4
<1>12. UnreadableHasCause'
  <2> SUFFICES ASSUME \A s \in Runs : ~overlapped'[s], NEW m \in Libraries,
                      NEW k \in DOMAIN library'[m], library'[m][k] \in {Empty, Torn}
               PROVE  \E s \in Runs : opened'[s] /\ Target(s)' = m /\ Number(s, m)' = k
    BY DEF UnreadableHasCause
  <2>1. content \notin {Empty, Torn}
    BY <1>2, <1>4 DEF sample, Sample, Empty, Torn
  <2>2. ~ (m = l /\ k = n)
    BY <1>5, <2>1
  <2>3. k \in DOMAIN library[m] /\ library[m][k] = library'[m][k]
    BY <1>5, <2>2
  <2>4. PICK s \in Runs : opened[s] /\ Target(s) = m /\ Number(s, m) = k
    BY <1>2, <2>3 DEF SamplesInv, UnreadableHasCause
  <2>5. s # r
    BY <2>2, <2>4 DEF n
  <2> QED
    BY <1>7, <1>8, <2>4, <2>5
<1>13. /\ overlapped' \in [Runs -> BOOLEAN]
       /\ \A s \in Runs, m \in Libraries : Len(todo'[s][m]) \in Nat
  BY <1>2 DEF SamplesInv
<1> QED
  BY <1>9, <1>10, <1>11, <1>12, <1>13 DEF SamplesInv

\* Every step keeps what a lone run relies on.
LEMMA SamplesStep ==
  ASSUME NumbersInv, SamplesInv, Next
  PROVE  SamplesInv'
<1>1. PICK r \in Runs :
        \/ ReadCandidates(r) \/ ReadThrows(r)
        \/ \E l \in Libraries : ListDirectory(r, l)
        \/ OpenSample(r) \/ WriteSample(r) \/ Return(r) \/ Die(r)
  BY DEF Next
<1>2. DOMAIN phase = Runs /\ DOMAIN opened = Runs /\ \A l \in Libraries : Len(todo[r][l]) \in Nat
  BY DEF NumbersInv, SamplesInv
<1>3. CASE OpenSample(r)
  <2>1. /\ Holds(Target(r), Number(r, Target(r)), Empty) /\ phase[r] = "writing"
        /\ UNCHANGED <<phase, todo, seen, listed, written, overlapped>>
        /\ opened' = [opened EXCEPT ![r] = TRUE]
    BY <1>3 DEF OpenSample
  <2>2. opened'[r] /\ \A s \in Runs : s # r => opened'[s] = opened[s]
    BY <1>2, <2>1
  <2> QED
    BY <2>1, <2>2, OpenedKeeps
<1>4. CASE Return(r) \/ Die(r)
  <2>1. /\ UNCHANGED <<todo, seen, listed, written, opened, overlapped>>
        /\ phase[r] \in {"listing", "writing"}
        /\ \/ phase' = [phase EXCEPT ![r] = "failed"]
           \/ /\ phase' = [phase EXCEPT ![r] = "returned"]
              /\ UNCHANGED library
              /\ \A l \in Libraries : ~Left(r, l)
        /\ \/ UNCHANGED library
           \/ opened[r] /\ Holds(Target(r), Number(r, Target(r)), Torn)
    BY <1>4 DEF Return, Die
  <2>2. /\ phase'[r] \in {"failed", "returned"}
        /\ phase'[r] = "returned" => \A l \in Libraries : ~Left(r, l)
        /\ \A s \in Runs : s # r => phase'[s] = phase[s]
    BY <1>2, <2>1
  <2>3. CASE UNCHANGED library
    <3>1. ~Working(r)' /\ phase'[r] # "writing"
      BY <2>2 DEF Working
    <3>2. phase'[r] = "returned" => \A l \in Libraries : ~Left(r, l)'
      BY <2>1, <2>2 DEF Left
    <3> QED
      BY <1>2, <2>1, <2>2, <2>3, <3>1, <3>2, QuietKeeps
  <2>4. CASE ~ UNCHANGED library
    <3>1. /\ opened[r] /\ Holds(Target(r), Number(r, Target(r)), Torn)
          /\ phase[r] = "writing" /\ phase'[r] = "failed"
      BY <1>2, <2>1, <2>4, WhoWorks
    <3> QED
      BY <2>1, <2>2, <3>1, OpenedKeeps
  <2> QED
    BY <2>3, <2>4
<1> QED
  BY <1>1, <1>3, <1>4, ReadKeepsSamples, ListKeepsSamples, WrittenKeeps

LEMMA SyncStep == SyncInv /\ [Next \/ Stop]_vars => SyncInv'
<1>1. ASSUME NumbersInv, SamplesInv, UNCHANGED vars
      PROVE  SamplesInv'
  BY <1>1 DEF vars, SamplesInv, UnreadableHasCause, Working, Left, Target, Number
<1> QED
  BY <1>1, NumbersStep, SamplesStep DEF SyncInv, Stop

-----------------------------------------------------------------------------
(* What the library guarantees.                                            *)

\* The invariant holds in every reachable state, for any number of runs.
THEOREM SyncInductive == Spec => []SyncInv
<1>1. Init => SyncInv
  BY NumbersInit, SamplesInit DEF SyncInv
<1> QED
  BY <1>1, SyncStep, PTL DEF Spec

\* The samples are numbered without a gap after the stock, also after crashes and races.
THEOREM NumbersStayDense == Spec => []NumbersAreDense
<1>1. SyncInv => NumbersAreDense
  BY DEF SyncInv, NumbersInv
<1> QED
  BY <1>1, SyncInductive, PTL

\* A run that has worked alone has filed all it reports, each sample under a number of
\* its own, and it stays filed through whatever other runs do before or after.
THEOREM LoneRunsAreWhole == Spec => []LoneRunIsWhole
<1>1. ASSUME SyncInv, NEW r \in Runs, phase[r] = "returned", ~overlapped[r],
             NEW l \in Libraries, NEW i \in 1..Len(todo[r][l])
      PROVE  LET n == ExtractNextIndex(listed[r][l]) + i - 1
             IN  n \in DOMAIN library[l] /\ library[l][n] = Sample(todo[r][l][i])
  <2>1. NumbersInv /\ SamplesInv
    BY <1>1 DEF SyncInv
  <2>2. ~ (written[r][l] < Len(todo[r][l])) /\ Len(todo[r][l]) \in Nat /\ written[r][l] \in Nat
    BY <1>1, <2>1 DEF SamplesInv, NumbersInv, Left
  <2>3. i \in 1..written[r][l]
    BY <2>2
  <2> QED
    BY <1>1, <2>1, <2>3, FiledIs DEF SamplesInv
<1>2. SyncInv => LoneRunIsWhole
  BY <1>1 DEF LoneRunIsWhole
<1> QED
  BY <1>2, SyncInductive, PTL

\* Where no two runs have met, a file without a sample is one that is being written, or
\* whose run died over it.
THEOREM UnreadableHasItsCause == Spec => []UnreadableHasCause
<1>1. SyncInv => UnreadableHasCause
  BY DEF SyncInv, SamplesInv
<1> QED
  BY <1>1, SyncInductive, PTL

\* A run does not write to a file that it has found.
LEMMA FoundIsKept ==
  ASSUME NumbersInv, NEW r \in Runs, NEW l \in Libraries, NEW content,
         Holds(l, Number(r, l), content), phase[r] = "writing",
         NEW m \in Libraries, NEW n \in DOMAIN library[m], Settled(m, n)
  PROVE  n \in DOMAIN library'[m] /\ library'[m][n] = library[m][n]
<1>1. CASE m = l
  <2>1. n \in listed[r][l]
    <3>1. seen[r] = Libraries /\ Working(r)
      BY DEF NumbersInv, Working, Libraries
    <3> QED
      BY <1>1, <3>1 DEF Settled
  <2>2. n \in Nat
    BY DEF NumbersInv
  <2>3. n # Number(r, l)
    BY <2>1, <2>2, NumberIs
  <2> QED
    BY <1>1, <2>3, HoldsIs
<1>2. CASE m # l
  BY <1>2, HoldsIs
<1> QED
  BY <1>1, <1>2

\* A file that is settled stays so: whoever starts to work later finds it.
LEMMA SettledStays ==
  ASSUME NumbersInv, Next, NEW m \in Libraries, NEW n \in DOMAIN library[m], Settled(m, n)
  PROVE  /\ n \in DOMAIN library'[m]
         /\ library'[m][n] = library[m][n]
         /\ Settled(m, n)'
<1>1. PICK r \in Runs :
        \/ ReadCandidates(r) \/ ReadThrows(r)
        \/ \E l \in Libraries : ListDirectory(r, l)
        \/ OpenSample(r) \/ WriteSample(r) \/ Return(r) \/ Die(r)
  BY DEF Next
<1>2. /\ phase \in [Runs -> {"idle", "listing", "writing", "returned", "failed"}]
      /\ seen \in [Runs -> SUBSET Libraries]
      /\ listed \in [Runs -> [Libraries -> SUBSET Nat]]
  BY DEF NumbersInv
<1>3. n \in DOMAIN library'[m] /\ library'[m][n] = library[m][n]
  <2>1. CASE UNCHANGED library
    BY <2>1
  <2>2. CASE ~ UNCHANGED library
    <3>1. Target(r) \in Libraries
      BY DEF Target, Libraries
    <3>2. OpenSample(r) \/ WriteSample(r) \/ Die(r)
      BY <1>1, <2>2 DEF ReadCandidates, ReadThrows, ListDirectory, Return
    <3>3. PICK content : Holds(Target(r), Number(r, Target(r)), content)
      BY <2>2, <3>2 DEF OpenSample, WriteSample, Die
    <3>4. phase[r] = "writing"
      BY <2>2, <3>2 DEF OpenSample, WriteSample, Die, NumbersInv
    <3> QED
      BY <3>1, <3>3, <3>4, FoundIsKept
  <2> QED
    BY <2>1, <2>2
<1>4. ASSUME NEW s \in Runs, Working(s)', m \in seen'[s]
      PROVE  n \in listed'[s][m]
  <2>1. CASE \E l \in Libraries : ListDirectory(r, l)
    <3>1. PICK l \in Libraries : ListDirectory(r, l)
      BY <2>1
    <3>2. /\ phase[r] = "listing"
          /\ seen' = [seen EXCEPT ![r] = @ \cup {l}]
          /\ listed' = [listed EXCEPT ![r][l] = DOMAIN library[l]]
          /\ \A t \in Runs : t # r => phase'[t] = phase[t]
      BY <1>2, <3>1 DEF ListDirectory
    <3>3. CASE s = r /\ m = l
      BY <1>2, <3>2, <3>3
    <3>4. CASE ~ (s = r /\ m = l)
      <4>1. m \in seen[s] /\ listed'[s][m] = listed[s][m]
        BY <1>2, <1>4, <3>2, <3>4
      <4>2. Working(s)
        BY <1>4, <3>2, <4>1 DEF Working
      <4> QED
        BY <4>1, <4>2 DEF Settled
    <3> QED
      BY <3>3, <3>4
  <2>2. CASE ~ \E l \in Libraries : ListDirectory(r, l)
    <3>1. UNCHANGED <<seen, listed>>
      BY <1>1, <2>2 DEF ReadCandidates, ReadThrows, OpenSample, WriteSample, Return, Die
    <3>2. m \in seen[s] /\ phase[s] # "idle"
      BY <1>4, <3>1 DEF NumbersInv
    <3>3. phase[s] \in {"listing", "writing"}
      BY <1>1, <1>2, <1>4, <2>2, <3>2
         DEF Working, ReadCandidates, ReadThrows, OpenSample, WriteSample, Return, Die
    <3> QED
      BY <3>1, <3>2, <3>3 DEF Settled, Working
  <2> QED
    BY <2>1, <2>2
<1> QED
  BY <1>3, <1>4 DEF Settled

\* A file that every working run has found, or that was there before any of them
\* listed, keeps its sample for good.
THEOREM SettledForGood == Spec => SettledSamplesStay
<1>1. SyncInv /\ [Next \/ Stop]_vars => [Undisturbed]_vars
  BY SettledStays DEF Stop, Undisturbed, SyncInv
<1> QED
  BY <1>1, SyncInductive, PTL DEF Spec, SettledSamplesStay
=============================================================================
