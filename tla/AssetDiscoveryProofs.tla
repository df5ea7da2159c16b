------------------------ MODULE AssetDiscoveryProofs ------------------------
(***************************************************************************)
(* Proofs about AssetDiscovery, for any addresses, names, seeds and        *)
(* answers.                                                                *)
(*                                                                         *)
(* What a fold computes is shown by hand, for the induction theorems take  *)
(* operators as parameters: a set of counterexamples has a least element.  *)
(***************************************************************************)
EXTENDS AssetDiscovery, WellFoundedInduction, TLAPS

-----------------------------------------------------------------------------
(* The first of several places, and the last.                              *)

LEMMA LeastIs ==
  ASSUME NEW S \in SUBSET Nat, S # {}
  PROVE  Min(S) \in S /\ \A x \in S : Min(S) <= x
<1> DEFINE R == OpToRel(<, Nat)
<1>1. IsWellFoundedOn(R, Nat)
  BY NatLessThanWellFounded
<1>2. PICK m \in S : \A x \in S : ~ (<<x, m>> \in R)
  <2> HIDE DEF R
  <2> QED
    BY <1>1, WFMin
<1>3. \A x \in S : ~ (x < m)
  BY <1>2 DEF OpToRel
<1>4. \A x \in S : m <= x
  BY <1>3
<1> QED
  BY <1>4 DEF Min

\* The greatest element is the least of the upper bounds.
LEMMA GreatestIs ==
  ASSUME NEW n \in Nat, NEW S \in SUBSET (1..n), S # {}
  PROVE  Max(S) \in S /\ \A x \in S : x <= Max(S)
<1> DEFINE Bounds == {m \in Nat : \A x \in S : x <= m}
<1>1. Bounds # {}
  <2>1. n \in Bounds
    OBVIOUS
  <2> QED
    BY <2>1
<1>2. Min(Bounds) \in Bounds /\ \A m \in Bounds : Min(Bounds) <= m
  <2>1. Bounds \in SUBSET Nat
    OBVIOUS
  <2> HIDE DEF Bounds
  <2> QED
    BY <1>1, <2>1, LeastIs
<1>3. PICK m \in Bounds : \A k \in Bounds : m <= k
  <2> HIDE DEF Bounds
  <2> QED
    BY <1>2
<1>4. m \in S
  <2>1. SUFFICES ASSUME m \notin S PROVE FALSE
    OBVIOUS
  <2>2. m \in Nat /\ \A x \in S : x \in Nat /\ x >= 1 /\ x <= m /\ x # m
    BY <2>1
  <2>3. m # 0
    <3>1. PICK x \in S : TRUE
      OBVIOUS
    <3> HIDE DEF Bounds
    <3> QED
      BY <2>2, <3>1
  <2>4. m - 1 \in Bounds
    BY <2>2, <2>3
  <2> HIDE DEF Bounds
  <2> QED
    BY <1>3, <2>2, <2>4
<1>5. \E x \in S : \A y \in S : x >= y
  <2>1. \A y \in S : m >= y
    OBVIOUS
  <2> QED
    BY <1>4, <2>1
<1>6. /\ Max(S) \in S /\ \A y \in S : Max(S) >= y
  BY <1>5 DEF Max
<1> QED
  BY <1>6

-----------------------------------------------------------------------------
(* What merging a list of candidates computes.                             *)

\* One turn of the fold, of any function on sets of places.
Turn(list, items, f, s) ==
  IF s = {} THEN list ELSE MergeAsset(f[s \ {Max(s)}], items[Max(s)])

\* There is a function as the fold defines it: on the sets of the first k places, for
\* every k.
LEMMA FoldExists ==
  ASSUME NEW list, NEW items, NEW n \in Nat
  PROVE  \E f : f = [s \in SUBSET (1..n) |-> Turn(list, items, f, s)]
<1> DEFINE Has(k) == \E f : f = [s \in SUBSET (1..k) |-> Turn(list, items, f, s)]
           Bad == {k \in Nat : ~ Has(k)}
<1>1. Has(0)
  <2> DEFINE f == [s \in SUBSET (1..0) |-> list]
  <2>1. SUBSET (1..0) = {{}}
    <3>1. 1..0 = {}
      OBVIOUS
    <3> QED
      BY <3>1
  <2>2. f = [s \in SUBSET (1..0) |-> Turn(list, items, f, s)]
    <3>1. \A s \in SUBSET (1..0) : Turn(list, items, f, s) = list
      BY <2>1 DEF Turn
    <3> HIDE DEF f
    <3>2. f = [s \in SUBSET (1..0) |-> list]
      BY DEF f
    <3> QED
      BY <3>1, <3>2
  <2> QED
    BY <2>2
<1>2. ASSUME NEW k \in Nat, Has(k)
      PROVE  Has(k + 1)
  <2>1. PICK f : f = [s \in SUBSET (1..k) |-> Turn(list, items, f, s)]
    BY <1>2
  <2> DEFINE g == [s \in SUBSET (1..(k + 1)) |-> Turn(list, items, f, s)]
  <2>2. \A s \in SUBSET (1..k) : g[s] = f[s]
    <3>1. \A s \in SUBSET (1..k) : s \in SUBSET (1..(k + 1))
      <4>1. 1..k \subseteq 1..(k + 1)
        OBVIOUS
      <4> QED
        BY <4>1
    <3>2. \A s \in SUBSET (1..k) : f[s] = Turn(list, items, f, s)
      BY <2>1
    <3>3. \A s \in SUBSET (1..(k + 1)) : g[s] = Turn(list, items, f, s)
      OBVIOUS
    <3> HIDE DEF g
    <3> QED
      BY <3>1, <3>2, <3>3
  <2>3. ASSUME NEW s \in SUBSET (1..(k + 1)), s # {}
        PROVE  s \ {Max(s)} \in SUBSET (1..k)
    <3>1. k + 1 \in Nat
      OBVIOUS
    <3>2. Max(s) \in s /\ \A x \in s : x <= Max(s)
      BY <2>3, <3>1, GreatestIs
    <3>3. \A x \in s : x \in Nat /\ x >= 1 /\ x <= k + 1
      OBVIOUS
    <3>4. \A x \in s \ {Max(s)} : x \in 1..k
      <4> TAKE x \in s \ {Max(s)}
      <4>1. x # Max(s) /\ x <= Max(s) /\ Max(s) <= k + 1 /\ x \in Nat /\ Max(s) \in Nat /\ x >= 1
        BY <3>2, <3>3
      <4> QED
        BY <4>1
    <3> QED
      BY <3>4
  <2>4. \A s \in SUBSET (1..(k + 1)) : Turn(list, items, f, s) = Turn(list, items, g, s)
    <3> HIDE DEF g
    <3> QED
      BY <2>2, <2>3 DEF Turn
  <2>5. g = [s \in SUBSET (1..(k + 1)) |-> Turn(list, items, g, s)]
    <3>1. g = [s \in SUBSET (1..(k + 1)) |-> Turn(list, items, f, s)]
      OBVIOUS
    <3> HIDE DEF g
    <3> QED
      BY <2>4, <3>1
  <2> QED
    BY <2>5
<1>3. Bad = {}
  <2>1. SUFFICES ASSUME Bad # {} PROVE FALSE
    OBVIOUS
  <2>2. Min(Bad) \in Bad /\ \A x \in Bad : Min(Bad) <= x
    <3>1. Bad \in SUBSET Nat
      OBVIOUS
    <3> HIDE DEF Bad
    <3> QED
      BY <2>1, <3>1, LeastIs
  <2> DEFINE m == Min(Bad)
  <2>3. m \in Nat /\ ~ Has(m) /\ \A x \in Nat : ~ Has(x) => m <= x
    BY <2>2
  <2> HIDE DEF m, Has
  <2>4. m # 0
    BY <1>1, <2>3
  <2>5. m - 1 \in Nat /\ ~ (m <= m - 1) /\ (m - 1) + 1 = m
    BY <2>3, <2>4
  <2>6. Has(m - 1)
    BY <2>3, <2>5, Zenon
  <2>7. Has((m - 1) + 1)
    BY <1>2, <2>5, <2>6
  <2> QED
    BY <2>3, <2>5, <2>7
<1> QED
  BY <1>3

\* Merging takes n candidates in turn.
MergesInTurn(list, items, n, lists) ==
  /\ lists[0] = list
  /\ \A k \in 0..(n - 1) : lists[k + 1] = MergeAsset(lists[k], items[k + 1])
  /\ Merged(list, items) = lists[n]

LEMMA MergingIs ==
  ASSUME NEW list, NEW items, NEW n \in Nat, DOMAIN items = 1..n
  PROVE  \E lists : MergesInTurn(list, items, n, lists)
<1> DEFINE F(f) == f = [s \in SUBSET (1..n) |-> Turn(list, items, f, s)]
           fold == CHOOSE f : F(f)
           lists == [k \in 0..n |-> fold[1..k]]
<1>1. Merged(list, items) = fold[1..n]
  BY DEF Merged, FoldLeft, MapThenFoldSet, Turn
<1>2. fold = [s \in SUBSET (1..n) |-> Turn(list, items, fold, s)]
  <2>1. \E f : F(f)
    BY FoldExists
  <2>2. F(fold)
    <3> HIDE DEF F
    <3> QED
      BY <2>1
  <2> QED
    BY <2>2
<1> HIDE DEF fold
<1>3. lists[0] = list
  <2>1. lists[0] = fold[1..0] /\ 1..0 = {} /\ 1..0 \in SUBSET (1..n)
    OBVIOUS
  <2>2. fold[1..0] = Turn(list, items, fold, 1..0)
    BY <1>2, <2>1
  <2> QED
    BY <2>1, <2>2 DEF Turn
<1>4. ASSUME NEW k \in 0..(n - 1)
      PROVE  lists[k + 1] = MergeAsset(lists[k], items[k + 1])
  <2>1. /\ k \in 0..n /\ k + 1 \in 0..n /\ k + 1 \in Nat
        /\ 1..(k + 1) \in SUBSET (1..n) /\ k + 1 \in 1..(k + 1)
    OBVIOUS
  <2>2. Max(1..(k + 1)) = k + 1
    <3>1. /\ Max(1..(k + 1)) \in 1..(k + 1)
          /\ \A x \in 1..(k + 1) : x <= Max(1..(k + 1))
      BY <2>1, GreatestIs
    <3> DEFINE m == Max(1..(k + 1))
    <3>2. m \in 1..(k + 1) /\ k + 1 <= m
      BY <2>1, <3>1
    <3> HIDE DEF m
    <3>3. m = k + 1
      BY <3>2
    <3> QED
      BY <3>3 DEF m
  <2>3. 1..(k + 1) \ {k + 1} = 1..k
    OBVIOUS
  <2>4. lists[k + 1] = fold[1..(k + 1)] /\ lists[k] = fold[1..k]
    BY <2>1
  <2>5. fold[1..(k + 1)] = Turn(list, items, fold, 1..(k + 1))
    BY <1>2, <2>1
  <2>6. 1..(k + 1) # {}
    BY <2>1
  <2> HIDE DEF lists
  <2> QED
    BY <2>2, <2>3, <2>4, <2>5, <2>6 DEF Turn
<1>5. lists[n] = fold[1..n]
  OBVIOUS
<1> HIDE DEF lists
<1>6. MergesInTurn(list, items, n, lists)
  BY <1>1, <1>3, <1>4, <1>5 DEF MergesInTurn
<1> QED
  BY <1>6

-----------------------------------------------------------------------------
(* What one more candidate changes.                                        *)

\* What is heard last, is heard after all that was heard before.
LEMMA MinGrows ==
  ASSUME NEW n \in Nat, NEW S \in SUBSET (1..n)
  PROVE  /\ Min({n + 1}) = n + 1
         /\ S # {} => Min(S) \in S /\ Min(S \cup {n + 1}) = Min(S)
<1>1. Min({n + 1}) = n + 1
  <2>1. {n + 1} \in SUBSET Nat
    OBVIOUS
  <2>2. Min({n + 1}) \in {n + 1}
    BY <2>1, LeastIs
  <2> QED
    BY <2>2
<1>2. ASSUME S # {}
      PROVE  Min(S) \in S /\ Min(S \cup {n + 1}) = Min(S)
  <2>1. S \in SUBSET Nat /\ S \cup {n + 1} \in SUBSET Nat
    OBVIOUS
  <2>2. Min(S) \in S /\ \A x \in S : Min(S) <= x
    BY <1>2, <2>1, LeastIs
  <2> DEFINE T == S \cup {n + 1}
  <2>3. Min(T) \in T /\ \A x \in T : Min(T) <= x
    <3>1. T # {}
      OBVIOUS
    <3> HIDE DEF T
    <3> QED
      BY <2>1, <3>1, LeastIs DEF T
  <2> DEFINE m == Min(S)
             k == Min(T)
  <2>4. m \in S /\ (\A x \in S : m <= x) /\ m \in Nat /\ m <= n
    <3>1. m \in 1..n
      BY <2>2
    <3> HIDE DEF T, k
    <3> QED
      BY <2>2, <3>1
  <2>5. k \in T /\ k <= m /\ (k \in S \/ k = n + 1)
    BY <2>3, <2>4
  <2> HIDE DEF m, k, T
  <2>6. k \in S
    BY <2>4, <2>5
  <2>7. k = m
    BY <2>1, <2>4, <2>5, <2>6
  <2> QED
    BY <2>2, <2>7 DEF m, k, T
<1> QED
  BY <1>1, <1>2

OneMoreMention(h, c, g, ip) ==
  /\ Mentions(h, ip) \in SUBSET (1..Len(h))
  /\ Mentions(g, ip) = Mentions(h, ip) \cup (IF c.ip = ip THEN {Len(h) + 1} ELSE {})
  /\ Sources(g, ip) = Sources(h, ip) \cup (IF c.ip = ip THEN c.source ELSE {})
  /\ FirstName(g, ip) = IF c.ip = ip /\ FirstName(h, ip) = NoDomain
                          THEN c.domain ELSE FirstName(h, ip)

\* One more candidate is one more mention of its address, and of no other; it names the
\* address if nothing has before.
LEMMA HearIs ==
  ASSUME NEW h \in Seq(AssetType), NEW c \in AssetType, NEW ip,
         NEW g, g = Append(h, c)
  PROVE  OneMoreMention(h, c, g, ip)
<1> DEFINE n == Len(h)
<1>1. n \in Nat /\ DOMAIN h = 1..n /\ DOMAIN g = 1..(n + 1)
  OBVIOUS
<1>2. g[n + 1] = c /\ \A i \in 1..n : g[i] = h[i]
  OBVIOUS
<1>3. \A i : i \in 1..(n + 1) <=> i \in 1..n \/ i = n + 1
  BY <1>1
<1>4. n + 1 \notin 1..n
  BY <1>1
<1> HIDE DEF n
<1>5. Mentions(h, ip) \in SUBSET (1..n) /\ Namings(h, ip) \in SUBSET (1..n)
  BY <1>1 DEF Mentions, Namings
<1>6. Mentions(g, ip) = Mentions(h, ip) \cup (IF c.ip = ip THEN {n + 1} ELSE {})
  BY <1>1, <1>2, <1>3 DEF Mentions
<1>7. Namings(g, ip) = Namings(h, ip) \cup
                         (IF c.ip = ip /\ c.domain # NoDomain THEN {n + 1} ELSE {})
  BY <1>2, <1>5, <1>6 DEF Namings
<1>8. Sources(g, ip) = Sources(h, ip) \cup (IF c.ip = ip THEN c.source ELSE {})
  <2>1. \A i \in Mentions(h, ip) : g[i].source = h[i].source
    BY <1>2, <1>5
  <2>2. g[n + 1].source = c.source
    BY <1>2
  <2>3. ASSUME NEW x
        PROVE  (\E i \in Mentions(g, ip) : x \in g[i].source)
                 <=> \/ \E i \in Mentions(h, ip) : x \in h[i].source
                     \/ c.ip = ip /\ x \in c.source
    BY <1>6, <2>1, <2>2
  <2>4. \A x : /\ x \in Sources(g, ip) <=> \E i \in Mentions(g, ip) : x \in g[i].source
               /\ x \in Sources(h, ip) <=> \E i \in Mentions(h, ip) : x \in h[i].source
    BY DEF Sources
  <2> QED
    BY <2>3, <2>4
<1>9. Namings(h, ip) = {} <=> FirstName(h, ip) = NoDomain
  <2>1. ASSUME Namings(h, ip) # {}
        PROVE  h[Min(Namings(h, ip))].domain # NoDomain
    <3>1. Min(Namings(h, ip)) \in Namings(h, ip)
      BY <1>1, <1>5, <2>1, MinGrows
    <3> QED
      BY <3>1 DEF Namings
  <2> QED
    BY <2>1 DEF FirstName
<1>10. FirstName(g, ip) = IF c.ip = ip /\ FirstName(h, ip) = NoDomain
                           THEN c.domain ELSE FirstName(h, ip)
  <2>1. CASE Namings(h, ip) # {}
    <3>1. /\ Min(Namings(h, ip)) \in Namings(h, ip)
          /\ Min(Namings(h, ip) \cup {n + 1}) = Min(Namings(h, ip))
      BY <1>1, <1>5, <2>1, MinGrows
    <3>2. Min(Namings(g, ip)) = Min(Namings(h, ip)) /\ Namings(g, ip) # {}
      BY <1>7, <2>1, <3>1
    <3>3. g[Min(Namings(h, ip))] = h[Min(Namings(h, ip))]
      BY <1>2, <1>5, <3>1
    <3> QED
      BY <1>9, <2>1, <3>2, <3>3 DEF FirstName
  <2>2. CASE Namings(h, ip) = {} /\ c.ip = ip /\ c.domain # NoDomain
    <3>1. Namings(g, ip) = {n + 1}
      BY <1>7, <2>2
    <3>2. Min({n + 1}) = n + 1
      BY <1>1, <1>5, MinGrows
    <3> QED
      BY <1>2, <1>9, <2>2, <3>1, <3>2 DEF FirstName
  <2>3. CASE Namings(h, ip) = {} /\ ~ (c.ip = ip /\ c.domain # NoDomain)
    <3>1. Namings(g, ip) = {}
      BY <1>7, <2>3
    <3> QED
      BY <1>9, <2>3, <3>1 DEF FirstName
  <2> QED
    BY <2>1, <2>2, <2>3
<1> QED
  BY <1>1, <1>5, <1>6, <1>8, <1>10 DEF n, OneMoreMention

\* What a list sums up, it sums up with the next candidate merged.
LEMMA MergeKeeps ==
  ASSUME NEW list \in Seq(AssetType), NEW h \in Seq(AssetType), NEW c \in AssetType,
         Summarises(list, h), NEW g, g = Append(h, c)
  PROVE  MergeAsset(list, c) \in Seq(AssetType) /\ Summarises(MergeAsset(list, c), g)
<1> DEFINE n == Len(h)
           m == Len(list)
           same == {i \in DOMAIN list : list[i].ip = c.ip}
           merged == MergeAsset(list, c)
           First(k, ip) == Min(Mentions(k, ip))
<1>1. /\ n \in Nat /\ DOMAIN h = 1..n /\ DOMAIN g = 1..(n + 1) /\ n + 1 \in 1..(n + 1)
      /\ g[n + 1] = c /\ \A i \in 1..n : g[i] = h[i] /\ i \in 1..(n + 1)
  OBVIOUS
<1>2. \A i : i \in 1..(n + 1) <=> i \in 1..n \/ i = n + 1
  BY <1>1
<1>3. /\ m \in Nat /\ DOMAIN list = 1..m /\ \A i \in 1..m : list[i] \in AssetType
      /\ list \in [1..m -> AssetType]
  OBVIOUS
<1>4. \A ip : /\ Mentions(h, ip) \in SUBSET (1..n)
              /\ Mentions(g, ip) = Mentions(h, ip) \cup (IF c.ip = ip THEN {n + 1} ELSE {})
              /\ Sources(g, ip) = Sources(h, ip) \cup (IF c.ip = ip THEN c.source ELSE {})
              /\ FirstName(g, ip) = IF c.ip = ip /\ FirstName(h, ip) = NoDomain
                                      THEN c.domain ELSE FirstName(h, ip)
  <2> HIDE DEF m, same, merged, First
  <2>1. \A ip : OneMoreMention(h, c, g, ip)
    BY HearIs
  <2> QED
    BY <2>1 DEF OneMoreMention
<1>5. /\ \A i, j \in 1..m : list[i].ip = list[j].ip => i = j
      /\ \A ip \in Addresses : Mentions(list, ip) = {} <=> Mentions(h, ip) = {}
      /\ \A i \in 1..m :
           /\ list[i].source = Sources(h, list[i].ip)
           /\ list[i].domain = FirstName(h, list[i].ip)
           /\ \A j \in 1..(i - 1) : First(h, list[j].ip) < First(h, list[i].ip)
  <2>1. IsInjective([i \in DOMAIN list |-> list[i].ip])
    BY DEF Summarises
  <2>2. \A i, j \in 1..m : list[i].ip = list[j].ip => i = j
    BY <1>3, <2>1 DEF IsInjective
  <2> QED
    BY <1>1, <1>3, <2>2 DEF Summarises
<1>6. \A i \in 1..m : Mentions(h, list[i].ip) # {}
  <2> TAKE i \in 1..m
  <2>1. list[i].ip \in Addresses /\ i \in Mentions(list, list[i].ip)
    BY <1>3 DEF Mentions, AssetType
  <2> QED
    BY <1>5, <2>1
<1>7. \A i \in 1..m : /\ First(h, list[i].ip) \in 1..n
                      /\ First(g, list[i].ip) = First(h, list[i].ip)
  <2> TAKE i \in 1..m
  <2> DEFINE S == Mentions(h, list[i].ip)
  <2>1. Min(S) \in S /\ Min(S \cup {n + 1}) = Min(S)
    <3>1. S \in SUBSET (1..n) /\ S # {}
      BY <1>4, <1>6
    <3> HIDE DEF S
    <3> QED
      BY <1>1, <3>1, MinGrows
  <2>2. Mentions(g, list[i].ip) = S \/ Mentions(g, list[i].ip) = S \cup {n + 1}
    BY <1>4
  <2> QED
    BY <1>4, <2>1, <2>2
<1> HIDE DEF n, m
<1>8. c.ip \in Addresses /\ Mentions(g, c.ip) # {}
  BY <1>4 DEF AssetType
<1>9. CASE same = {}
  <2>1. merged = Append(list, c)
    BY <1>9 DEF MergeAsset
  <2>2. /\ merged \in Seq(AssetType) /\ DOMAIN merged = 1..(m + 1) /\ m + 1 \in 1..(m + 1)
        /\ merged[m + 1] = c /\ \A i \in 1..m : merged[i] = list[i]
    BY <2>1 DEF m
  <2>3. \A i : i \in 1..(m + 1) <=> i \in 1..m \/ i = m + 1
    BY <1>3
  <2> HIDE DEF merged, First
  <2>4. \A i \in 1..m : list[i].ip # c.ip
    BY <1>3, <1>9
  <2>5. Mentions(h, c.ip) = {}
    <3>1. Mentions(list, c.ip) = {}
      BY <1>3, <2>4 DEF Mentions
    <3> QED
      BY <1>5, <1>8, <3>1
  <2>6. Mentions(g, c.ip) = {n + 1} /\ First(g, c.ip) = n + 1
    <3>1. Mentions(g, c.ip) = {n + 1}
      BY <1>4, <2>5
    <3>2. {} \in SUBSET (1..n)
      OBVIOUS
    <3>3. Min({n + 1}) = n + 1
      BY <1>1, <3>2, MinGrows
    <3> QED
      BY <3>1, <3>3 DEF First
  <2>7. Sources(g, c.ip) = c.source /\ FirstName(g, c.ip) = c.domain
    <3>1. Sources(h, c.ip) = {} /\ FirstName(h, c.ip) = NoDomain
      BY <2>5 DEF Sources, FirstName, Namings
    <3> QED
      BY <1>4, <3>1
  <2>8. IsInjective([i \in DOMAIN merged |-> merged[i].ip])
    <3>1. \A i, j \in 1..(m + 1) : merged[i].ip = merged[j].ip => i = j
      <4>1. \A i, j \in 1..m : merged[i].ip = merged[j].ip => i = j
        BY <1>5, <2>2
      <4>2. \A i \in 1..m : merged[i].ip # merged[m + 1].ip
        BY <2>2, <2>4
      <4> QED
        BY <2>3, <4>1, <4>2
    <3> DEFINE ips == [i \in DOMAIN merged |-> merged[i].ip]
    <3>2. DOMAIN ips = 1..(m + 1) /\ \A i \in 1..(m + 1) : ips[i] = merged[i].ip
      BY <2>2
    <3> HIDE DEF ips
    <3>3. IsInjective(ips)
      BY <3>1, <3>2 DEF IsInjective
    <3> QED
      BY <3>3 DEF ips
  <2>9. ASSUME NEW ip \in Addresses
        PROVE  Mentions(merged, ip) = {} <=> Mentions(g, ip) = {}
    <3>1. CASE ip = c.ip
      <4>1. m + 1 \in Mentions(merged, ip)
        BY <2>2, <3>1 DEF Mentions
      <4> QED
        BY <1>8, <3>1, <4>1
    <3>2. CASE ip # c.ip
      <4>1. Mentions(merged, ip) = Mentions(list, ip)
        BY <1>3, <2>2, <2>3, <3>2 DEF Mentions
      <4> QED
        BY <1>4, <1>5, <3>2, <4>1
    <3> QED
      BY <3>1, <3>2
  <2>10. ASSUME NEW i \in DOMAIN merged
         PROVE  /\ merged[i].source = Sources(g, merged[i].ip)
                /\ merged[i].domain = FirstName(g, merged[i].ip)
                /\ \A j \in 1..(i - 1) : First(g, merged[j].ip) < First(g, merged[i].ip)
    <3>1. CASE i \in 1..m
      <4>1. \A j \in 1..(i - 1) : j \in 1..m
        BY <1>3, <3>1
      <4>2. merged[i] = list[i] /\ \A j \in 1..(i - 1) : merged[j] = list[j]
        BY <2>2, <3>1, <4>1
      <4>3. \A j \in 1..(i - 1) : First(g, list[j].ip) < First(g, list[i].ip)
        BY <1>5, <1>7, <3>1, <4>1
      <4>4. /\ Sources(g, list[i].ip) = Sources(h, list[i].ip)
            /\ FirstName(g, list[i].ip) = FirstName(h, list[i].ip)
        BY <1>4, <2>4, <3>1
      <4> QED
        BY <1>5, <3>1, <4>2, <4>3, <4>4
    <3>2. CASE i = m + 1
      <4>1. \A j \in 1..(i - 1) : j \in 1..m
        BY <1>3, <3>2
      <4>2. merged[i] = c /\ \A j \in 1..(i - 1) : merged[j] = list[j]
        BY <2>2, <3>2, <4>1
      <4>3. \A j \in 1..(i - 1) : First(g, list[j].ip) < n + 1
        <5> TAKE j \in 1..(i - 1)
        <5>1. First(g, list[j].ip) \in 1..n
          BY <1>7, <4>1
        <5> QED
          BY <1>1, <5>1
      <4> QED
        BY <2>6, <2>7, <4>2, <4>3
    <3> QED
      BY <2>2, <2>3, <3>1, <3>2
  <2> QED
    BY <2>2, <2>8, <2>9, <2>10 DEF Summarises, merged, First
<1>10. CASE same # {}
  <2>1. PICK k \in 1..m : list[k].ip = c.ip
    BY <1>3, <1>10
  <2>2. \A i \in 1..m : i \in same <=> i = k
    BY <1>3, <1>5, <2>1
  <2> DEFINE asset == [list[k] EXCEPT
                         !.domain = IF @ = NoDomain THEN c.domain ELSE @,
                         !.source = @ \cup c.source]
  <2>3. merged = [i \in 1..m |-> IF i = k THEN asset ELSE list[i]]
    <3>1. merged = [i \in DOMAIN list |->
                      IF i \in same
                      THEN [list[i] EXCEPT
                              !.domain = IF @ = NoDomain THEN c.domain ELSE @,
                              !.source = @ \cup c.source]
                      ELSE list[i]]
      BY <1>10 DEF MergeAsset
    <3> HIDE DEF same, merged
    <3> QED
      BY <1>3, <2>2, <3>1
  <2>4. /\ asset \in AssetType /\ asset.ip = c.ip
        /\ asset.source = list[k].source \cup c.source
        /\ asset.domain = IF list[k].domain = NoDomain THEN c.domain ELSE list[k].domain
    BY <1>3, <2>1 DEF AssetType
  <2> HIDE DEF merged, First, asset, same
  <2>5. merged \in Seq(AssetType)
    <3>1. merged \in [1..m -> AssetType]
      BY <1>3, <2>3, <2>4
    <3> QED
      BY <1>3, <3>1
  <2>6. /\ DOMAIN merged = 1..m /\ merged[k] = asset
        /\ \A i \in 1..m : i # k => merged[i] = list[i]
    BY <2>3
  <2>7. \A i \in 1..m : merged[i].ip = list[i].ip
    BY <2>1, <2>4, <2>6
  <2>8. IsInjective([i \in DOMAIN merged |-> merged[i].ip])
    <3>1. \A i, j \in 1..m : merged[i].ip = merged[j].ip => i = j
      BY <1>5, <2>7
    <3> QED
      BY <2>6, <3>1 DEF IsInjective
  <2>9. ASSUME NEW ip \in Addresses
        PROVE  Mentions(merged, ip) = {} <=> Mentions(g, ip) = {}
    <3>1. Mentions(merged, ip) = Mentions(list, ip)
      BY <1>3, <2>6, <2>7 DEF Mentions
    <3>2. k \in Mentions(list, c.ip)
      BY <1>3, <2>1 DEF Mentions
    <3> QED
      BY <1>4, <1>5, <1>8, <3>1, <3>2
  <2>10. ASSUME NEW i \in DOMAIN merged
         PROVE  /\ merged[i].source = Sources(g, merged[i].ip)
                /\ merged[i].domain = FirstName(g, merged[i].ip)
                /\ \A j \in 1..(i - 1) : First(g, merged[j].ip) < First(g, merged[i].ip)
    <3>1. i \in 1..m /\ \A j \in 1..(i - 1) : j \in 1..m
      BY <1>3, <2>6
    <3>2. \A j \in 1..(i - 1) : First(g, merged[j].ip) < First(g, merged[i].ip)
      <4>1. \A j \in 1..(i - 1) : First(g, list[j].ip) < First(g, list[i].ip)
        BY <1>5, <1>7, <3>1
      <4> QED
        BY <2>7, <3>1, <4>1
    <3>3. CASE i # k
      <4>1. list[i].ip # c.ip
        BY <1>5, <2>1, <3>1, <3>3
      <4>2. /\ Sources(g, list[i].ip) = Sources(h, list[i].ip)
            /\ FirstName(g, list[i].ip) = FirstName(h, list[i].ip)
        BY <1>4, <4>1
      <4> QED
        BY <1>5, <2>6, <3>1, <3>2, <3>3, <4>2
    <3>4. CASE i = k
      <4>1. merged[i] = asset /\ asset.ip = c.ip
        BY <2>4, <2>6, <3>4
      <4>2. list[k].source = Sources(h, c.ip) /\ list[k].domain = FirstName(h, c.ip)
        BY <1>5, <2>1
      <4>3. asset.source = Sources(g, c.ip) /\ asset.domain = FirstName(g, c.ip)
        BY <1>4, <2>4, <4>2
      <4> QED
        BY <3>2, <4>1, <4>3
    <3> QED
      BY <3>3, <3>4
  <2> QED
    BY <2>5, <2>8, <2>9, <2>10 DEF Summarises, merged, First
<1> QED
  BY <1>9, <1>10

-----------------------------------------------------------------------------
(* What a seed names is merged.                                            *)

\* A sequence is a function.
LEMMA SequenceIs ==
  ASSUME NEW S, NEW s \in Seq(S)
  PROVE  Len(s) \in Nat /\ s = [i \in 1..Len(s) |-> s[i]]
<1>1. s \in [1..Len(s) -> S] /\ Len(s) \in Nat
  OBVIOUS
<1> QED
  BY <1>1

LEMMA FunctionIsSequence ==
  ASSUME NEW S, NEW n \in Nat, NEW f \in [1..n -> S]
  PROVE  f \in Seq(S) /\ Len(f) = n
OBVIOUS

\* What was heard up to the k-th of some candidates.
UpTo(h, items, k) == [i \in 1..(Len(h) + k) |-> (h \o items)[i]]

LEMMA UpToIs ==
  ASSUME NEW h \in Seq(AssetType), NEW items \in Seq(AssetType)
  PROVE  /\ UpTo(h, items, 0) = h
         /\ UpTo(h, items, Len(items)) = h \o items
         /\ \A k \in 0..(Len(items) - 1) :
              /\ UpTo(h, items, k) \in Seq(AssetType)
              /\ UpTo(h, items, k + 1) = Append(UpTo(h, items, k), items[k + 1])
<1> DEFINE n == Len(h)
           all == h \o items
<1>1. /\ n \in Nat /\ Len(items) \in Nat /\ all \in Seq(AssetType)
      /\ Len(all) = n + Len(items) /\ h = [i \in 1..n |-> h[i]]
      /\ all = [i \in 1..Len(all) |-> all[i]]
  <2>1. n \in Nat /\ Len(items) \in Nat /\ all \in Seq(AssetType) /\ Len(all) = n + Len(items)
    OBVIOUS
  <2> HIDE DEF all
  <2> QED
    BY <2>1, SequenceIs
<1>2. \A i \in 1..n : all[i] = h[i]
  OBVIOUS
<1>3. \A k \in 1..Len(items) : all[n + k] = items[k]
  OBVIOUS
<1>4. \A i \in 1..Len(all) : all[i] \in AssetType
  BY <1>1
<1>5. UpTo(h, items, 0) = h
  <2>1. UpTo(h, items, 0) = [i \in 1..(n + 0) |-> all[i]] /\ n + 0 = n
    BY <1>1 DEF UpTo
  <2> HIDE DEF n, all
  <2> QED
    BY <1>1, <1>2, <2>1
<1>6. UpTo(h, items, Len(items)) = all
  <2>1. UpTo(h, items, Len(items)) = [i \in 1..(n + Len(items)) |-> all[i]]
    BY DEF UpTo
  <2> HIDE DEF n, all
  <2> QED
    BY <1>1, <2>1
<1>7. ASSUME NEW k \in 0..(Len(items) - 1)
      PROVE  /\ UpTo(h, items, k) \in Seq(AssetType)
             /\ UpTo(h, items, k + 1) = Append(UpTo(h, items, k), items[k + 1])
  <2> DEFINE one == UpTo(h, items, k)
             two == UpTo(h, items, k + 1)
  <2>1. one = [i \in 1..(n + k) |-> all[i]] /\ two = [i \in 1..(n + (k + 1)) |-> all[i]]
    BY DEF UpTo
  <2> HIDE DEF one, two, n, all
  <2>2. /\ k \in Nat /\ n + k \in Nat /\ n + (k + 1) = (n + k) + 1 /\ k + 1 \in 1..Len(items)
        /\ (n + k) + 1 \in 1..Len(all)
        /\ \A i \in 1..((n + k) + 1) : i \in 1..Len(all)
    BY <1>1
  <2>3. one \in [1..(n + k) -> AssetType] /\ two \in [1..((n + k) + 1) -> AssetType]
    BY <1>4, <2>1, <2>2
  <2>4. one \in Seq(AssetType) /\ two \in Seq(AssetType) /\ Len(one) = n + k
        /\ Len(two) = (n + k) + 1
    <3>1. n + k \in Nat /\ (n + k) + 1 \in Nat
      BY <2>2
    <3>2. one \in Seq(AssetType) /\ Len(one) = n + k
      BY ONLY <2>3, <3>1, FunctionIsSequence
    <3>3. two \in Seq(AssetType) /\ Len(two) = (n + k) + 1
      BY ONLY <2>3, <3>1, FunctionIsSequence
    <3> QED
      BY <3>2, <3>3
  <2>5. two[(n + k) + 1] = items[k + 1] /\ items[k + 1] \in AssetType
    BY <1>3, <2>1, <2>2
  <2>6. \A i \in 1..(n + k) : two[i] = one[i]
    BY <2>1, <2>2
  <2>7. two = Append(one, items[k + 1])
    <3> DEFINE e == items[k + 1]
    <3>1. /\ Append(one, e) \in Seq(AssetType) /\ Len(Append(one, e)) = (n + k) + 1
          /\ Append(one, e)[(n + k) + 1] = e
          /\ \A i \in 1..(n + k) : Append(one, e)[i] = one[i]
      BY <2>2, <2>4, <2>5
    <3>2. \A i \in 1..((n + k) + 1) : i \in 1..(n + k) \/ i = (n + k) + 1
      BY <2>2
    <3>3. \A i \in 1..((n + k) + 1) : two[i] = Append(one, e)[i]
      BY <2>5, <2>6, <3>1, <3>2
    <3> HIDE DEF e
    <3>4. /\ two = [i \in 1..((n + k) + 1) |-> two[i]]
          /\ Append(one, e) = [i \in 1..((n + k) + 1) |-> Append(one, e)[i]]
      BY <2>3, <3>1, SequenceIs
    <3>5. two = Append(one, e)
      BY <3>3, <3>4
    <3> QED
      BY <3>5 DEF e
  <2> QED
    BY <2>4, <2>7 DEF one, two
<1> QED
  BY <1>5, <1>6, <1>7 DEF all

\* Candidates that are merged in turn are summed up, all of them.
LEMMA FoldKeeps ==
  ASSUME NEW list \in Seq(AssetType), NEW h \in Seq(AssetType),
         NEW items \in Seq(AssetType), Summarises(list, h)
  PROVE  /\ Merged(list, items) \in Seq(AssetType)
         /\ Summarises(Merged(list, items), h \o items)
<1> DEFINE n == Len(items)
<1>1. n \in Nat /\ DOMAIN items = 1..n /\ \A i \in 1..n : items[i] \in AssetType
  OBVIOUS
<1>2. PICK lists : /\ lists[0] = list
                   /\ \A k \in 0..(n - 1) :
                        lists[k + 1] = MergeAsset(lists[k], items[k + 1])
                   /\ Merged(list, items) = lists[n]
  <2> HIDE DEF n
  <2>1. \E lists : MergesInTurn(list, items, n, lists)
    BY <1>1, MergingIs
  <2> QED
    BY <2>1 DEF MergesInTurn
<1> DEFINE Right(k) == lists[k] \in Seq(AssetType) /\ Summarises(lists[k], UpTo(h, items, k))
           Wrong == {k \in 0..n : ~ Right(k)}
<1>3. Right(0)
  BY <1>2, UpToIs
<1>4. ASSUME NEW k \in 0..(n - 1), Right(k)
      PROVE  Right(k + 1)
  <2>1. /\ UpTo(h, items, k) \in Seq(AssetType)
        /\ UpTo(h, items, k + 1) = Append(UpTo(h, items, k), items[k + 1])
    BY UpToIs
  <2>2. items[k + 1] \in AssetType /\ lists[k + 1] = MergeAsset(lists[k], items[k + 1])
    <3>1. k + 1 \in 1..n
      BY <1>1
    <3> QED
      BY <1>1, <1>2, <3>1
  <2> QED
    BY <1>4, <2>1, <2>2, MergeKeeps
<1>5. Wrong = {}
  <2>1. SUFFICES ASSUME Wrong # {} PROVE FALSE
    OBVIOUS
  <2>2. Min(Wrong) \in Wrong /\ \A x \in Wrong : Min(Wrong) <= x
    <3>1. Wrong \in SUBSET Nat
      BY <1>1
    <3> HIDE DEF Wrong
    <3> QED
      BY <2>1, <3>1, LeastIs
  <2> DEFINE m == Min(Wrong)
  <2>3. m \in 0..n /\ ~ Right(m) /\ \A x \in 0..n : ~ Right(x) => m <= x
    BY <2>2
  <2> HIDE DEF m, Right, n
  <2>4. m # 0
    BY <1>3, <2>3
  <2>5. m - 1 \in 0..(n - 1) /\ m - 1 \in 0..n /\ ~ (m <= m - 1) /\ (m - 1) + 1 = m
    BY <1>1, <2>3, <2>4
  <2>6. Right(m - 1)
    BY <2>3, <2>5, Zenon
  <2>7. Right((m - 1) + 1)
    BY <1>4, <2>5, <2>6
  <2> QED
    BY <2>3, <2>5, <2>7
<1>6. Right(n)
  <2>1. n \in 0..n
    BY <1>1
  <2> HIDE DEF Right, n
  <2> QED
    BY <1>5, <2>1
<1> QED
  BY <1>2, <1>6, UpToIs

-----------------------------------------------------------------------------
(* The invariant.                                                          *)

LEMMA SingletonIs == ASSUME NEW S, NEW e \in S PROVE <<e>> \in Seq(S)
OBVIOUS

\* An element of a list of assets.
LEMMA ElementIs ==
  ASSUME NEW list \in Seq(AssetType), NEW i \in DOMAIN list
  PROVE  list[i] \in AssetType /\ list[i].ip \in Addresses /\ i \in Mentions(list, list[i].ip)
<1>1. list[i] \in AssetType
  OBVIOUS
<1> QED
  BY <1>1 DEF AssetType, Mentions

LEMMA DiscoveryStarts == Init => DiscoveryInv
<1> SUFFICES ASSUME Init PROVE DiscoveryInv
  OBVIOUS
<1>1. assets = <<>> /\ heard = <<>> /\ outcome = "searching" /\ turn = 1 /\ selected = NoAsset
  BY DEF Init
<1>2. seeds \in Seq(STRING)
  <2>1. PICK given \in SeedLists : seeds = DeriveDiscoverySeed(given)
    BY DEF Init
  <2>2. given \in Seq(STRING) /\ Target \in STRING
    BY DiscoveryAssumption
  <2>3. <<Target>> \in Seq(STRING)
    BY <2>2, SingletonIs
  <2>4. seeds = <<Target>> \/ seeds = given
    BY <2>1 DEF DeriveDiscoverySeed
  <2>5. CASE seeds = <<Target>>
    BY <2>3, <2>5, Zenon
  <2>6. CASE seeds = given
    BY <2>2, <2>6, Zenon
  <2> QED
    BY <2>4, <2>5, <2>6
<1>3. DiscoveryTypeOK
  BY <1>1, <1>2 DEF DiscoveryTypeOK
<1>4. Summarises(<<>>, <<>>)
  <2>1. DOMAIN <<>> = {}
    OBVIOUS
  <2> QED
    BY <2>1 DEF Summarises, IsInjective, Mentions
<1> QED
  BY <1>1, <1>3, <1>4 DEF DiscoveryInv, AssetsSummariseAnswers

LEMMA LearnKeeps ==
  ASSUME DiscoveryInv, Searching, NEW items \in Seq(AssetType), Learn(items),
         seeds = <<Target>> => \A i \in DOMAIN items : IsTarget(items[i])
  PROVE  DiscoveryInv'
<1>1. /\ assets' = Merged(assets, items) /\ heard' = heard \o items /\ turn' = turn + 1
      /\ UNCHANGED <<outcome, seeds, selected>>
  BY DEF Learn
<1>2. /\ DiscoveryTypeOK /\ Summarises(assets, heard)
      /\ seeds = <<Target>> => \A i \in DOMAIN heard : IsTarget(heard[i])
  BY DEF DiscoveryInv, AssetsSummariseAnswers
<1>3. assets \in Seq(AssetType) /\ heard \in Seq(AssetType)
  BY <1>2 DEF DiscoveryTypeOK
<1>4. assets' \in Seq(AssetType) /\ Summarises(assets', heard')
  BY <1>1, <1>2, <1>3, FoldKeeps
<1>5. DiscoveryTypeOK'
  <2>1. turn' \in 1..(Len(seeds) + 1)
    BY <1>1, <1>2 DEF DiscoveryTypeOK, Searching
  <2>2. heard' \in Seq(AssetType)
    BY <1>1, <1>3
  <2> QED
    BY <1>1, <1>2, <1>4, <2>1, <2>2 DEF DiscoveryTypeOK
<1>6. seeds = <<Target>> => \A i \in DOMAIN heard' : IsTarget(heard'[i])
  <2> SUFFICES ASSUME seeds = <<Target>>, NEW i \in DOMAIN heard'
               PROVE  IsTarget(heard'[i])
    OBVIOUS
  <2>1. CASE i \in DOMAIN heard
    <3>1. heard'[i] = heard[i]
      BY <1>1, <1>3, <2>1
    <3> QED
      BY <1>2, <2>1, <3>1
  <2>2. CASE i \notin DOMAIN heard
    <3>1. i - Len(heard) \in DOMAIN items /\ heard'[i] = items[i - Len(heard)]
      BY <1>1, <1>3, <2>2
    <3> QED
      BY <3>1
  <2> QED
    BY <2>1, <2>2
<1>7. outcome' # "scanning"
  BY <1>1 DEF Searching
<1> QED
  BY <1>1, <1>4, <1>5, <1>6, <1>7 DEF DiscoveryInv, AssetsSummariseAnswers, IsTarget

\* What a lookup may answer for a host, and for an organisation.
LEMMA CandidateIs ==
  ASSUME NEW ip \in Addresses, NEW domain \in Hosts \cup {NoDomain},
         NEW source \in {"seed", "dns", "organization"}
  PROVE  /\ Candidate(ip, domain, source) \in AssetType
         /\ Target \in {ip, domain} => IsTarget(Candidate(ip, domain, source))
BY DEF Candidate, AssetType, IsTarget

\* A lookup answers at most so many different things.
LEMMA AnswersAre ==
  ASSUME NEW S, NEW answer \in Answers(S)
  PROVE  \E n \in Nat : answer \in [1..n -> S]
<1>1. \A n \in 0..MaxAnswer : n \in Nat
  BY DiscoveryAssumption
<1> QED
  BY <1>1 DEF Answers

\* The seed at hand; if the target is the only one, it is the target.
LEMMA SeedIs ==
  ASSUME DiscoveryInv, Searching
  PROVE  Seed \in STRING /\ (seeds = <<Target>> => Seed = Target)
<1>1. seeds \in Seq(STRING) /\ turn \in 1..Len(seeds)
  BY DEF DiscoveryInv, AssetsSummariseAnswers, DiscoveryTypeOK, Searching
<1>2. ASSUME seeds = <<Target>>
      PROVE  Seed = Target
  <2>1. Len(seeds) = 1 /\ seeds[1] = Target
    BY <1>2
  <2>2. turn = 1
    BY <1>1, <2>1
  <2> QED
    BY <2>1, <2>2 DEF Seed
<1> QED
  BY <1>1, <1>2 DEF Seed

LEMMA SkipKeeps == DiscoveryInv /\ SkipBlank => DiscoveryInv'
<1> SUFFICES ASSUME DiscoveryInv, SkipBlank PROVE DiscoveryInv'
  OBVIOUS
<1>1. <<>> \in Seq(AssetType) /\ DOMAIN <<>> = {}
  OBVIOUS
<1>2. Searching /\ Learn(<<>>)
  BY DEF SkipBlank
<1> QED
  BY <1>1, <1>2, LearnKeeps

LEMMA TakeKeeps == DiscoveryInv /\ TakeAddress => DiscoveryInv'
<1> SUFFICES ASSUME DiscoveryInv, TakeAddress PROVE DiscoveryInv'
  OBVIOUS
<1> DEFINE candidate == Candidate(Seed, NoDomain, "seed")
<1>1. Searching /\ Seed \in Addresses /\ Learn(<<candidate>>)
  BY DEF TakeAddress
<1>2. candidate \in AssetType /\ (Seed = Target => IsTarget(candidate))
  BY <1>1, CandidateIs
<1>3. seeds = <<Target>> => Seed = Target
  BY <1>1, SeedIs
<1> HIDE DEF candidate
<1>4. <<candidate>> \in Seq(AssetType) /\ \A i \in DOMAIN <<candidate>> : <<candidate>>[i] = candidate
  BY <1>2
<1> QED
  BY <1>1, <1>2, <1>3, <1>4, LearnKeeps

LEMMA ResolveKeeps == DiscoveryInv /\ ResolveHost => DiscoveryInv'
<1> SUFFICES ASSUME DiscoveryInv, ResolveHost PROVE DiscoveryInv'
  OBVIOUS
<1> DEFINE named(answer) == [i \in DOMAIN answer |-> Candidate(answer[i], Seed, "dns")]
<1>1. Searching /\ Seed \in Hosts
  BY DEF ResolveHost
<1>2. PICK answer \in DnsAnswers(Seed) : Learn(named(answer))
  BY DEF ResolveHost
<1>3. PICK n \in Nat : answer \in [1..n -> Addresses]
  <2>1. CASE Seed = "localhost"
    <3>1. answer = <<"127.0.0.1">> /\ "127.0.0.1" \in Addresses
      BY <2>1, DiscoveryAssumption DEF DnsAnswers
    <3>2. answer \in [1..1 -> Addresses]
      BY <3>1
    <3> QED
      BY <3>2
  <2>2. CASE Seed # "localhost"
    <3>1. answer \in Answers(Addresses)
      BY <2>2 DEF DnsAnswers
    <3> QED
      BY <3>1, AnswersAre
  <2> QED
    BY <2>1, <2>2
<1>4. \A i \in 1..n : /\ named(answer)[i] \in AssetType
                      /\ Seed = Target => IsTarget(named(answer)[i])
  <2> TAKE i \in 1..n
  <2>1. named(answer)[i] = Candidate(answer[i], Seed, "dns") /\ answer[i] \in Addresses
    BY <1>3
  <2> QED
    BY <1>1, <2>1, CandidateIs
<1>5. DOMAIN named(answer) = 1..n /\ named(answer) \in Seq(AssetType)
  <2>1. named(answer) = [i \in 1..n |-> named(answer)[i]]
    BY <1>3
  <2> HIDE DEF named
  <2> QED
    BY <1>4, <2>1
<1>6. seeds = <<Target>> => Seed = Target
  BY <1>1, SeedIs
<1> HIDE DEF named
<1> QED
  BY <1>1, <1>2, <1>4, <1>5, <1>6, LearnKeeps

LEMMA LookupKeeps == DiscoveryInv /\ LookupOrganization => DiscoveryInv'
<1> SUFFICES ASSUME DiscoveryInv, LookupOrganization PROVE DiscoveryInv'
  OBVIOUS
<1> DEFINE named(answer) ==
      [i \in DOMAIN answer |-> Candidate(answer[i][1], answer[i][2], "organization")]
<1>1. Searching /\ Seed \notin Addresses \cup Hosts
  BY DEF LookupOrganization, Organization
<1>2. PICK answer \in Answers(Known) : Learn(named(answer))
  BY DEF LookupOrganization
<1>3. PICK n \in Nat : answer \in [1..n -> Known]
  BY AnswersAre
<1>4. \A i \in 1..n : named(answer)[i] \in AssetType
  <2> TAKE i \in 1..n
  <2>1. named(answer)[i] = Candidate(answer[i][1], answer[i][2], "organization")
    BY <1>3
  <2>2. answer[i][1] \in Addresses /\ answer[i][2] \in Hosts \cup {NoDomain}
    <3>1. answer[i] \in Addresses \X (Hosts \cup {NoDomain})
      BY <1>3, DiscoveryAssumption
    <3> QED
      BY <3>1
  <2> QED
    BY <2>1, <2>2, CandidateIs
<1>5. named(answer) \in Seq(AssetType)
  <2>1. named(answer) = [i \in 1..n |-> named(answer)[i]]
    BY <1>3
  <2> HIDE DEF named
  <2> QED
    BY <1>4, <2>1
<1>6. seeds # <<Target>>
  <2>1. Target \in Addresses \cup Hosts
    BY DiscoveryAssumption
  <2> QED
    BY <1>1, <2>1, SeedIs
<1> HIDE DEF named
<1> QED
  BY <1>1, <1>2, <1>5, <1>6, LearnKeeps

\* A step that neither searches nor merges.
LEMMA EndKeeps ==
  ASSUME DiscoveryInv, UNCHANGED <<seeds, turn, assets, heard>>,
         outcome' \in {"searching", "scanning", "thrown"},
         \/ UNCHANGED <<outcome, selected>>
         \/ outcome' = "thrown" /\ selected' = selected
         \/ assets # <<>> /\ selected' = Selected(assets) /\ selected' \in AssetType
  PROVE  DiscoveryInv'
<1>1. DiscoveryTypeOK'
  BY DEF DiscoveryInv, AssetsSummariseAnswers, DiscoveryTypeOK
<1>2. Summarises(assets, heard)'
  BY DEF DiscoveryInv, AssetsSummariseAnswers
<1>3. outcome' = "scanning" => assets' # <<>> /\ selected' = Selected(assets')
  BY DEF DiscoveryInv
<1>4. seeds' = <<Target>> => \A i \in DOMAIN heard' : IsTarget(heard'[i])
  BY DEF DiscoveryInv
<1> QED
  BY <1>1, <1>2, <1>3, <1>4 DEF DiscoveryInv, AssetsSummariseAnswers, IsTarget, Selected

\* The asset that is selected fits the target, if one does; it is one of the assets.
LEMMA SelectedIs ==
  ASSUME NEW list \in Seq(AssetType), list # <<>>
  PROVE  \E i \in DOMAIN list :
           /\ Selected(list) = list[i]
           /\ (\E j \in DOMAIN list : IsTarget(list[j])) => IsTarget(list[i])
<1> DEFINE fits == {i \in DOMAIN list : Target \in {list[i].domain, list[i].ip}}
<1>1. 1 \in DOMAIN list /\ DOMAIN list \in SUBSET Nat
  OBVIOUS
<1>2. \A i \in DOMAIN list : i \in fits <=> IsTarget(list[i])
  BY DEF IsTarget
<1>3. Selected(list) = IF fits = {} THEN list[1] ELSE list[Min(fits)]
  BY DEF Selected
<1>4. CASE fits = {}
  BY <1>1, <1>2, <1>3, <1>4
<1>5. CASE fits # {}
  <2>1. fits \in SUBSET Nat /\ fits \subseteq DOMAIN list
    BY <1>1
  <2> HIDE DEF fits
  <2>2. Min(fits) \in fits
    BY <1>5, <2>1, LeastIs
  <2> QED
    BY <1>2, <1>3, <1>5, <2>1, <2>2
<1> QED
  BY <1>4, <1>5

LEMMA DiscoveryStep == DiscoveryInv /\ [Next \/ Stop]_vars => DiscoveryInv'
<1> SUFFICES ASSUME DiscoveryInv, [Next \/ Stop]_vars PROVE DiscoveryInv'
  OBVIOUS
<1>1. assets \in Seq(AssetType) /\ outcome \in {"searching", "scanning", "thrown"}
  BY DEF DiscoveryInv, AssetsSummariseAnswers, DiscoveryTypeOK
<1>2. CASE SkipBlank
  BY <1>2, SkipKeeps
<1>3. CASE TakeAddress
  BY <1>3, TakeKeeps
<1>4. CASE ResolveHost
  BY <1>4, ResolveKeeps
<1>5. CASE LookupOrganization
  BY <1>5, LookupKeeps
<1>6. CASE LookupRejects
  BY <1>6, EndKeeps DEF LookupRejects
<1>7. CASE SelectAsset
  <2>1. CASE assets = <<>>
    BY <1>7, <2>1, EndKeeps DEF SelectAsset
  <2>2. CASE assets # <<>>
    <3>1. selected' = Selected(assets) /\ outcome' = "scanning"
          /\ UNCHANGED <<seeds, turn, assets, heard>>
      BY <1>7, <2>2 DEF SelectAsset
    <3>2. \E i \in DOMAIN assets : Selected(assets) = assets[i]
      BY <1>1, <2>2, SelectedIs
    <3>3. selected' \in AssetType
      BY <1>1, <3>1, <3>2
    <3> QED
      BY <2>2, <3>1, <3>3, EndKeeps
  <2> QED
    BY <2>1, <2>2
<1>8. CASE Stop \/ UNCHANGED vars
  BY <1>1, <1>8, EndKeeps DEF Stop, vars
<1> QED
  BY <1>2, <1>3, <1>4, <1>5, <1>6, <1>7, <1>8 DEF Next

\* The invariant holds in every state.
THEOREM DiscoveryInductive == Spec => []DiscoveryInv
<1>1. Init => DiscoveryInv
  BY DiscoveryStarts
<1>2. DiscoveryInv /\ [Next \/ Stop]_vars => DiscoveryInv'
  BY DiscoveryStep
<1> QED
  BY <1>1, <1>2, PTL DEF Spec

\* However the answers of the seeds overlap, there is one asset for each address that was
\* heard of, in the order of first mention, with all that was heard (mergeAsset).
THEOREM AssetsAlwaysSummarise == Spec => []AssetsSummariseAnswers
<1>1. DiscoveryInv => AssetsSummariseAnswers
  BY DEF DiscoveryInv
<1> QED
  BY <1>1, DiscoveryInductive, PTL

\* What is scanned is the target, if the target is the only seed or an address of it was
\* first named for it (selectAsset).
THEOREM TargetAlwaysScanned == Spec => []TargetIsScanned
<1>1. DiscoveryInv => TargetIsScanned
  <2> SUFFICES ASSUME DiscoveryInv, outcome = "scanning",
                      \/ seeds = <<Target>>
                      \/ \E ip \in TargetAddresses : Target \in {ip, FirstName(heard, ip)}
               PROVE  selected.ip \in TargetAddresses
    BY DEF TargetIsScanned
  <2>1. /\ assets \in Seq(AssetType) /\ heard \in Seq(AssetType) /\ Summarises(assets, heard)
        /\ assets # <<>> /\ selected = Selected(assets)
        /\ seeds = <<Target>> => \A i \in DOMAIN heard : IsTarget(heard[i])
    BY DEF DiscoveryInv, AssetsSummariseAnswers, DiscoveryTypeOK
  <2>2. PICK i \in DOMAIN assets :
          /\ selected = assets[i]
          /\ (\E j \in DOMAIN assets : IsTarget(assets[j])) => IsTarget(assets[i])
    BY <2>1, SelectedIs
  <2>3. assets[i] \in AssetType /\ assets[i].ip \in Addresses
    BY <2>1, ElementIs
  <2>4. Mentions(heard, assets[i].ip) # {}
    <3>1. i \in Mentions(assets, assets[i].ip)
      BY DEF Mentions
    <3> QED
      BY <2>1, <2>3, <3>1 DEF Summarises
  <2>5. CASE seeds = <<Target>>
    <3>1. PICK j \in DOMAIN heard : heard[j].ip = assets[i].ip
      BY <2>4 DEF Mentions
    <3>2. IsTarget(heard[j])
      BY <2>1, <2>5
    <3> QED
      BY <2>2, <3>1, <3>2 DEF TargetAddresses
  <2>6. ASSUME NEW ip \in TargetAddresses, Target \in {ip, FirstName(heard, ip)}
        PROVE  selected.ip \in TargetAddresses
    <3>1. PICK j \in DOMAIN heard : ip = heard[j].ip
      BY DEF TargetAddresses
    <3>2. ip \in Addresses /\ j \in Mentions(heard, ip)
      BY <2>1, <3>1, ElementIs
    <3>3. PICK k \in DOMAIN assets : assets[k].ip = ip
      BY <2>1, <3>2 DEF Summarises, Mentions
    <3>4. assets[k].domain = FirstName(heard, ip)
      BY <2>1, <3>3 DEF Summarises
    <3>5. IsTarget(assets[i])
      BY <2>2, <2>6, <3>3, <3>4 DEF IsTarget
    <3>6. assets[i].domain = FirstName(heard, assets[i].ip)
      BY <2>1 DEF Summarises
    <3>7. \E l \in DOMAIN heard : heard[l].ip = assets[i].ip /\ IsTarget(heard[l])
      <4>1. CASE Target = assets[i].ip
        BY <2>4, <4>1 DEF Mentions, IsTarget
      <4>2. CASE Target = assets[i].domain
        <5> DEFINE N == Namings(heard, assets[i].ip)
        <5>1. Target # NoDomain
          BY DiscoveryAssumption
        <5>2. N # {} /\ Target = heard[Min(N)].domain
          BY <3>6, <4>2, <5>1 DEF FirstName
        <5>3. N \in SUBSET Nat
          BY <2>1 DEF Namings, Mentions
        <5> HIDE DEF N
        <5>4. Min(N) \in N
          BY <5>2, <5>3, LeastIs
        <5> QED
          BY <5>2, <5>4 DEF N, Namings, Mentions, IsTarget
      <4> QED
        BY <3>5, <4>1, <4>2 DEF IsTarget
    <3> QED
      BY <2>2, <3>7 DEF TargetAddresses
  <2> QED
    BY <2>5, <2>6
<1> QED
  BY <1>1, DiscoveryInductive, PTL
=============================================================================
