--------------------------- MODULE AssetDiscovery ---------------------------
(***************************************************************************)
(* Discovery: which address the pipeline scans for a target URL.  Seeds    *)
(* are taken in turn, each await for a lookup ends one step; what they     *)
(* name is merged by address, and one asset is selected for the host name  *)
(* of the URL.                                                             *)
(*                                                                         *)
(* Lookups answer anything, and may answer two questions differently.      *)
(* Tags, timestamps and ids are left out; the sources of an asset are a    *)
(* set.                                                                    *)
(***************************************************************************)
EXTENDS Naturals, Sequences, SequencesExt

CONSTANTS
  Addresses,   \* IPv4 addresses
  Hosts,       \* names with a dot, and localhost
  Target,      \* the host name of the target URL
  SeedLists,   \* the discovery_seed of the task: strings, or none
  Known,       \* what an organisation lookup may name: pairs of address and domain
  MaxAnswer    \* bound: how many assets one lookup names

NoDomain == "none"

ASSUME DiscoveryAssumption ==
  /\ "127.0.0.1" \in Addresses /\ "localhost" \in Hosts
  /\ Addresses \cup Hosts \subseteq STRING
  /\ Addresses \cap Hosts = {} /\ NoDomain \notin Addresses \cup Hosts
  /\ Target \in Addresses \cup Hosts
  /\ SeedLists \subseteq Seq(STRING)
  /\ Known \subseteq Addresses \X (Hosts \cup {NoDomain})
  /\ MaxAnswer \in Nat

VARIABLES
  outcome,   \* "searching", then "scanning" or "thrown"
  seeds,
  turn,      \* the seed that is looked at
  assets,    \* merged, in the order of their first mention
  heard,     \* history: every candidate, in order
  selected

vars == <<outcome, seeds, turn, assets, heard, selected>>

Candidate(ip, domain, source) == [ip |-> ip, domain |-> domain, source |-> {source}]
NoAsset == [ip |-> "none", domain |-> NoDomain, source |-> {}]

\* No strings among the seeds of the task: the host name of the URL.
DeriveDiscoverySeed(given) == IF given = <<>> THEN <<Target>> ELSE given

Init ==
  /\ outcome = "searching"
  /\ \E given \in SeedLists : seeds = DeriveDiscoverySeed(given)
  /\ turn = 1
  /\ assets = <<>> /\ heard = <<>>
  /\ selected = NoAsset

\* Mutant: the last domain wins.
MergeAssetRenaming(list, candidate) ==
  LET same == {i \in DOMAIN list : list[i].ip = candidate.ip}
  IN  IF same = {} THEN Append(list, candidate)
      ELSE [i \in DOMAIN list |->
              IF i \in same
              THEN [list[i] EXCEPT !.domain = candidate.domain,
                                   !.source = @ \cup candidate.source]
              ELSE list[i]]

\* The first domain that names an address stays; sources add up.
MergeAsset(list, candidate) ==
  LET same == {i \in DOMAIN list : list[i].ip = candidate.ip}
  IN  IF same = {} THEN Append(list, candidate)
      ELSE [i \in DOMAIN list |->
              IF i \in same
              THEN [list[i] EXCEPT
                      !.domain = IF @ = NoDomain THEN candidate.domain ELSE @,
                      !.source = @ \cup candidate.source]
              ELSE list[i]]

Merged(list, candidates) == FoldLeft(MergeAsset, list, candidates)

-----------------------------------------------------------------------------
\* What one seed names is merged in one stretch.
Learn(candidates) ==
  /\ assets' = Merged(assets, candidates)
  /\ heard' = heard \o candidates
  /\ turn' = turn + 1
  /\ UNCHANGED <<outcome, seeds, selected>>

Searching == outcome = "searching" /\ turn <= Len(seeds)
Seed      == seeds[turn]

SkipBlank   == Searching /\ Seed = "" /\ Learn(<<>>)
TakeAddress == Searching /\ Seed \in Addresses
                         /\ Learn(<<Candidate(Seed, NoDomain, "seed")>>)

Answers(S) == {a \in UNION {[1..n -> S] : n \in 0..MaxAnswer} : IsInjective(a)}

\* A failed DNS lookup is an empty answer; localhost is not looked up.
DnsAnswers(host) == IF host = "localhost" THEN {<<"127.0.0.1">>} ELSE Answers(Addresses)

ResolveHost ==
  /\ Searching /\ Seed \in Hosts
  /\ \E answer \in DnsAnswers(Seed) :
       Learn([i \in DOMAIN answer |-> Candidate(answer[i], Seed, "dns")])

\* Whatever is neither an address nor a host name, is taken for an organisation.
Organization == Searching /\ Seed \notin Addresses \cup Hosts \cup {""}

LookupOrganization ==
  /\ Organization
  /\ \E answer \in Answers(Known) :
       Learn([i \in DOMAIN answer |->
                Candidate(answer[i][1], answer[i][2], "organization")])

\* The lookup is injected, and may reject.
LookupRejects == /\ Organization
                 /\ outcome' = "thrown"
                 /\ UNCHANGED <<seeds, turn, assets, heard, selected>>

\* Mutant: the first asset, whatever its name.
SelectedFirst(list) == list[1]

\* The first asset that fits the host name of the URL, or the first of all.
Selected(list) ==
  LET fits == {i \in DOMAIN list : Target \in {list[i].domain, list[i].ip}}
  IN  IF fits = {} THEN list[1] ELSE list[Min(fits)]

SelectAsset ==
  /\ outcome = "searching" /\ turn > Len(seeds)
  /\ IF assets = <<>>
     THEN outcome' = "thrown" /\ selected' = selected
     ELSE outcome' = "scanning" /\ selected' = Selected(assets)
  /\ UNCHANGED <<seeds, turn, assets, heard>>

Next == \/ SkipBlank \/ TakeAddress \/ ResolveHost \/ LookupOrganization \/ LookupRejects
        \/ SelectAsset

\* The end of discovery is the end of the model.
Stop == outcome # "searching" /\ UNCHANGED vars

Spec == Init /\ [][Next \/ Stop]_vars

-----------------------------------------------------------------------------
(* Properties.                                                             *)

AssetType == [ip : Addresses, domain : Hosts \cup {NoDomain},
              source : SUBSET {"seed", "dns", "organization"}]

DiscoveryTypeOK ==
  /\ outcome \in {"searching", "scanning", "thrown"}
  /\ seeds \in Seq(STRING) /\ turn \in 1..(Len(seeds) + 1)
  /\ assets \in Seq(AssetType) /\ heard \in Seq(AssetType)
  /\ selected \in AssetType \cup {NoAsset}

Mentions(history, ip) == {i \in DOMAIN history : history[i].ip = ip}
Namings(history, ip)  == {i \in Mentions(history, ip) : history[i].domain # NoDomain}
FirstName(history, ip) ==
  IF Namings(history, ip) = {} THEN NoDomain ELSE history[Min(Namings(history, ip))].domain
Sources(history, ip) == UNION {history[i].source : i \in Mentions(history, ip)}

\* One asset per address, which the phases that follow take for granted; it holds all that
\* was heard of its address, under the name heard first, and assets are in the order of
\* first mention: asset ids and the fallback of the selection depend on that order.
Summarises(list, history) ==
  /\ IsInjective([i \in DOMAIN list |-> list[i].ip])
  /\ \A ip \in Addresses : Mentions(list, ip) = {} <=> Mentions(history, ip) = {}
  /\ \A i \in DOMAIN list :
       /\ list[i].source = Sources(history, list[i].ip)
       /\ list[i].domain = FirstName(history, list[i].ip)
       /\ \A j \in 1..(i - 1) :
            Min(Mentions(history, list[j].ip)) < Min(Mentions(history, list[i].ip))

\* However the answers of the seeds overlap, the assets sum up what was heard (mergeAsset).
AssetsSummariseAnswers == DiscoveryTypeOK /\ Summarises(assets, heard)

\* Heard for the name of the target, or for its address.
IsTarget(candidate) == Target \in {candidate.ip, candidate.domain}

TargetAddresses == {heard[i].ip : i \in {j \in DOMAIN heard : IsTarget(heard[j])}}

\* What is scanned is the target: always if its name is the only seed, and among other
\* seeds if some address of it was not named by another of them before.  (If each was,
\* the names are lost in merging and the first asset of all is scanned.)
TargetIsScanned ==
  outcome = "scanning" /\ (\/ seeds = <<Target>>
                           \/ \E ip \in TargetAddresses :
                                Target \in {ip, FirstName(heard, ip)})
    => selected.ip \in TargetAddresses

\* The inductive invariant: the selection is made of the assets, and the name of the target
\* alone leads to nothing but the target.
DiscoveryInv ==
  /\ AssetsSummariseAnswers
  /\ outcome = "scanning" => assets # <<>> /\ selected = Selected(assets)
  /\ seeds = <<Target>> => \A i \in DOMAIN heard : IsTarget(heard[i])

=============================================================================
