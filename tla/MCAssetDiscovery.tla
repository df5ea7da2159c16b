-------------------------- MODULE MCAssetDiscovery --------------------------
(* AssetDiscovery with two remote hosts that may share addresses.            *)
EXTENDS AssetDiscovery

MCSeeds == {"10.0.0.1", "a.example", "b.example", "localhost", "Example Corp", ""}
MCSeedLists == UNION {[1..n -> MCSeeds] : n \in 0..3}
MCKnown == {<<"10.0.0.1", "b.example">>, <<"10.0.0.2", NoDomain>>}
=============================================================================
