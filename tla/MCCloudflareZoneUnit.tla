------------------------ MODULE MCCloudflareZoneUnit ------------------------
(* Values for the model checking of CloudflareZoneUnit. *)
EXTENDS CloudflareZoneUnit, TLC

V(name, ttl) == [value |-> name, ttl |-> ttl]

\* One value, another, or both with another TTL.
MCContents == {{V("v1", 1)}, {V("v2", 1)}, {V("v1", 2), V("v2", 2)}}
MCTwoContents == {{V("v1", 1)}, {V("v1", 2), V("v2", 2)}}
MCOneValue == {{V("v1", 1)}, {V("v1", 2)}}

MCTypes == (1 :> "A") @@ (2 :> "TXT")
MCExclusive == (1 :> "A") @@ (2 :> "CNAME")
=============================================================================
