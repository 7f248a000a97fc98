---------------------------- MODULE MCAutoRouter ----------------------------
(* Two game servers whose regions differ from each other, and the region names
   that tell apart a family's bare name, a server of it, and other families.
   One configuration has the game move between two tunneled regions, the other
   between a tunneled and a whitelisted one. *)
EXTENDS AutoRouter, TLC

CONSTANTS w1, w2, g1, g2, us, sg, jp

MCGameServers == {g1, g2}
MCGameRegions == {us, sg, jp}
MCRegionNames == {"america", "america-01", "singapore", "tokyo"}
MCFamily      == [r \in MCRegionNames |-> IF r = "america-01" THEN "america" ELSE r]
MCBestFamily  == (us :> "america") @@ (sg :> "singapore") @@ (jp :> "tokyo")
MCAvailable   == {"america-01", "singapore"}
MCAddrs       == {"a1", "s1"}
MCAddrOf      == ("america-01" :> "a1") @@ ("singapore" :> "s1")

MovingRegions == (g1 :> sg) @@ (g2 :> us)
BypassRegions == (g1 :> sg) @@ (g2 :> jp)

\* Workers are interchangeable.
Symmetry == Permutations(Workers)
=============================================================================
