-------------------------- MODULE MCManufacturing --------------------------
(* Small instances of Manufacturing: two requests and two artworks, or, for *)
(* the owner who keeps asking for a draft, one of each.                      *)
EXTENDS Manufacturing, TLC

CONSTANTS r1, r2, a1, a2

MCRequests == {r1, r2}
MCArtworks == {a1, a2}
MCSigned   == {a1}
MCSymmetry == Permutations(MCRequests)

MCOneRequest == {r1}
MCOneArtwork == {a1}

ASSUME ManufacturingAssumption == FactoryAssumption
=============================================================================
