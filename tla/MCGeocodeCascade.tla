--------------------------- MODULE MCGeocodeCascade ---------------------------
EXTENDS GeocodeCascade, TLC

CONSTANTS l1, l2

TwoLanes == {l1, l2}
OneLane == {l1}

\* Lanes are interchangeable; the specification never tells one from another.
LaneSymmetry == Permutations({l1, l2})

\* Nothing uploaded yet, and two work orders before the third: one too thin to
\* have an address, one with an address the cache does not know.
NothingUploaded == [t \in Tickets |-> -1]
ThinOneFirst == [t \in Tickets |-> CASE t = 1 -> NoAddress [] t = 2 -> 3 [] OTHER -> -1]
=============================================================================
