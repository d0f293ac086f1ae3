-------------------------- MODULE MCSearchTraversal --------------------------
(***************************************************************************)
(* A small instance of SearchTraversal for TLC.                            *)
(***************************************************************************)
EXTENDS SearchTraversal, TLC

CONSTANTS l1, l2, l3, l4, l5

ad(price, area, lat, lon) ==
    [priceCzk |-> price, usableArea |-> area, latitude |-> lat, longitude |-> lon]

\* Priced, on request, without a price, and with one that is not a number.
SampleAds ==
    (l1 :> ad(7, 2, 50, 14)) @@ (l2 :> ad(0, 3, 50, None)) @@
    (l3 :> ad(None, 0, Text, 14)) @@ (l4 :> ad(Text, Text, None, None)) @@
    (l5 :> ad(9, None, 50, 14))

FourListed == <<l1, l2, l3, l4>>
=============================================================================
