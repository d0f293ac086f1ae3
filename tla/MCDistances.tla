----------------------------- MODULE MCDistances -----------------------------
(***************************************************************************)
(* A small instance of Distances for TLC.                                  *)
(***************************************************************************)
EXTENDS Distances, TLC

CONSTANTS l1, l2, town, lake, scraper, other, backfill

TwoListings == (l1 :> 1) @@ (l2 :> 2)

\* 137 minutes and 13 seconds, and an even two hours.
SampleSeconds == (town :> 8233) @@ (lake :> 7200)
=============================================================================
