--------------------------- MODULE MCScrapeSystem ---------------------------
(***************************************************************************)
(* Small instances of ScrapeSystem for TLC.                                *)
(***************************************************************************)
EXTENDS ScrapeSystem, TLC

CONSTANTS c1, c2, e1, e2, k1, k2, l1

\* k1 is the manual key; k2 belongs to the weekly schedule.
OwnKeys == (e1 :> {k1}) @@ (e2 :> {k1, k2})

\* Both keys are manual, and Cloud Run may run them side by side.
ManualOnly == (e1 :> {k1}) @@ (e2 :> {k2})

OneDetail == [kind : {"chata"}, price : {1}, hash : {"a"}]

Symmetry == Permutations({c1, c2})
=============================================================================
