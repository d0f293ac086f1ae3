------------------------------ MODULE MCReadApi ------------------------------
(***************************************************************************)
(* Small instances of ScrapePipeline, read through the API, for TLC.       *)
(***************************************************************************)
EXTENDS MCScrapePipeline, ReadApi

\* A listing whose price falls and rises, and that may change category.
ThreeDetails == TwoDetails \cup [kind : {"chata"}, price : {1}, hash : {"a"}]

\* The listings are alike, and so are the two processes with their keys.
Swap == (e1 :> e2) @@ (e2 :> e1) @@ (k1 :> k2) @@ (k2 :> k1)

OwnSymmetry == Symmetry \cup {p @@ Swap : p \in Symmetry}

filter(status, kind, min, max) ==
    [status |-> status, kind |-> kind, price_min |-> min, price_max |-> max]

\* A price range, the active of a category, and what the last run changed.
SampleFilters ==
    {filter("all", None, 2, None), filter("active", "chata", None, None),
     filter("new", None, None, None), filter("price_decreased", None, None, 1)}
=============================================================================
