-------------------------- MODULE MCScrapePipeline --------------------------
(***************************************************************************)
(* Small instances of ScrapePipeline for TLC.                              *)
(***************************************************************************)
EXTENDS ScrapePipeline, TLC

CONSTANTS e1, e2, k1, k2, k3, l1, l2

\* Two processes, each with a logical key of its own.
OwnKeys == (e1 :> {k1}) @@ (e2 :> {k2})

\* Both processes may be started with the same logical key.
SharedKeys == (e1 :> {k1, k2}) @@ (e2 :> {k1, k3})

\* A listing whose price falls with its content, and that may change category.
TwoDetails ==
    [kind : {"chata"}, price : {2}, hash : {"a"}]
        \cup [kind : {"chalupa"}, price : {1}, hash : {"b"}]

\* A listing whose price appears and disappears together with its content.
PriceDetails ==
    [kind : {"chata"}, price : {1}, hash : {"a"}]
        \cup [kind : {"chata"}, price : {None}, hash : {"b"}]

Symmetry == Permutations({l1, l2})
=============================================================================
