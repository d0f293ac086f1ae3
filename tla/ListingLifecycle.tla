-------------------------- MODULE ListingLifecycle --------------------------
(***************************************************************************)
(* What the scraper promises about the life of a listing, without runs,    *)
(* processes, transactions or locks: a listing appears once, is withdrawn  *)
(* only while it is active, returns only while it is withdrawn, and each   *)
(* withdrawal and each return is counted exactly once.                     *)
(***************************************************************************)
EXTENDS Integers

CONSTANT Listings

VARIABLES
    phase,       \* where each listing is in its life
    withdrawn,   \* how often it was withdrawn
    returned     \* how often it came back

lifecycle == <<phase, withdrawn, returned>>

Init ==
    /\ phase = [l \in Listings |-> "unseen"]
    /\ withdrawn = [l \in Listings |-> 0]
    /\ returned = [l \in Listings |-> 0]

\* A run finds the listing on the site.
Observe(l) ==
    /\ phase' = [phase EXCEPT ![l] = "active"]
    /\ returned' = [returned EXCEPT ![l] = IF phase[l] = "inactive" THEN @ + 1 ELSE @]
    /\ UNCHANGED withdrawn

\* A complete run did not find these active listings.
Withdraw(gone) ==
    /\ \A l \in gone : phase[l] = "active"
    /\ phase' = [l \in Listings |-> IF l \in gone THEN "inactive" ELSE phase[l]]
    /\ withdrawn' = [l \in Listings |-> IF l \in gone THEN withdrawn[l] + 1 ELSE withdrawn[l]]
    /\ UNCHANGED returned

Next ==
    \/ \E l \in Listings : Observe(l)
    \/ \E gone \in SUBSET Listings : Withdraw(gone)

Spec == Init /\ [][Next]_lifecycle

TypeOK ==
    /\ phase \in [Listings -> {"unseen", "active", "inactive"}]
    /\ withdrawn \in [Listings -> Nat]
    /\ returned \in [Listings -> Nat]

\* A listing is inactive exactly when it was withdrawn once more than it
\* returned: no withdrawal is counted twice and none is lost.
Balanced ==
    \A l \in Listings :
        withdrawn[l] = returned[l] + (IF phase[l] = "inactive" THEN 1 ELSE 0)
=============================================================================
