---------------------------- MODULE ListingEvents ----------------------------
(***************************************************************************)
(* The pure lifecycle rules of domain/events.py: which events one          *)
(* observation of a listing causes, given the row the database held before *)
(* it, and which event a deactivation causes.  The code returns ordered    *)
(* drafts; nothing downstream reads their order, so a set of event types   *)
(* stands for the tuple.                                                   *)
(***************************************************************************)
EXTENDS Integers

CONSTANTS
    None,      \* the code's None and SQL NULL
    Hashes,    \* detail hashes: everything a detail says except its price
    Details    \* the listing details the parser may hand to the pipeline

Kinds == {"chata", "chalupa"}

Price == Nat \cup {None}

\* A parsed detail and a row of the listings table.
Detail  == [kind : Kinds, price : Price, hash : Hashes]
Listing == [kind : Kinds, price : Price, hash : Hashes, active : BOOLEAN]

ASSUME DetailsAssumption == Details \subseteq Detail
ASSUME NoneAssumption == None \notin Nat \cup Detail \cup Listing

EventTypes == {"created", "price_decreased", "price_increased",
               "details_changed", "deactivated", "reactivated"}

\* The events run.changed_count counts a listing for.
ChangeTypes == {"price_decreased", "price_increased", "details_changed", "reactivated"}

Priced(previous, current) == previous.price # None /\ current.price # None

\* The state a listing row has after it was observed with detail d.
Observed(d) == [kind |-> d.kind, price |-> d.price, hash |-> d.hash, active |-> TRUE]

\* A price that stayed the same is told as a decrease.
ObservationEventsMutant(previous, current) ==
    IF previous = None
    THEN {"created"}
    ELSE {t \in EventTypes :
            \/ t = "reactivated" /\ ~previous.active
            \/ t = "price_decreased" /\ Priced(previous, current)
                                     /\ current.price <= previous.price
            \/ t = "price_increased" /\ Priced(previous, current)
                                     /\ current.price > previous.price
            \/ t = "details_changed" /\ previous.hash # current.hash}

ObservationEvents(previous, current) ==
    IF previous = None
    THEN {"created"}
    ELSE {t \in EventTypes :
            \/ t = "reactivated" /\ ~previous.active
            \/ t = "price_decreased" /\ Priced(previous, current)
                                     /\ current.price < previous.price
            \/ t = "price_increased" /\ Priced(previous, current)
                                     /\ current.price > previous.price
            \/ t = "details_changed" /\ previous.hash # current.hash}
=============================================================================
