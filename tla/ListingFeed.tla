---------------------------- MODULE ListingFeed ----------------------------
(***************************************************************************)
(* What the pipeline is promised by the listing source of one category     *)
(* (scraper/source.py, ListingSource): a feed of listings, none of them    *)
(* twice, that ends once, either complete or with an error, and yields     *)
(* nothing after that.  SearchTraversal implements it; the Fetch action of *)
(* ScrapePipeline relies on it.                                            *)
(***************************************************************************)
EXTENDS Naturals, Sequences

CONSTANT FeedIds    \* the listings that may be offered

VARIABLES
    feed,       \* ids of the listings yielded so far, in order
    outcome     \* "open", "complete" or "failed"

feedVars == <<feed, outcome>>

FeedInit == feed = <<>> /\ outcome = "open"

Yield(id) ==
    /\ outcome = "open"
    /\ \A i \in 1..Len(feed) : feed[i] # id
    /\ feed' = Append(feed, id)
    /\ UNCHANGED outcome

End ==
    /\ outcome = "open"
    /\ outcome' \in {"complete", "failed"}
    /\ UNCHANGED feed

FeedNext == End \/ \E id \in FeedIds : Yield(id)

FeedSpec == FeedInit /\ [][FeedNext]_feedVars
=============================================================================
