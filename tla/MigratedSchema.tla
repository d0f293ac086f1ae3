--------------------------- MODULE MigratedSchema ---------------------------
(***************************************************************************)
(* alembic/versions/20260811_0001_initial_schema.py: what PostgreSQL holds *)
(* every committed row to - checks, enumerations, unique and foreign keys  *)
(* - for the columns the modules of this project keep.  A violation is an  *)
(* IntegrityError of the transaction that flushes the row.  Times, texts,  *)
(* the width of integers and the indexes are left out.                     *)
(***************************************************************************)
EXTENDS Integers

CONSTANT None       \* SQL NULL, with which a check is not violated

NonNegative(value) == value # None => value >= 0

Within(value, bound) == value # None => value \in -bound..bound

\* listings: price and area checks, and half a coordinate pair is refused.
ListingRow(row) ==
    LET p == row.price  here == row.locality IN
    /\ \A v \in {p.source_price_czk, p.price_czk, p.derived_price_per_sqm_czk,
                 row.usable_area_m2} : NonNegative(v)
    /\ p.price_on_request => p.price_czk = None
    /\ p.source_price_czk = 0 => p.price_on_request /\ p.price_czk = None
    /\ (here.latitude = None) = (here.longitude = None)
    /\ Within(here.latitude, 90) /\ Within(here.longitude, 180)

\* scrape_runs, by logical key: a run succeeds with both categories only.
RunRow(row) ==
    /\ row.status \in {"running", "succeeded", "partial", "failed"}
    /\ row.status = "succeeded" => row.chata_complete /\ row.chalupa_complete
    /\ \A count \in {row.found_count, row.new_count, row.changed_count,
                     row.error_count, row.deactivated_count} : count >= 0

\* listing_distances: one row for a listing, the place it was at and a mode.
DistanceRows(rows) ==
    /\ \A r \in rows : NonNegative(r.minutes)
    /\ \A r, s \in rows :
        r.listing = s.listing /\ r.place = s.place /\ r.mode = s.mode => r = s

\* listing_events: of a run and a listing that exist, each type once.
EventRows(rows, run, listing) ==
    \A x \in rows :
        /\ x.type \in {"created", "price_decreased", "price_increased",
                       "details_changed", "deactivated", "reactivated"}
        /\ run[x.run] # None /\ listing[x.listing] # None

\* listing_images: the position and the columns of the archive.
ImageRow(row, keys, hashes) ==
    /\ row.position >= 0
    /\ row.archive_status \in {"source_only", "pending", "archived", "failed"}
    /\ row.archive_object_key \in keys \cup {None}
    /\ row.content_hash \in hashes \cup {None}

\* listing_observations: one per run and listing, which both exist.
ObservationRows(rows, run, listing) ==
    \A k \in DOMAIN rows : \A l \in DOMAIN rows[k] : rows[k][l] # None =>
        /\ NonNegative(rows[k][l].price)
        /\ run[k] # None /\ listing[l] # None

\* user_listing_data: at most one row per listing.
UserDataRow(row, notes) ==
    row.is_favorite \in BOOLEAN /\ row.private_note \in notes \cup {None}
=============================================================================
