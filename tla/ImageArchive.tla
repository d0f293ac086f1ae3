---------------------------- MODULE ImageArchive ----------------------------
(***************************************************************************)
(* api/user_listing_service.py and api/user_listings.py: the owner's       *)
(* favourite flag and note of one listing and the archive of its images,   *)
(* with storage/images.py as the object store.  PATCH requests run in      *)
(* threads; each has a session that never expires what it has loaded       *)
(* (db/session.py), so that it compares and writes columns by what it      *)
(* loaded first.  The scraper adds and moves images meanwhile, the source  *)
(* of an image may change, be refused or have no valid URL, and a process  *)
(* may die at any point.                                                   *)
(***************************************************************************)
EXTENDS ObjectStore, Naturals

CONSTANTS
    Images,         \* the images of the listing, by source fingerprint
    ImageId,        \* ImageId[i]: listing_images.id
    Positions,      \* where the source may place an image
    Updates,        \* request bodies: a value or None for each field
    Bitmaps,        \* the contents with the header of a known image format
    MaxPatches      \* bound: PATCH requests in a behaviour; sources change while
                    \* some are still to come

ASSUME OrderAssumption ==
    /\ ImageId \in [Images -> Nat] /\ Positions \subseteq Nat
    /\ \A i, j \in Images : ImageId[i] = ImageId[j] => i = j
ASSUME KeysAssumption == ObjectKeys = Images
ASSUME BitmapsAssumption == Bitmaps \subseteq Contents
ASSUME MaxPatchesAssumption == MaxPatches \in Nat

Statuses == {"source_only", "pending", "archived", "failed"}

\* A row of listing_images and of user_listing_data, as far as they are kept.
ArchiveRow == [position : Positions, archive_status : Statuses,
               archive_object_key : Images \cup {None}, content_hash : Contents \cup {None}]
UserRow    == [is_favorite : BOOLEAN, private_note : {u.private_note : u \in Updates} \cup {None}]

ASSUME UpdatesAssumption ==
    Updates \subseteq [is_favorite : BOOLEAN \cup {None}, private_note : {u.private_note : u \in Updates}]
ASSUME NoneAssumption ==
    None \notin Images \cup ArchiveRow \cup UserRow /\ None \notin {"died", "raised"}

VARIABLES
    user_data,      \* the row of user_listing_data, or None
    image,          \* the listing_images row of each image, or None
    source,         \* what each image's source delivers now
    patch,          \* the locals of each PATCH handler
    patches,        \* how many PATCHes have been sent
    abandoned       \* how the last handler at work on an image ended, if it left
                    \* no mark: it died, or raised an error that nobody catches

archiveVars == <<user_data, image, source, patch, patches, abandoned>>
vars == <<storeVars, archiveVars>>

NewImage(p) == [position |-> p, archive_status |-> "source_only",
                archive_object_key |-> None, content_hash |-> None]

\* Ids are handed out in the order in which images are first seen.
InOrder(row) ==
    \A i, j \in Images : row[i] # None /\ ImageId[j] < ImageId[i] => row[j] # None

Idle == [at |-> "idle", update |-> None, user_data |-> None,
         images |-> [i \in Images |-> None], rest |-> {}]

Init ==
    /\ ObjectsInit
    /\ user_data \in {None} \cup UserRow
    /\ image \in [Images -> {None} \cup {NewImage(p) : p \in Positions}] /\ InOrder(image)
    /\ source \in [Images -> Contents]
    /\ patch = [h \in Writers |-> Idle]
    /\ patches = 0
    /\ abandoned = [i \in Images |-> None]

Goto(h, at) == patch' = [patch EXCEPT ![h].at = at]

\* ORDER BY position, id
First(rest, loaded) ==
    CHOOSE i \in rest : \A j \in rest :
        \/ loaded[i].position < loaded[j].position
        \/ loaded[i].position = loaded[j].position /\ ImageId[i] <= ImageId[j]

\* The image the loop is at, by the positions it began with.
Current(h) == First(patch[h].rest, patch[h].images)

Others(h) == patch[h].rest \ {Current(h)}

AtWork(h) == patch[h].at \in {"fetch", "store", "failed"}

\* Columns that differ from what the session loaded are written, by primary key.
Written(row, loaded, new) ==
    [c \in DOMAIN row |-> IF new[c] # loaded[c] THEN new[c] ELSE row[c]]

-----------------------------------------------------------------------------
(* The environment *)

\* An image that is seen again gets a new row.
ObservedMutant(i, p) == NewImage(p)

Observed(i, p) == IF image[i] = None THEN NewImage(p) ELSE [image[i] EXCEPT !.position = p]

\* _upsert_images: a known image keeps its archive columns and moves, and one that
\* the source shows no longer keeps its row and its position.
Observe(seen, at) ==
    /\ image' = [i \in Images |-> IF i \in seen THEN Observed(i, at[i]) ELSE image[i]]
    /\ InOrder(image')
    /\ UNCHANGED <<storeVars, user_data, source, patch, patches, abandoned>>

ChangeSource(i) ==
    /\ patches < MaxPatches
    /\ \E c \in Contents \ {source[i]} : source' = [source EXCEPT ![i] = c]
    /\ UNCHANGED <<storeVars, user_data, image, patch, patches, abandoned>>

-----------------------------------------------------------------------------
(* update_user_listing *)

Receive(h, update) ==
    /\ patch[h].at = "idle"
    /\ patches < MaxPatches
    /\ patches' = patches + 1
    /\ patch' = [patch EXCEPT ![h] =
                    [Idle EXCEPT !.at = "save", !.update = update, !.user_data = user_data]]
    /\ UNCHANGED <<storeVars, user_data, image, source, abandoned>>

\* The whole row is written, as it was loaded and updated.
SavedMutant(h, new) == new

Saved(h, new) ==
    IF patch[h].user_data = None THEN new
    ELSE Written(user_data, patch[h].user_data, new)

\* INSERT or UPDATE, and COMMIT; of two first INSERTs one violates the primary
\* key, and its request ends with an error.
SaveUserData(h) ==
    LET update == patch[h].update
        loaded == patch[h].user_data
        new    == [is_favorite  |-> IF update.is_favorite # None THEN update.is_favorite
                                    ELSE loaded # None /\ loaded.is_favorite,
                   private_note |-> IF update.private_note # None THEN update.private_note
                                    ELSE IF loaded = None THEN None ELSE loaded.private_note]
    IN
    /\ patch[h].at = "save"
    /\ IF loaded = None /\ user_data # None
       THEN UNCHANGED user_data /\ patch' = [patch EXCEPT ![h] = Idle]
       ELSE /\ user_data' = Saved(h, new)
            /\ patch' = [patch EXCEPT ![h] = IF new.is_favorite
                            THEN [Idle EXCEPT !.at = "select"] ELSE Idle]
    /\ UNCHANGED <<storeVars, image, source, patches, abandoned>>

-----------------------------------------------------------------------------
(* _archive_listing_images *)

SelectImages(h) ==
    /\ patch[h].at = "select"
    /\ patch' = [patch EXCEPT ![h].at = "next", ![h].images = image,
                   ![h].rest = {i \in Images : image[i] # None}]
    /\ UNCHANGED <<storeVars, user_data, image, source, patches, abandoned>>

\* One assignment to the loaded row, and COMMIT.
Update(h, new, at, rest) ==
    LET i == Current(h) IN
    /\ image' = [image EXCEPT ![i] = Written(@, patch[h].images[i], new)]
    /\ patch' = [patch EXCEPT ![h].images[i] = new, ![h].at = at, ![h].rest = rest]
    /\ abandoned' = [abandoned EXCEPT ![i] = IF at = "next" THEN None ELSE @]

Skip(h) ==
    /\ patch[h].at = "next" /\ patch[h].rest # {}
    /\ patch[h].images[Current(h)].archive_status = "archived"
    /\ patch' = [patch EXCEPT ![h].rest = Others(h)]
    /\ UNCHANGED <<storeVars, user_data, image, source, patches, abandoned>>

MarkPending(h) ==
    /\ patch[h].at = "next" /\ patch[h].rest # {}
    /\ LET loaded == patch[h].images[Current(h)] IN
       /\ loaded.archive_status # "archived"
       /\ Update(h, [loaded EXCEPT !.archive_status = "pending"], "fetch", patch[h].rest)
    /\ UNCHANGED <<storeVars, user_data, source, patches>>

\* HttpxImageFetcher.fetch, and the call of the store.
Fetch(h) ==
    /\ patch[h].at = "fetch"
    /\ \/ Store(h, Current(h), source[Current(h)]) /\ Goto(h, "store")
       \/ UNCHANGED call /\ Goto(h, "failed")
    /\ UNCHANGED <<backend, objects, user_data, image, source, patches, abandoned>>

StoreImage(h) ==
    /\ patch[h].at = "store"
    /\ StoreStep(h)
    /\ UNCHANGED archiveVars

\* A conflict in the archive is not caught.
MarkFailedMutant(h) ==
    /\ \/ patch[h].at = "failed" /\ UNCHANGED call
       \/ patch[h].at = "store" /\ call[h].at \in {"conflict", "failed"}
          /\ call' = [call EXCEPT ![h] = NoCall]
    /\ IF call[h].at = "conflict"
       THEN patch' = [patch EXCEPT ![h] = Idle] /\ UNCHANGED <<image, abandoned>>
       ELSE Update(h, [patch[h].images[Current(h)] EXCEPT !.archive_status = "failed"],
                   "next", Others(h))
    /\ UNCHANGED <<backend, objects, user_data, source, patches>>

\* ImageArchiveError, OSError and ValueError are caught.
MarkFailed(h) ==
    /\ \/ patch[h].at = "failed" /\ UNCHANGED call
       \/ patch[h].at = "store" /\ call[h].at \in {"conflict", "failed"}
          /\ call' = [call EXCEPT ![h] = NoCall]
    /\ Update(h, [patch[h].images[Current(h)] EXCEPT !.archive_status = "failed"],
              "next", Others(h))
    /\ UNCHANGED <<backend, objects, user_data, source, patches>>

MarkArchived(h) ==
    /\ patch[h].at = "store" /\ call[h].at = "stored"
    /\ call' = [call EXCEPT ![h] = NoCall]
    /\ Update(h, [patch[h].images[Current(h)] EXCEPT !.archive_status = "archived",
                      !.archive_object_key = call[h].key, !.content_hash = call[h].content],
              "next", Others(h))
    /\ UNCHANGED <<backend, objects, user_data, source, patches>>

\* httpx.InvalidURL, or what the store raised, ends the request.
Raise(h) ==
    /\ \/ patch[h].at = "fetch" /\ UNCHANGED call
       \/ patch[h].at = "store" /\ call[h].at = "raised" /\ call' = [call EXCEPT ![h] = NoCall]
    /\ abandoned' = [abandoned EXCEPT ![Current(h)] = "raised"]
    /\ patch' = [patch EXCEPT ![h] = Idle]
    /\ UNCHANGED <<backend, objects, user_data, image, source, patches>>

Respond(h) ==
    /\ patch[h].at = "next" /\ patch[h].rest = {}
    /\ patch' = [patch EXCEPT ![h] = Idle]
    /\ UNCHANGED <<storeVars, user_data, image, source, patches, abandoned>>

Die(h) ==
    /\ patch[h].at # "idle"
    /\ patch' = [patch EXCEPT ![h] = Idle]
    /\ call' = [call EXCEPT ![h] = NoCall]
    /\ abandoned' = IF AtWork(h) THEN [abandoned EXCEPT ![Current(h)] = "died"] ELSE abandoned
    /\ UNCHANGED <<backend, objects, user_data, image, source, patches>>

Handle(h) ==
    \/ SaveUserData(h) \/ SelectImages(h) \/ Skip(h) \/ MarkPending(h) \/ Fetch(h)
    \/ StoreImage(h) \/ MarkFailed(h) \/ MarkArchived(h) \/ Raise(h) \/ Respond(h)

Next ==
    \/ \E seen \in SUBSET Images : \E at \in [seen -> Positions] : Observe(seen, at)
    \/ \E i \in Images : ChangeSource(i)
    \/ \E h \in Writers : Handle(h) \/ Die(h) \/ \E u \in Updates : Receive(h, u)

Spec == Init /\ [][Next]_vars

-----------------------------------------------------------------------------
(* archived_listing_image *)

\* The rows of a position whose image has an object: their status is not looked at.
ArchivedAt(p) ==
    {i \in Images : image[i] # None /\ image[i].position = p /\ image[i].archive_object_key # None}

\* The last row of the position answers.
AnsweringMutant(p) ==
    CHOOSE i \in ArchivedAt(p) : \A j \in ArchivedAt(p) : ImageId[j] <= ImageId[i]

\* ORDER BY id LIMIT 1
Answering(p) ==
    CHOOSE i \in ArchivedAt(p) : \A j \in ArchivedAt(p) : ImageId[i] <= ImageId[j]

\* What can be loaded of an object: a bitmap.
Loaded(key) == IF objects[key] \in Bitmaps THEN objects[key] ELSE None

Served(p) ==
    IF ArchivedAt(p) = {} THEN None ELSE Loaded(image[Answering(p)].archive_object_key)

-----------------------------------------------------------------------------
(* Properties *)

Schema == INSTANCE MigratedSchema

\* The store keeps its types, and the rows that handlers flush by what they
\* loaded earlier meet the migrated schema.
ArchiveTypeOK ==
    /\ StoreTypeOK
    /\ user_data # None =>
            Schema!UserDataRow(user_data, {u.private_note : u \in Updates})
    /\ \A i \in Images : image[i] # None => Schema!ImageRow(image[i], Images, Contents)
    /\ source \in [Images -> Contents] /\ patches \in 0..MaxPatches
    /\ abandoned \in [Images -> {None, "died", "raised"}]

\* Columns written by different handlers at different times still fit together:
\* an archived image has an object, and a row that names an object has the hash
\* of what that object holds, although the source changed between two downloads.
RowsMatchObjects ==
    \A i \in Images : image[i] # None =>
        /\ image[i].archive_status = "archived" => image[i].archive_object_key = i
        /\ image[i].archive_object_key # None =>
              objects[i] # None /\ objects[i] = image[i].content_hash

\* Once an image has been archived, its row leads to the same picture for good: no
\* PATCH, retry, failure or new observation takes it away, also when a racing
\* handler sets the status back to pending or failed.
ArchivedForGood ==
    [][\A i \in Images : image[i] # None /\ image[i].archive_object_key # None =>
            /\ image'[i].archive_object_key = image[i].archive_object_key
            /\ Loaded(image[i].archive_object_key)' = Loaded(image[i].archive_object_key)]_vars

\* The picture under a position, which the owner's page asks for, is another one
\* or none only when an observation has moved its image away, or when a row of a
\* lower id is at that position too (positions are not unique).
ServedUntilMoved ==
    [][\A p \in Positions : Served(p) # None /\ Served(p)' # Served(p) =>
            \/ image'[Answering(p)].position # p
            \/ \E i \in Images : /\ ImageId[i] < ImageId[Answering(p)]
                                 /\ image'[i] # None /\ image'[i].position = p]_vars

InHand(i) == \E h \in Writers : AtWork(h) /\ Current(h) = i

\* What the documentation says: an error of a single image is left as failed.
FailuresAreMarked ==
    \A i \in Images : image[i] # None /\ image[i].archive_status = "pending" =>
        InHand(i) \/ abandoned[i] = "died"

\* A pending image is being worked on, or the last who did died or raised one of
\* the errors that nobody catches: every failure that is caught leaves a mark, in
\* whatever order racing handlers mark, fail and finish.
PendingHasAnOwner ==
    \A i \in Images : image[i] # None /\ image[i].archive_status = "pending" =>
        InHand(i) \/ abandoned[i] # None

\* A PATCH changes the field it names and no other, whatever a concurrent PATCH
\* has written since it loaded the row (model_fields_set).
FieldsKeepApart ==
    [][user_data # None /\ user_data' # user_data =>
        \E h \in Writers : patch[h].at = "save" /\
            \A f \in DOMAIN user_data :
                user_data'[f] # user_data[f] =>
                    patch[h].update[f] # None /\ user_data'[f] = patch[h].update[f]]_vars
=============================================================================
