---------------------------- MODULE ObjectStore ----------------------------
(***************************************************************************)
(* storage/raw.py and storage/images.py: the two immutable object stores.  *)
(* Both keep one object per key and accept the same content again.  The    *)
(* local backend writes a temporary file and links it to its name; the     *)
(* other uploads to Google Cloud Storage under the precondition that the   *)
(* object does not exist.  Writers work at the same time and may die       *)
(* between any two of these steps.  serialize_payload and the digests are  *)
(* deterministic and injective: a content stands for its bytes.            *)
(***************************************************************************)
CONSTANTS
    None,
    Writers,        \* threads or processes that store objects
    ObjectKeys,     \* raw_object_key, image_archive_key
    Contents,       \* what may be stored
    Partial         \* a file that is not written to its end

ASSUME ContentsAssumption == {None, Partial} \cap Contents = {}

VARIABLES
    backend,        \* "local" or "gcs", as configured
    objects,        \* what each key holds, or None
    call            \* the store call of each writer

storeVars == <<backend, objects, call>>

Controls == {"idle", "look", "write", "link", "upload", "compare",
             "stored", "conflict", "failed", "raised"}

NoCall == [at |-> "idle", key |-> None, content |-> None]

ObjectsInit ==
    /\ backend \in {"local", "gcs"}
    /\ objects = [k \in ObjectKeys |-> None]
    /\ call = [w \in Writers |-> NoCall]

Move(w, at) == call' = [call EXCEPT ![w].at = at]

Held(w) == objects[call[w].key]

Put(w) == objects' = [objects EXCEPT ![call[w].key] = call[w].content]

\* store_json, store
Store(w, k, c) ==
    call' = [call EXCEPT ![w] = [at |-> IF backend = "local" THEN "look" ELSE "upload",
                                 key |-> k, content |-> c]]

\* target.exists()
Look(w) ==
    /\ call[w].at = "look"
    /\ Move(w, IF Held(w) = None THEN "write" ELSE "compare")
    /\ UNCHANGED <<backend, objects>>

\* The object is written in place.
WriteTemporaryMutant(w) ==
    /\ call[w].at = "write"
    /\ objects' = [objects EXCEPT ![call[w].key] = Partial]
    /\ Move(w, "link")
    /\ UNCHANGED backend

\* The temporary file is complete and on disk, under a name nobody else uses.
WriteTemporary(w) ==
    /\ call[w].at = "write"
    /\ Move(w, "link")
    /\ UNCHANGED <<backend, objects>>

\* The temporary file replaces what is there.
LinkMutant(w) ==
    /\ call[w].at = "link"
    /\ Put(w) /\ Move(w, "stored")
    /\ UNCHANGED backend

\* os.link fails if the name exists; the temporary file is removed either way,
\* unless that fails.
Link(w) ==
    /\ call[w].at = "link"
    /\ IF Held(w) = None
       THEN Put(w) /\ (Move(w, "stored") \/ Move(w, "failed"))
       ELSE Move(w, "compare") /\ UNCHANGED objects
    /\ UNCHANGED backend

\* if_generation_match = 0; the answer may be lost, and with it whether the
\* object was stored.
Upload(w) ==
    /\ call[w].at = "upload"
    /\ \/ Held(w) = None /\ Put(w) /\ \E at \in {"stored", "failed", "raised"} : Move(w, at)
       \/ Held(w) # None /\ Move(w, "compare") /\ UNCHANGED objects
    /\ UNCHANGED backend

\* _verify_existing
Compare(w) ==
    /\ call[w].at = "compare"
    /\ Move(w, IF Held(w) = call[w].content THEN "stored" ELSE "conflict")
    /\ UNCHANGED <<backend, objects>>

\* A step fails: with an OSError or as an ImageArchiveError, or, in the cloud,
\* with an error that no handler catches - a GoogleAPICallError while the object
\* is read back, anything else but an OSError during the upload.
Break(w) ==
    /\ call[w].at \in {"look", "write", "link", "upload", "compare"}
    /\ Move(w, "failed") \/ (backend = "gcs" /\ Move(w, "raised"))
    /\ UNCHANGED <<backend, objects>>

StoreStep(w) ==
    Look(w) \/ WriteTemporary(w) \/ Link(w) \/ Upload(w) \/ Compare(w) \/ Break(w)

-----------------------------------------------------------------------------
(* Properties *)

StoreTypeOK ==
    /\ backend \in {"local", "gcs"}
    /\ objects \in [ObjectKeys -> Contents \cup {None}]
    /\ call \in [Writers -> [at : Controls, key : ObjectKeys \cup {None},
                             content : Contents \cup {None}]]

WriteOnce == INSTANCE WriteOnceStore WITH
    Empty <- None, StoreKeys <- ObjectKeys, StoreContents <- Contents, stored <- objects

\* Whoever races for a key and whoever dies on the way, nobody ever sees an
\* object change, vanish or stop half-written, on either backend.
ImplementsWriteOnce == WriteOnce!StoreSpec
=============================================================================
