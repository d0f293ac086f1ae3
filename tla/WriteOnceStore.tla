--------------------------- MODULE WriteOnceStore ---------------------------
(***************************************************************************)
(* What the raw store and the image archive promise their callers          *)
(* (storage/raw.py, storage/images.py): a key is given its content at most *)
(* once, in one step, and keeps it.                                        *)
(***************************************************************************)
CONSTANTS Empty, StoreKeys, StoreContents

VARIABLE stored     \* the content of each key, or Empty

StoreInit == stored = [k \in StoreKeys |-> Empty]

Put(k, c) == stored[k] = Empty /\ stored' = [stored EXCEPT ![k] = c]

StoreNext == \E k \in StoreKeys, c \in StoreContents : Put(k, c)

StoreSpec == StoreInit /\ [][StoreNext]_stored
=============================================================================
