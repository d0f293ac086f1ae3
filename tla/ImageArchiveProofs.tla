------------------------- MODULE ImageArchiveProofs -------------------------
(***************************************************************************)
(* Theorems about ImageArchive for every set of images, handlers, contents *)
(* and request bodies: its object store is write-once, the rows match the  *)
(* objects, an archived image stays and is served until it moves, fields   *)
(* keep apart, and a pending image is somebody's work.                     *)
(***************************************************************************)
EXTENDS ImageArchive, WellFoundedInduction, TLAPS

-----------------------------------------------------------------------------
(* Types, and what the control of a handler says about its locals *)

Handler == [at : {"idle", "save", "select", "next", "fetch", "store", "failed"},
            update : Updates \cup {None}, user_data : UserRow \cup {None},
            images : [Images -> ArchiveRow \cup {None}], rest : SUBSET Images]

TypeInv ==
    /\ StoreTypeOK
    /\ user_data \in UserRow \cup {None}
    /\ image \in [Images -> ArchiveRow \cup {None}]
    /\ source \in [Images -> Contents]
    /\ patch \in [Writers -> Handler]
    /\ patches \in 0..MaxPatches /\ abandoned \in [Images -> {None, "died", "raised"}]

\* A handler at work on an image has loaded it, and its store call is for it; a
\* call that succeeded has found, or put, its content under its key.
Controlled(h) ==
    /\ patch[h].at \in {"fetch", "store", "failed"} => patch[h].rest # {}
    /\ patch[h].at = "save" => patch[h].update \in Updates
    /\ \A i \in patch[h].rest : patch[h].images[i] # None
    /\ patch[h].at = "store" => call[h].key = Current(h) /\ call[h].content \in Contents
    /\ patch[h].at = "store" /\ call[h].at = "stored" => objects[call[h].key] = call[h].content

\* The archive columns of a row of image i fit together and to the object.
Fits(r, i) ==
    /\ r.archive_status = "archived" => r.archive_object_key = i
    /\ r.archive_object_key \in {None, i}
    /\ r.archive_object_key = None <=> r.content_hash = None
    /\ r.archive_object_key # None => objects[i] # None /\ objects[i] = r.content_hash

\* Every copy of a row, in the table or loaded by a handler however long ago,
\* fits, and a key that somebody loaded is still in the table.
RowsInv == \A i \in Images : image[i] # None => Fits(image[i], i)

LoadedInv(h) ==
    \A i \in Images : patch[h].images[i] # None =>
        /\ Fits(patch[h].images[i], i)
        /\ image[i] # None
        /\ patch[h].images[i].archive_object_key # None => image[i].archive_object_key # None

UserDataInv(h) == patch[h].user_data # None => user_data # None

ArchiveInv ==
    /\ TypeInv
    /\ RowsInv
    /\ \A h \in Writers : Controlled(h) /\ LoadedInv(h) /\ UserDataInv(h)

\* A set of numbers has a least one.
LEMMA LeastOf ==
  ASSUME NEW T \in SUBSET Nat, T # {}
  PROVE  \E n \in T : \A m \in T : n <= m
<1> DEFINE Less == {ss \in Nat \X Nat : ss[1] < ss[2]}
<1>1. IsWellFoundedOn(Less, Nat)
  BY NatLessThanWellFounded DEF OpToRel
<1>2. \A a, b \in Nat : a < b => <<a, b>> \in Less
  OBVIOUS
<1> HIDE DEF Less
<1>3. PICK n \in T : \A m \in T : ~ (<<m, n>> \in Less)
  BY <1>1, WFMin
<1>4. \A m \in T : ~ (m < n)
  BY <1>2, <1>3
<1>5. QED
  BY <1>4

\* Of some images one has the least id, and of some rows one is the first.
LEMMA LeastId ==
  ASSUME NEW S \in SUBSET Images, S # {}
  PROVE  \E i \in S : \A j \in S : ImageId[i] <= ImageId[j]
<1> DEFINE T == {ImageId[i] : i \in S}
<1>1. T \in SUBSET Nat /\ T # {}
  BY OrderAssumption
<1> HIDE DEF T
<1>2. PICK n \in T : \A m \in T : n <= m
  BY <1>1, LeastOf
<1>3. QED
  BY <1>2 DEF T

LEMMA FirstIsLeft ==
  ASSUME NEW rest \in SUBSET Images, rest # {}, NEW loaded,
         \A i \in rest : loaded[i].position \in Nat
  PROVE  /\ First(rest, loaded) \in rest
         /\ \A j \in rest :
               \/ loaded[First(rest, loaded)].position < loaded[j].position
               \/ /\ loaded[First(rest, loaded)].position = loaded[j].position
                  /\ ImageId[First(rest, loaded)] <= ImageId[j]
<1> DEFINE T == {loaded[i].position : i \in rest}
<1>1. T \in SUBSET Nat /\ T # {}
  OBVIOUS
<1> HIDE DEF T
<1>2. PICK n \in T : \A m \in T : n <= m
  BY <1>1, LeastOf
<1> DEFINE S == {i \in rest : loaded[i].position = n}
<1>3. S \in SUBSET Images /\ S # {}
  BY <1>2 DEF T
<1> HIDE DEF S
<1>4. PICK i \in S : \A j \in S : ImageId[i] <= ImageId[j]
  BY <1>3, LeastId
<1>5. i \in rest /\ loaded[i].position = n
  BY <1>4 DEF S
<1>6. ASSUME NEW j \in rest
      PROVE  \/ loaded[i].position < loaded[j].position
             \/ loaded[i].position = loaded[j].position /\ ImageId[i] <= ImageId[j]
  <2>1. n <= loaded[j].position /\ n \in Nat /\ loaded[j].position \in Nat
    BY <1>1, <1>2, <1>6 DEF T
  <2>2. CASE loaded[j].position = n
    BY <1>4, <1>5, <2>2 DEF S
  <2>3. CASE loaded[j].position # n
    BY <1>5, <2>1, <2>3
  <2>4. QED
    BY <2>2, <2>3
<1>7. QED
  BY <1>5, <1>6 DEF First

\* The first row is the first by its position and id alone.
LEMMA FirstByPosition ==
  ASSUME NEW rest \in SUBSET Images, rest # {}, NEW a, NEW b,
         \A i \in rest : a[i].position \in Nat /\ b[i].position = a[i].position
  PROVE  First(rest, b) = First(rest, a)
<1> DEFINE i == First(rest, a)
           j == First(rest, b)
<1>1. /\ i \in rest
      /\ \A k \in rest : \/ a[i].position < a[k].position
                         \/ a[i].position = a[k].position /\ ImageId[i] <= ImageId[k]
  BY FirstIsLeft
<1>2. /\ j \in rest
      /\ \A k \in rest : \/ b[j].position < b[k].position
                         \/ b[j].position = b[k].position /\ ImageId[j] <= ImageId[k]
  <2>1. \A k \in rest : b[k].position \in Nat
    OBVIOUS
  <2>2. QED
    BY <2>1, FirstIsLeft
<1> HIDE DEF i, j
<1>3. /\ a[i].position \in Nat /\ a[j].position \in Nat
      /\ b[i].position = a[i].position /\ b[j].position = a[j].position
      /\ ImageId[i] \in Nat /\ ImageId[j] \in Nat
  BY <1>1, <1>2, OrderAssumption
<1>4. ImageId[i] = ImageId[j]
  BY <1>1, <1>2, <1>3
<1>5. QED
  BY <1>1, <1>2, <1>4, OrderAssumption DEF i, j

\* The image a handler is at is one of those left.
LEMMA CurrentIsLeft ==
  ASSUME ArchiveInv, NEW h \in Writers, patch[h].rest # {}
  PROVE  Current(h) \in patch[h].rest /\ patch[h].rest \in SUBSET Images
<1>1. patch[h] \in Handler /\ \A i \in patch[h].rest : patch[h].images[i] # None
  BY DEF ArchiveInv, TypeInv, Controlled
<1>2. patch[h].rest \in SUBSET Images
  BY <1>1 DEF Handler
<1>3. ASSUME NEW i \in patch[h].rest
      PROVE  patch[h].images[i].position \in Nat
  BY <1>1, <1>2, <1>3, OrderAssumption DEF Handler, ArchiveRow
<1>4. QED
  BY <1>2, <1>3, FirstIsLeft DEF Current

-----------------------------------------------------------------------------
(* The store *)

\* One step of a store call: it puts its content under its free key, or leaves
\* the objects alone, and is "stored" only when the key holds its content.
LEMMA StoreStepPuts ==
  ASSUME StoreTypeOK, NEW h \in Writers, StoreStep(h),
         call[h].key \in ObjectKeys, call[h].content \in Contents,
         call[h].at = "stored" => objects[call[h].key] = call[h].content
  PROVE  /\ StoreTypeOK'
         /\ \/ objects' = objects
            \/ /\ objects[call[h].key] = None
               /\ objects' = [objects EXCEPT ![call[h].key] = call[h].content]
         /\ \A g \in Writers : g # h => call'[g] = call[g]
         /\ call'[h].key = call[h].key /\ call'[h].content = call[h].content
         /\ call'[h].at = "stored" => objects'[call[h].key] = call[h].content
<1> USE DEF StoreTypeOK, Controls
<1>1. CASE Look(h) \/ WriteTemporary(h) \/ Compare(h) \/ Break(h)
  BY <1>1 DEF Look, WriteTemporary, Compare, Break, Move, Held
<1>2. CASE Link(h)
  BY <1>2 DEF Link, Move, Held, Put
<1>3. CASE Upload(h)
  BY <1>3 DEF Upload, Move, Held, Put
<1>4. QED
  BY <1>1, <1>2, <1>3 DEF StoreStep

\* What a key holds, it keeps.
Keeps == \A k \in ObjectKeys : objects[k] # None => objects'[k] = objects[k]

-----------------------------------------------------------------------------
(* The invariant *)

LEMMA InitArchive == Init => ArchiveInv
<1> SUFFICES ASSUME Init PROVE ArchiveInv
  OBVIOUS
<1>1. \A p \in Positions : NewImage(p) \in ArchiveRow
  BY DEF NewImage, ArchiveRow, Statuses
<1>2. Idle \in Handler
  BY DEF Idle, Handler
<1>3. StoreTypeOK
  BY DEF Init, ObjectsInit, StoreTypeOK, NoCall, Controls
<1>4. TypeInv
  BY <1>1, <1>2, <1>3, MaxPatchesAssumption DEF Init, TypeInv
<1>5. RowsInv
  BY DEF Init, RowsInv, Fits, NewImage
<1>6. ASSUME NEW h \in Writers
      PROVE  Controlled(h) /\ LoadedInv(h) /\ UserDataInv(h)
  BY DEF Init, Idle, Controlled, LoadedInv, UserDataInv
<1>7. QED
  BY <1>4, <1>5, <1>6 DEF ArchiveInv

\* A step of handler h that writes no row of an image keeps the rows, and what
\* holds of the other handlers.
LEMMA OthersStay ==
  ASSUME ArchiveInv, TypeInv', Keeps, image' = image,
         user_data # None => user_data' # None, NEW h,
         \A g \in Writers : g # h => patch'[g] = patch[g] /\ call'[g] = call[g]
  PROVE  /\ RowsInv'
         /\ \A g \in Writers : g # h => Controlled(g)' /\ LoadedInv(g)' /\ UserDataInv(g)'
<1> USE DEF ArchiveInv, TypeInv
<1>1. RowsInv'
  BY KeysAssumption DEF RowsInv, Fits, Keeps
<1>2. ASSUME NEW g \in Writers, g # h
      PROVE  Controlled(g)' /\ LoadedInv(g)' /\ UserDataInv(g)'
  <2>1. patch'[g] = patch[g] /\ call'[g] = call[g] /\ patch[g] \in Handler
    BY <1>2
  <2>2. Controlled(g)'
    <3>1. Current(g)' = Current(g)
      BY <2>1 DEF Current
    <3>2. CASE patch[g].at = "store" /\ call[g].at = "stored"
      <4>1. call[g].key \in ObjectKeys
        <5>1. call[g].key = Current(g) /\ patch[g].rest # {}
          BY <1>2, <3>2 DEF Controlled
        <5>2. QED
          BY <1>2, <2>1, <5>1, CurrentIsLeft, KeysAssumption DEF Handler
      <4>2. objects[call[g].key] # None
        BY <1>2, <3>2, ContentsAssumption DEF Controlled
      <4>3. objects'[call[g].key] = objects[call[g].key]
        BY <4>1, <4>2 DEF Keeps
      <4>4. QED
        BY <1>2, <2>1, <3>1, <4>3 DEF Controlled
    <3>3. CASE ~ (patch[g].at = "store" /\ call[g].at = "stored")
      BY <1>2, <2>1, <3>1, <3>3 DEF Controlled
    <3>4. QED
      BY <3>2, <3>3
  <2>3. LoadedInv(g)'
    BY <1>2, <2>1, KeysAssumption DEF LoadedInv, Fits, Keeps
  <2>4. UserDataInv(g)'
    BY <1>2, <2>1 DEF UserDataInv
  <2>5. QED
    BY <2>2, <2>3, <2>4
<1>3. QED
  BY <1>1, <1>2

\* A row to which a handler writes the columns it changed in its older copy
\* fits, whatever others have written since.
LEMMA WrittenFits ==
  ASSUME NEW i \in Images, NEW row \in ArchiveRow, NEW loaded \in ArchiveRow,
         NEW new \in ArchiveRow, Fits(row, i), Fits(loaded, i), Fits(new, i),
         loaded.archive_object_key # None => row.archive_object_key # None,
         loaded.archive_object_key # None => new.archive_object_key # None
  PROVE  LET written == Written(row, loaded, new) IN
         /\ written \in ArchiveRow /\ Fits(written, i)
         /\ row.archive_object_key # None => written.archive_object_key # None
         /\ new.archive_object_key # None => written.archive_object_key # None
<1> DEFINE w == Written(row, loaded, new)
<1>1. w = [position |-> IF new.position # loaded.position
                        THEN new.position ELSE row.position,
           archive_status |-> IF new.archive_status # loaded.archive_status
                              THEN new.archive_status ELSE row.archive_status,
           archive_object_key |-> IF new.archive_object_key # loaded.archive_object_key
                                  THEN new.archive_object_key ELSE row.archive_object_key,
           content_hash |-> IF new.content_hash # loaded.content_hash
                            THEN new.content_hash ELSE row.content_hash]
  BY DEF Written, ArchiveRow
<1>2. w \in ArchiveRow
  BY <1>1 DEF ArchiveRow
<1> HIDE DEF w
<1>3. Fits(w, i)
  BY <1>1, NoneAssumption DEF Fits
<1>4. /\ row.archive_object_key # None => w.archive_object_key # None
      /\ new.archive_object_key # None => w.archive_object_key # None
  BY <1>1, NoneAssumption DEF Fits
<1>5. QED
  BY <1>2, <1>3, <1>4 DEF w

\* A row stays, and so does the key it names.
RowsStay ==
    \A i \in Images : image[i] # None =>
        /\ image'[i] # None
        /\ image[i].archive_object_key # None => image'[i].archive_object_key # None

\* A commit of the archiving loop.
LEMMA UpdateStep ==
  ASSUME ArchiveInv, NEW h \in Writers, patch[h].at \in {"next", "fetch", "store", "failed"},
         patch[h].rest # {}, NEW new \in ArchiveRow, Fits(new, Current(h)),
         patch[h].images[Current(h)].archive_object_key # None
            => new.archive_object_key # None,
         NEW at \in {"next", "fetch"}, NEW rest \in SUBSET patch[h].rest,
         at = "fetch" => rest # {}, Update(h, new, at, rest),
         UNCHANGED <<backend, objects, user_data, source, patches>>,
         call' = call \/ call' = [call EXCEPT ![h] = NoCall]
  PROVE  ArchiveInv' /\ RowsStay
<1> USE DEF ArchiveInv
<1> DEFINE i == Current(h)
           loaded == patch[h].images[i]
           written == Written(image[i], loaded, new)
<1>1. /\ i \in Images /\ patch[h] \in Handler
      /\ loaded # None /\ loaded \in ArchiveRow /\ image[i] # None /\ image[i] \in ArchiveRow
  <2>1. patch[h] \in Handler /\ patch[h].rest \subseteq Images
    BY DEF TypeInv, Handler
  <2>2. i \in patch[h].rest
    BY CurrentIsLeft
  <2>3. QED
    BY <2>1, <2>2 DEF TypeInv, Handler, Controlled, LoadedInv
<1>2. /\ written \in ArchiveRow /\ Fits(written, i)
      /\ image[i].archive_object_key # None => written.archive_object_key # None
      /\ new.archive_object_key # None => written.archive_object_key # None
  <2>1. /\ Fits(image[i], i) /\ Fits(loaded, i)
        /\ loaded.archive_object_key # None => image[i].archive_object_key # None
    BY <1>1 DEF RowsInv, LoadedInv
  <2>2. QED
    BY <1>1, <2>1, WrittenFits
<1>3. /\ image' = [image EXCEPT ![i] = written]
      /\ patch' = [patch EXCEPT ![h] = [patch[h] EXCEPT !.images = [@ EXCEPT ![i] = new],
                                                       !.at = at, !.rest = rest]]
      /\ abandoned' \in [Images -> {None, "died", "raised"}]
  BY <1>1 DEF Update, TypeInv
<1> HIDE DEF i, loaded, written
<1>4. TypeInv'
  <2>1. image' \in [Images -> ArchiveRow \cup {None}]
    BY <1>1, <1>2, <1>3 DEF TypeInv
  <2>2. patch' \in [Writers -> Handler]
    BY <1>1, <1>3 DEF TypeInv, Handler
  <2>3. StoreTypeOK'
    BY DEF TypeInv, StoreTypeOK, NoCall, Controls
  <2>4. QED
    BY <1>3, <2>1, <2>2, <2>3 DEF TypeInv
<1>5. RowsInv'
  BY <1>1, <1>2, <1>3, NoneAssumption DEF TypeInv, RowsInv, Fits
<1>6. \A g \in Writers : g # h => patch'[g] = patch[g] /\ call'[g] = call[g]
  BY <1>3 DEF TypeInv, StoreTypeOK
<1>7. RowsStay
  BY <1>1, <1>2, <1>3, NoneAssumption DEF TypeInv, RowsStay
<1>8. ASSUME NEW g \in Writers, g # h
      PROVE  Controlled(g)' /\ LoadedInv(g)' /\ UserDataInv(g)'
  <2>1. Controlled(g)'
    BY <1>6, <1>8 DEF Controlled, Current
  <2>2. LoadedInv(g)'
    BY <1>6, <1>7, <1>8 DEF LoadedInv, Fits, RowsStay
  <2>3. UserDataInv(g)'
    BY <1>6, <1>8 DEF UserDataInv
  <2>4. QED
    BY <2>1, <2>2, <2>3
<1>9. Controlled(h)'
  <2>1. /\ patch'[h].at = at /\ patch'[h].rest = rest
        /\ patch'[h].images = [patch[h].images EXCEPT ![i] = new]
    BY <1>1, <1>3 DEF TypeInv, Handler
  <2>2. \A j \in rest : patch'[h].images[j] # None
    BY <1>1, <2>1, NoneAssumption DEF Controlled, Handler
  <2>3. QED
    BY <2>1, <2>2 DEF Controlled
<1>10. LoadedInv(h)'
  <2>1. ASSUME NEW j \in Images, patch'[h].images[j] # None
        PROVE  /\ Fits(patch[h].images[j], j)' /\ image'[j] # None
               /\ patch'[h].images[j].archive_object_key # None
                    => image'[j].archive_object_key # None
    <3>1. CASE j = i
      <4>1. patch'[h].images[j] = new /\ image'[j] = written
        BY <1>1, <1>3, <3>1 DEF TypeInv, Handler
      <4>2. Fits(new, i) /\ objects' = objects
        BY DEF i
      <4>3. QED
        BY <1>2, <3>1, <4>1, <4>2, NoneAssumption DEF Fits
    <3>2. CASE j # i
      <4>1. patch'[h].images[j] = patch[h].images[j] /\ image'[j] = image[j]
        BY <1>1, <1>3, <3>2 DEF TypeInv, Handler
      <4>2. QED
        BY <2>1, <4>1 DEF LoadedInv, Fits
    <3>3. QED
      BY <3>1, <3>2
  <2>2. QED
    BY <2>1 DEF LoadedInv
<1>11. UserDataInv(h)'
  BY <1>1, <1>3 DEF UserDataInv, TypeInv, Handler
<1>12. QED
  BY <1>4, <1>5, <1>7, <1>8, <1>9, <1>10, <1>11

\* A step that changes the locals of one handler at most, besides its store call,
\* the objects and the owner's data.
LEMMA LocalStep ==
  ASSUME ArchiveInv, TypeInv', Keeps, image' = image,
         user_data # None => user_data' # None, NEW h \in Writers,
         NEW new \in Handler, patch' = [patch EXCEPT ![h] = new],
         \A g \in Writers : g # h => call'[g] = call[g],
         Controlled(h)', new.images = patch[h].images \/ new.images = image
                                                   \/ new.images = Idle.images,
         new.user_data \in {None, patch[h].user_data, user_data}
  PROVE  ArchiveInv'
<1> USE DEF ArchiveInv
<1>1. patch'[h] = new /\ \A g \in Writers : g # h => patch'[g] = patch[g]
  BY DEF TypeInv
<1>2. /\ RowsInv'
      /\ \A g \in Writers : g # h => Controlled(g)' /\ LoadedInv(g)' /\ UserDataInv(g)'
  BY <1>1, OthersStay
<1>3. LoadedInv(h)'
  <2>1. CASE new.images = patch[h].images
    BY <1>1, <2>1, KeysAssumption DEF LoadedInv, Fits, Keeps
  <2>2. CASE new.images = image
    BY <1>1, <1>2, <2>2 DEF LoadedInv, RowsInv, Fits
  <2>3. CASE new.images = Idle.images
    BY <1>1, <2>3 DEF LoadedInv, Idle
  <2>4. QED
    BY <2>1, <2>2, <2>3
<1>4. UserDataInv(h)'
  BY <1>1 DEF UserDataInv
<1>5. QED
  BY <1>2, <1>3, <1>4

\* A handler that ends has nothing left in its locals.
LEMMA IdleStep ==
  ASSUME ArchiveInv, TypeInv', Keeps, image' = image,
         user_data # None => user_data' # None, NEW h \in Writers,
         patch' = [patch EXCEPT ![h] = Idle],
         \A g \in Writers : g # h => call'[g] = call[g]
  PROVE  ArchiveInv'
<1>1. Idle \in Handler
  BY DEF Idle, Handler
<1>2. patch'[h] = Idle
  BY DEF ArchiveInv, TypeInv
<1>3. Controlled(h)'
  BY <1>2 DEF Controlled, Idle
<1>4. Idle.user_data = None
  BY DEF Idle
<1>5. QED
  BY <1>1, <1>3, <1>4, LocalStep

LEMMA SaveStep ==
  ASSUME ArchiveInv, NEW h \in Writers, SaveUserData(h)
  PROVE  ArchiveInv'
<1> USE DEF ArchiveInv
<1> DEFINE update == patch[h].update
           loaded == patch[h].user_data
           new == [is_favorite  |-> IF update.is_favorite # None THEN update.is_favorite
                                    ELSE loaded # None /\ loaded.is_favorite,
                   private_note |-> IF update.private_note # None THEN update.private_note
                                    ELSE IF loaded = None THEN None ELSE loaded.private_note]
           select == [Idle EXCEPT !.at = "select"]
<1>1. patch[h] \in Handler /\ update \in Updates /\ loaded \in UserRow \cup {None}
  BY DEF SaveUserData, TypeInv, Handler, Controlled
<1>2. new \in UserRow
  <2>1. update.is_favorite \in BOOLEAN \cup {None}
    BY <1>1, UpdatesAssumption
  <2>2. update.private_note \in {u.private_note : u \in Updates}
    BY <1>1
  <2>3. CASE loaded = None
    BY <2>1, <2>2, <2>3 DEF UserRow
  <2>4. CASE loaded # None
    BY <1>1, <2>1, <2>2, <2>4 DEF UserRow
  <2>5. QED
    BY <2>3, <2>4
<1>3. /\ \/ user_data' = user_data
         \/ user_data' = Saved(h, new) /\ (loaded = None => user_data = None)
      /\ patch' = [patch EXCEPT ![h] = Idle] \/ patch' = [patch EXCEPT ![h] = select]
      /\ UNCHANGED <<storeVars, image, source, patches, abandoned>>
  <2>. HIDE DEF new
  <2>1. CASE loaded = None /\ user_data # None
    BY <2>1 DEF SaveUserData
  <2>2. CASE ~ (loaded = None /\ user_data # None)
    <3>1. /\ user_data' = Saved(h, new)
          /\ patch' = [patch EXCEPT ![h] = IF new.is_favorite THEN select ELSE Idle]
      BY <2>2 DEF SaveUserData, new
    <3>2. QED
      BY <2>2, <3>1 DEF SaveUserData
  <2>3. QED
    BY <2>1, <2>2
<1> HIDE DEF new
<1>4. user_data' \in UserRow \cup {None} /\ (user_data # None => user_data' # None)
  <2>1. CASE user_data' = user_data
    BY <2>1 DEF TypeInv
  <2>2. CASE user_data' = Saved(h, new) /\ (loaded = None => user_data = None)
    <3>1. CASE loaded = None
      BY <1>2, <2>2, <3>1, NoneAssumption DEF Saved
    <3>2. CASE loaded # None
      <4>1. user_data \in UserRow
        BY <3>2 DEF TypeInv, UserDataInv
      <4>2. user_data' = [c \in {"is_favorite", "private_note"} |->
                             IF new[c] # loaded[c] THEN new[c] ELSE user_data[c]]
        BY <2>2, <3>2, <4>1 DEF Saved, Written, UserRow
      <4>3. user_data' = [is_favorite  |-> IF new.is_favorite # loaded.is_favorite
                                           THEN new.is_favorite ELSE user_data.is_favorite,
                          private_note |-> IF new.private_note # loaded.private_note
                                           THEN new.private_note ELSE user_data.private_note]
        BY <4>2
      <4>4. user_data' \in UserRow
        BY <1>2, <4>1, <4>3 DEF UserRow
      <4>5. QED
        BY <4>4, NoneAssumption
    <3>3. QED
      BY <3>1, <3>2
  <2>3. QED
    BY <1>3, <2>1, <2>2
<1>5. Idle \in Handler /\ select \in Handler
  BY DEF Idle, Handler
<1>6. TypeInv' /\ Keeps
  BY <1>3, <1>4, <1>5 DEF TypeInv, StoreTypeOK, storeVars, Keeps
<1>7. CASE patch' = [patch EXCEPT ![h] = Idle]
  BY <1>3, <1>4, <1>6, <1>7, IdleStep DEF storeVars
<1>8. CASE patch' = [patch EXCEPT ![h] = select]
  <2>1. patch'[h] = select
    BY <1>8 DEF TypeInv
  <2>2. Controlled(h)'
    BY <2>1 DEF Controlled, Idle
  <2>3. select.user_data = None /\ select.images = Idle.images
    BY DEF Idle
  <2>4. QED
    BY <1>3, <1>4, <1>5, <1>6, <1>8, <2>2, <2>3, LocalStep DEF storeVars
<1>9. QED
  BY <1>3, <1>7, <1>8

\* A step inside the store, of the handler that called it.
LEMMA StoreImageStep ==
  ASSUME ArchiveInv, NEW h \in Writers, StoreImage(h)
  PROVE  ArchiveInv' /\ Keeps
<1> USE DEF ArchiveInv
<1>1. /\ patch[h].at = "store" /\ StoreStep(h) /\ patch[h] \in Handler
      /\ UNCHANGED <<user_data, image, source, patch, patches, abandoned>>
  BY DEF StoreImage, archiveVars, TypeInv
<1>2. /\ call[h].key = Current(h) /\ call[h].key \in ObjectKeys /\ call[h].content \in Contents
      /\ call[h].at = "stored" => objects[call[h].key] = call[h].content
  <2>1. Current(h) \in patch[h].rest
    BY <1>1, CurrentIsLeft DEF Controlled, Handler
  <2>2. QED
    BY <1>1, <2>1, KeysAssumption DEF Controlled, Handler
<1>3. /\ StoreTypeOK'
      /\ \/ objects' = objects
         \/ /\ objects[call[h].key] = None
            /\ objects' = [objects EXCEPT ![call[h].key] = call[h].content]
      /\ \A g \in Writers : g # h => call'[g] = call[g]
      /\ call'[h].key = call[h].key /\ call'[h].content = call[h].content
      /\ call'[h].at = "stored" => objects'[call[h].key] = call[h].content
  BY <1>1, <1>2, StoreStepPuts DEF TypeInv
<1>4. TypeInv'
  BY <1>1, <1>3 DEF TypeInv
<1>5. Keeps
  BY <1>3 DEF Keeps, TypeInv, StoreTypeOK
<1>6. Controlled(h)'
  BY <1>1, <1>2, <1>3 DEF Controlled, Current
<1>7. LoadedInv(h)' /\ UserDataInv(h)'
  BY <1>1, <1>5, KeysAssumption DEF LoadedInv, UserDataInv, Fits, Keeps
<1>8. RowsInv' /\ \A g \in Writers : g # h => Controlled(g)' /\ LoadedInv(g)' /\ UserDataInv(g)'
  BY <1>1, <1>3, <1>4, <1>5, OthersStay
<1>9. QED
  BY <1>4, <1>5, <1>6, <1>7, <1>8

\* An observation inserts a row without an object, or moves one and changes none
\* of its other columns.
LEMMA ObservedRow ==
  ASSUME NEW seen \in SUBSET Images, NEW at \in [seen -> Positions], Observe(seen, at),
         image \in [Images -> ArchiveRow \cup {None}], NEW i \in Images,
         image[i] # None => Fits(image[i], i)
  PROVE  /\ image'[i] \in ArchiveRow \cup {None}
         /\ image[i] # None =>
               /\ image'[i] # None
               /\ image'[i].archive_status = image[i].archive_status
               /\ image'[i].archive_object_key = image[i].archive_object_key
         /\ image[i] = None /\ image'[i] # None => image'[i].archive_status = "source_only"
         /\ image'[i] # None => Fits(image'[i], i)
<1>1. image'[i] = IF i \in seen THEN Observed(i, at[i]) ELSE image[i]
  BY DEF Observe
<1>2. CASE i \notin seen
  BY <1>1, <1>2
<1>3. CASE i \in seen /\ image[i] = None
  <2>1. image'[i] = NewImage(at[i]) /\ at[i] \in Positions
    BY <1>1, <1>3 DEF Observed
  <2>2. image'[i] \in ArchiveRow /\ image'[i].archive_status = "source_only"
        /\ image'[i].archive_object_key = None /\ image'[i].content_hash = None
    BY <2>1 DEF NewImage, ArchiveRow, Statuses
  <2>3. QED
    BY <1>3, <2>2 DEF Fits
<1>4. CASE i \in seen /\ image[i] # None
  <2>1. image'[i] = [image[i] EXCEPT !.position = at[i]] /\ at[i] \in Positions
        /\ image[i] \in ArchiveRow
    BY <1>1, <1>4 DEF Observed
  <2>2. /\ image'[i] \in ArchiveRow
        /\ image'[i].archive_status = image[i].archive_status
        /\ image'[i].archive_object_key = image[i].archive_object_key
        /\ image'[i].content_hash = image[i].content_hash
    BY <2>1 DEF ArchiveRow
  <2>3. QED
    BY <1>4, <2>2, NoneAssumption DEF Fits
<1>5. QED
  BY <1>2, <1>3, <1>4

LEMMA ArchiveStep ==
  ASSUME ArchiveInv, [Next]_vars
  PROVE  ArchiveInv' /\ RowsStay
<1> USE DEF ArchiveInv
<1>1. ASSUME NEW seen \in SUBSET Images, NEW at \in [seen -> Positions], Observe(seen, at)
      PROVE  ArchiveInv'
  <2>1. UNCHANGED <<backend, objects, call, user_data, source, patch, patches, abandoned>>
    BY <1>1 DEF Observe, storeVars
  <2>2. ASSUME NEW i \in Images
        PROVE  /\ image'[i] \in ArchiveRow \cup {None}
               /\ image[i] # None =>
                     /\ image'[i] # None
                     /\ image'[i].archive_object_key = image[i].archive_object_key
               /\ image'[i] # None => Fits(image'[i], i)
    BY <1>1, <2>2, ObservedRow DEF RowsInv, TypeInv
  <2>3. TypeInv'
    BY <1>1, <2>1, <2>2 DEF TypeInv, StoreTypeOK, Observe
  <2>4. RowsInv'
    BY <2>1, <2>2 DEF RowsInv, Fits
  <2>5. \A h \in Writers : Controlled(h)' /\ UserDataInv(h)'
    BY <2>1 DEF Controlled, UserDataInv, Current
  <2>6. \A h \in Writers : LoadedInv(h)'
    BY <2>1, <2>2 DEF LoadedInv, Fits
  <2>7. QED
    BY <2>3, <2>4, <2>5, <2>6
<1>2. ASSUME NEW i \in Images, ChangeSource(i)
      PROVE  ArchiveInv'
  <2>1. source' \in [Images -> Contents]
        /\ UNCHANGED <<backend, objects, call, user_data, image, patch, patches, abandoned>>
    BY <1>2 DEF ChangeSource, storeVars, TypeInv
  <2>2. QED
    BY <2>1 DEF TypeInv, StoreTypeOK, RowsInv, Fits, Controlled, LoadedInv, UserDataInv, Current
<1>3. ASSUME NEW h \in Writers, NEW u \in Updates, Receive(h, u)
      PROVE  ArchiveInv'
  <2> DEFINE new == [Idle EXCEPT !.at = "save", !.update = u, !.user_data = user_data]
  <2>1. /\ patch' = [patch EXCEPT ![h] = new] /\ patches' \in 0..MaxPatches
        /\ UNCHANGED <<backend, objects, call, user_data, image, source, abandoned>>
    BY <1>3, MaxPatchesAssumption DEF Receive, storeVars, TypeInv
  <2>2. new \in Handler
    BY DEF Idle, Handler, TypeInv
  <2>3. TypeInv' /\ Keeps
    BY <2>1, <2>2 DEF TypeInv, StoreTypeOK, Keeps
  <2>4. patch'[h] = new
    BY <2>1 DEF TypeInv
  <2>5. Controlled(h)'
    BY <2>4 DEF Controlled, Idle
  <2>6. new.images = Idle.images /\ new.user_data = user_data
    BY DEF Idle
  <2>7. QED
    BY <2>1, <2>2, <2>3, <2>5, <2>6, LocalStep
<1>4. ASSUME NEW h \in Writers, SelectImages(h)
      PROVE  ArchiveInv'
  <2> DEFINE new == [patch[h] EXCEPT !.at = "next", !.images = image,
                                     !.rest = {i \in Images : image[i] # None}]
  <2>1. /\ patch' = [patch EXCEPT ![h] = new]
        /\ UNCHANGED <<backend, objects, call, user_data, image, source, patches, abandoned>>
    BY <1>4 DEF SelectImages, storeVars
  <2>2. new \in Handler /\ new.images = image /\ new.user_data = patch[h].user_data
        /\ new.at = "next" /\ new.rest = {i \in Images : image[i] # None}
    BY DEF Handler, TypeInv
  <2>3. TypeInv' /\ Keeps
    BY <2>1, <2>2 DEF TypeInv, StoreTypeOK, Keeps
  <2>4. patch'[h] = new
    BY <2>1 DEF TypeInv
  <2>5. Controlled(h)'
    BY <2>2, <2>4 DEF Controlled
  <2>6. QED
    BY <2>1, <2>2, <2>3, <2>5, LocalStep
<1>5. ASSUME NEW h \in Writers, Skip(h)
      PROVE  ArchiveInv'
  <2> DEFINE new == [patch[h] EXCEPT !.rest = Others(h)]
  <2>1. /\ patch' = [patch EXCEPT ![h] = new] /\ patch[h].at = "next"
        /\ UNCHANGED <<backend, objects, call, user_data, image, source, patches, abandoned>>
    BY <1>5 DEF Skip, storeVars
  <2>2. new \in Handler /\ new.images = patch[h].images /\ new.user_data = patch[h].user_data
        /\ new.at = "next" /\ new.rest \subseteq patch[h].rest
    BY <2>1 DEF Handler, TypeInv, Others
  <2>3. TypeInv' /\ Keeps
    BY <2>1, <2>2 DEF TypeInv, StoreTypeOK, Keeps
  <2>4. patch'[h] = new
    BY <2>1 DEF TypeInv
  <2>5. Controlled(h)'
    BY <2>2, <2>4 DEF Controlled
  <2>6. QED
    BY <2>1, <2>2, <2>3, <2>5, LocalStep
<1>6. ASSUME NEW h \in Writers, Fetch(h)
      PROVE  ArchiveInv'
  <2>1. Current(h) \in patch[h].rest /\ Current(h) \in Images /\ patch[h].rest # {}
    <3>1. patch[h].rest # {}
      BY <1>6 DEF Fetch, Controlled
    <3>2. QED
      BY <3>1, CurrentIsLeft
  <2>2. ASSUME NEW at \in {"store", "failed"}, Goto(h, at), StoreTypeOK',
               \A g \in Writers : g # h => call'[g] = call[g],
               at = "store" => /\ call'[h].key = Current(h) /\ call'[h].content \in Contents
                               /\ call'[h].at # "stored"
        PROVE  ArchiveInv'
    <3> DEFINE new == [patch[h] EXCEPT !.at = at]
    <3>1. /\ patch' = [patch EXCEPT ![h] = new]
          /\ UNCHANGED <<objects, user_data, image, source, patches, abandoned>>
      BY <1>6, <2>2 DEF Fetch, Goto
    <3>2. new \in Handler /\ new.images = patch[h].images /\ new.user_data = patch[h].user_data
          /\ new.at = at /\ new.rest = patch[h].rest
      BY DEF Handler, TypeInv
    <3>3. TypeInv' /\ Keeps
      BY <2>2, <3>1, <3>2 DEF TypeInv, Keeps
    <3>4. patch'[h] = new
      BY <3>1 DEF TypeInv
    <3>5. Controlled(h)'
      BY <2>1, <2>2, <3>2, <3>4 DEF Controlled, Current
    <3>6. QED
      BY <2>2, <3>1, <3>2, <3>3, <3>5, LocalStep
  <2>3. CASE Store(h, Current(h), source[Current(h)]) /\ Goto(h, "store")
    <3>1. call' = [call EXCEPT ![h] = [at |-> IF backend = "local" THEN "look" ELSE "upload",
                                       key |-> Current(h), content |-> source[Current(h)]]]
      BY <2>3 DEF Store
    <3>2. UNCHANGED <<backend, objects>> /\ source[Current(h)] \in Contents
      BY <1>6, <2>1 DEF Fetch, TypeInv
    <3>3. StoreTypeOK'
      BY <2>1, <3>1, <3>2, KeysAssumption DEF TypeInv, StoreTypeOK, Controls
    <3>4. QED
      BY <2>2, <2>3, <3>1, <3>2, <3>3 DEF TypeInv, StoreTypeOK
  <2>4. CASE UNCHANGED call /\ Goto(h, "failed")
    <3>1. StoreTypeOK'
      BY <1>6, <2>4 DEF Fetch, TypeInv, StoreTypeOK
    <3>2. QED
      BY <2>2, <2>4, <3>1
  <2>5. QED
    BY <1>6, <2>3, <2>4 DEF Fetch
<1>7. ASSUME NEW h \in Writers, patch[h].at \in {"next", "fetch", "store", "failed"},
             patch[h].rest # {}
      PROVE  LET loaded == patch[h].images[Current(h)] IN
             /\ loaded \in ArchiveRow /\ Fits(loaded, Current(h)) /\ Current(h) \in Images
             /\ Others(h) \in SUBSET patch[h].rest
             /\ \A status \in {"pending", "failed"} :
                   LET new == [loaded EXCEPT !.archive_status = status] IN
                   /\ new \in ArchiveRow /\ Fits(new, Current(h))
                   /\ loaded.archive_object_key # None => new.archive_object_key # None
  <2> DEFINE loaded == patch[h].images[Current(h)]
  <2>1. Current(h) \in patch[h].rest /\ Current(h) \in Images
    BY <1>7, CurrentIsLeft
  <2>2. loaded \in ArchiveRow /\ Fits(loaded, Current(h))
    BY <2>1 DEF TypeInv, Handler, Controlled, LoadedInv
  <2>3. ASSUME NEW status \in {"pending", "failed"}
        PROVE  LET new == [loaded EXCEPT !.archive_status = status] IN
               /\ new \in ArchiveRow /\ Fits(new, Current(h))
               /\ loaded.archive_object_key # None => new.archive_object_key # None
    <3> HIDE DEF loaded
    <3>1. QED
      BY <2>2 DEF ArchiveRow, Statuses, Fits
  <2>4. QED
    BY <2>1, <2>2, <2>3 DEF Others
<1>8. ASSUME NEW h \in Writers, MarkPending(h)
      PROVE  ArchiveInv' /\ RowsStay
  <2> DEFINE new == [patch[h].images[Current(h)] EXCEPT !.archive_status = "pending"]
  <2>1. /\ patch[h].at = "next" /\ patch[h].rest # {}
        /\ Update(h, new, "fetch", patch[h].rest)
        /\ UNCHANGED <<backend, objects, call, user_data, source, patches>>
    BY <1>8 DEF MarkPending, storeVars
  <2>2. /\ new \in ArchiveRow /\ Fits(new, Current(h))
        /\ patch[h].images[Current(h)].archive_object_key # None => new.archive_object_key # None
    BY <1>7, <2>1
  <2> HIDE DEF new
  <2>3. QED
    BY <2>1, <2>2, UpdateStep
<1>9. ASSUME NEW h \in Writers, MarkFailed(h)
      PROVE  ArchiveInv' /\ RowsStay
  <2> DEFINE new == [patch[h].images[Current(h)] EXCEPT !.archive_status = "failed"]
  <2>1. /\ patch[h].at \in {"failed", "store"} /\ patch[h].rest # {}
        /\ Update(h, new, "next", Others(h))
        /\ UNCHANGED <<backend, objects, user_data, source, patches>>
        /\ call' = call \/ call' = [call EXCEPT ![h] = NoCall]
    BY <1>9 DEF MarkFailed, Controlled
  <2>2. /\ new \in ArchiveRow /\ Fits(new, Current(h)) /\ Others(h) \in SUBSET patch[h].rest
        /\ patch[h].images[Current(h)].archive_object_key # None => new.archive_object_key # None
    BY <1>7, <2>1
  <2> HIDE DEF new
  <2>3. QED
    BY <2>1, <2>2, UpdateStep
<1>10. ASSUME NEW h \in Writers, MarkArchived(h)
       PROVE  ArchiveInv' /\ RowsStay
  <2> DEFINE new == [patch[h].images[Current(h)] EXCEPT !.archive_status = "archived",
                        !.archive_object_key = call[h].key, !.content_hash = call[h].content]
  <2>1. /\ patch[h].at = "store" /\ call[h].at = "stored" /\ patch[h].rest # {}
        /\ Update(h, new, "next", Others(h))
        /\ UNCHANGED <<backend, objects, user_data, source, patches>>
        /\ call' = [call EXCEPT ![h] = NoCall]
    BY <1>10 DEF MarkArchived, Controlled
  <2>2. /\ call[h].key = Current(h) /\ call[h].content \in Contents
        /\ objects[Current(h)] = call[h].content
    BY <2>1 DEF Controlled
  <2>3. /\ Current(h) \in Images /\ Others(h) \in SUBSET patch[h].rest
        /\ patch[h].images[Current(h)] \in ArchiveRow
    BY <1>7, <2>1
  <2>4. /\ new \in ArchiveRow /\ Fits(new, Current(h)) /\ new.archive_object_key # None
    BY <2>2, <2>3, ContentsAssumption, NoneAssumption DEF ArchiveRow, Statuses, Fits
  <2> HIDE DEF new
  <2>5. QED
    BY <2>1, <2>3, <2>4, UpdateStep
<1>11. ASSUME NEW h \in Writers, Respond(h) \/ Raise(h) \/ Die(h)
       PROVE  ArchiveInv'
  <2>1. /\ patch' = [patch EXCEPT ![h] = Idle]
        /\ call' = call \/ call' = [call EXCEPT ![h] = NoCall]
        /\ UNCHANGED <<backend, objects, user_data, image, source, patches>>
        /\ abandoned' \in [Images -> {None, "died", "raised"}]
    BY <1>11 DEF Respond, Raise, Die, storeVars, TypeInv
  <2>2. Idle \in Handler
    BY DEF Idle, Handler
  <2>3. TypeInv' /\ Keeps
    BY <2>1, <2>2 DEF TypeInv, StoreTypeOK, NoCall, Controls, Keeps
  <2>4. \A g \in Writers : g # h => call'[g] = call[g]
    BY <2>1 DEF TypeInv, StoreTypeOK
  <2>5. QED
    BY <2>1, <2>3, <2>4, IdleStep
<1>12. ASSUME UNCHANGED vars
       PROVE  ArchiveInv'
  <2>1. UNCHANGED <<backend, objects, call, user_data, image, source, patch, patches, abandoned>>
    BY <1>12 DEF vars, storeVars, archiveVars
  <2>2. \A h \in Writers : Controlled(h)'
    BY <2>1 DEF Controlled, Current
  <2>3. TypeInv'
    BY <2>1 DEF TypeInv, StoreTypeOK
  <2>4. RowsInv'
    BY <2>1 DEF RowsInv, Fits
  <2>5. \A h \in Writers : LoadedInv(h)' /\ UserDataInv(h)'
    BY <2>1 DEF LoadedInv, UserDataInv, Fits
  <2>6. QED
    BY <2>2, <2>3, <2>4, <2>5
<1>13. ArchiveInv'
  BY <1>1, <1>2, <1>3, <1>4, <1>5, <1>6, <1>8, <1>9, <1>10, <1>11, <1>12, SaveStep,
     StoreImageStep DEF Next, Handle
<1>14. RowsStay
  <2>1. ASSUME NEW seen \in SUBSET Images, NEW at \in [seen -> Positions], Observe(seen, at)
        PROVE  RowsStay
    BY <2>1, ObservedRow DEF RowsStay, RowsInv, TypeInv
  <2>2. CASE image' = image
    BY <2>2 DEF RowsStay
  <2>3. QED
    BY <1>8, <1>9, <1>10, <2>1, <2>2
       DEF Next, Handle, ChangeSource, Receive, SaveUserData, SelectImages, Skip, Fetch,
           StoreImage, Raise, Respond, Die, vars, archiveVars
<1>15. QED
  BY <1>13, <1>14

LEMMA ArchiveInvariant == Spec => []ArchiveInv
BY InitArchive, ArchiveStep, PTL DEF Spec

-----------------------------------------------------------------------------
(* The theorems *)

\* The store and the rows keep their types, and every row that a handler flushes
\* from what it loaded earlier meets the checks of the migrated schema.
THEOREM ArchiveTypesCorrect == Spec => []ArchiveTypeOK
<1>1. ASSUME ArchiveInv PROVE ArchiveTypeOK
  <2>1. user_data # None => Schema!UserDataRow(user_data, {u.private_note : u \in Updates})
    BY <1>1 DEF ArchiveInv, TypeInv, UserRow, Schema!UserDataRow
  <2>2. ASSUME NEW i \in Images, image[i] # None
        PROVE  Schema!ImageRow(image[i], Images, Contents)
    <3>1. image[i] \in ArchiveRow
      BY <1>1, <2>2 DEF ArchiveInv, TypeInv
    <3>2. image[i].position >= 0
      <4>1. image[i].position \in Nat
        BY <3>1, OrderAssumption DEF ArchiveRow
      <4>2. \A n \in Nat : n >= 0
        OBVIOUS
      <4>3. QED
        BY <4>1, <4>2
    <3>3. QED
      BY <3>1, <3>2 DEF ArchiveRow, Statuses, Schema!ImageRow
  <2>3. QED
    BY <1>1, <2>1, <2>2 DEF ArchiveInv, TypeInv, ArchiveTypeOK
<1>2. QED
  BY <1>1, ArchiveInvariant, PTL

\* An archived image has its object, and a row that names an object holds its
\* hash, for any number of handlers that write rows loaded at any time.
THEOREM RowsCorrect == Spec => []RowsMatchObjects
<1>1. ArchiveInv => RowsMatchObjects
  BY NoneAssumption DEF ArchiveInv, RowsInv, Fits, RowsMatchObjects
<1>2. QED
  BY <1>1, ArchiveInvariant, PTL

\* A step of the system either leaves the objects alone or is a store step of a
\* handler that puts a content under a free key.
LEMMA ObjectsStep ==
  ASSUME ArchiveInv, [Next]_vars
  PROVE  /\ Keeps
         /\ objects' = objects \/ \E k \in ObjectKeys, c \in Contents : WriteOnce!Put(k, c)
<1> USE DEF ArchiveInv
<1>1. ASSUME NEW h \in Writers, StoreImage(h)
      PROVE  /\ Keeps
             /\ objects' = objects \/ \E k \in ObjectKeys, c \in Contents : WriteOnce!Put(k, c)
  <2>1. patch[h].at = "store" /\ StoreStep(h)
    BY <1>1 DEF StoreImage
  <2>2. /\ call[h].key \in ObjectKeys /\ call[h].content \in Contents
        /\ call[h].at = "stored" => objects[call[h].key] = call[h].content
    BY <2>1, CurrentIsLeft, KeysAssumption DEF Controlled
  <2>3. \/ objects' = objects
        \/ /\ objects[call[h].key] = None
           /\ objects' = [objects EXCEPT ![call[h].key] = call[h].content]
    BY <2>1, <2>2, StoreStepPuts DEF TypeInv
  <2>4. QED
    BY <1>1, <2>2, <2>3, StoreImageStep DEF WriteOnce!Put
<1>2. CASE objects' = objects
  BY <1>2 DEF Keeps
<1>3. QED
  BY <1>1, <1>2
     DEF Next, Handle, Observe, ChangeSource, Receive, SaveUserData, SelectImages, Skip,
         MarkPending, Update, Fetch, MarkFailed, MarkArchived, Raise, Respond, Die, vars, storeVars

\* Both backends implement a write-once store, whoever races for a key.
THEOREM WriteOnceCorrect == Spec => ImplementsWriteOnce
<1>1. Init => WriteOnce!StoreInit
  BY DEF Init, ObjectsInit, WriteOnce!StoreInit
<1>2. ArchiveInv /\ [Next]_vars => [WriteOnce!StoreNext]_objects
  BY ObjectsStep DEF WriteOnce!StoreNext
<1>3. QED
  BY <1>1, <1>2, ArchiveInvariant, PTL DEF Spec, ImplementsWriteOnce, WriteOnce!StoreSpec

\* An object that is named and can be loaded stays so.
LEMMA NamedStays ==
  ASSUME ArchiveInv, [Next]_vars, NEW i \in Images,
         image[i] # None, image[i].archive_object_key # None
  PROVE  /\ image'[i] # None /\ image[i].archive_object_key = i
         /\ image'[i].archive_object_key = i /\ objects'[i] = objects[i]
<1> USE DEF ArchiveInv
<1>1. image[i].archive_object_key = i /\ objects[i] # None
  BY DEF RowsInv, Fits
<1>2. ArchiveInv' /\ image'[i] # None /\ image'[i].archive_object_key # None
  BY ArchiveStep DEF RowsStay
<1>3. image'[i].archive_object_key = i
  BY <1>2 DEF RowsInv, Fits
<1>4. objects'[i] = objects[i]
  BY <1>1, ObjectsStep, KeysAssumption DEF Keeps
<1>5. QED
  BY <1>1, <1>2, <1>3, <1>4

\* An image that has been archived leads to the same picture for good, whatever
\* racing handlers write to its status and wherever observations move it.
THEOREM ArchivedCorrect == Spec => ArchivedForGood
<1>1. ASSUME ArchiveInv, [Next]_vars, NEW i \in Images,
             image[i] # None, image[i].archive_object_key # None
      PROVE  /\ image'[i].archive_object_key = image[i].archive_object_key
             /\ Loaded(image[i].archive_object_key)' = Loaded(image[i].archive_object_key)
  BY <1>1, NamedStays DEF Loaded
<1>2. ArchiveInv /\ [Next]_vars
        => [\A i \in Images : image[i] # None /\ image[i].archive_object_key # None =>
              /\ image'[i].archive_object_key = image[i].archive_object_key
              /\ Loaded(image[i].archive_object_key)' = Loaded(image[i].archive_object_key)]_vars
  BY <1>1
<1>3. QED
  BY <1>2, ArchiveInvariant, PTL DEF Spec, ArchivedForGood

\* The row that answers for a position is the archived one of the least id.
LEMMA AnsweringIsFirst ==
  ASSUME NEW p, ArchivedAt(p) # {}
  PROVE  /\ Answering(p) \in ArchivedAt(p) /\ Answering(p) \in Images
         /\ \A j \in ArchivedAt(p) : ImageId[Answering(p)] <= ImageId[j]
<1>1. ArchivedAt(p) \in SUBSET Images
  BY DEF ArchivedAt
<1>2. PICK i \in ArchivedAt(p) : \A j \in ArchivedAt(p) : ImageId[i] <= ImageId[j]
  BY <1>1, LeastId
<1>3. QED
  BY <1>1, <1>2 DEF Answering

\* The picture under a position stays until its image moves or one of a lower id
\* comes to the same position: nothing that handlers do takes it away.
THEOREM ServedCorrect == Spec => ServedUntilMoved
<1>1. ASSUME ArchiveInv, [Next]_vars, NEW p \in Positions, Served(p) # None,
             image'[Answering(p)].position = p,
             ~ \E i \in Images : /\ ImageId[i] < ImageId[Answering(p)]
                                /\ image'[i] # None /\ image'[i].position = p
      PROVE  Served(p)' = Served(p)
  <2>1. PICK a \in Images : a = Answering(p) /\ a \in ArchivedAt(p)
    BY <1>1, AnsweringIsFirst DEF Served
  <2>2. /\ image[a] # None /\ image[a].archive_object_key # None
        /\ Served(p) = Loaded(image[a].archive_object_key)
    BY <1>1, <2>1 DEF ArchivedAt, Served
  <2>3. /\ image'[a] # None /\ image[a].archive_object_key = a
        /\ image'[a].archive_object_key = a /\ objects'[a] = objects[a]
    BY <1>1, <2>1, <2>2, NamedStays
  <2>4. a \in ArchivedAt(p)'
    BY <1>1, <2>1, <2>3, NoneAssumption DEF ArchivedAt
  <2>5. ASSUME NEW j \in Images, j \in ArchivedAt(p)'
        PROVE  ImageId[a] <= ImageId[j]
    <3>1. ~ (ImageId[j] < ImageId[a])
      BY <1>1, <2>1, <2>5 DEF ArchivedAt
    <3>2. QED
      BY <3>1, OrderAssumption
  <2>6. Answering(p)' = a
    <3>1. \A j \in ArchivedAt(p)' : j \in Images
      BY DEF ArchivedAt
    <3>2. /\ Answering(p)' \in ArchivedAt(p)'
          /\ \A j \in ArchivedAt(p)' : ImageId[Answering(p)'] <= ImageId[j]
      BY <2>4, <2>5, <3>1 DEF Answering
    <3>3. ImageId[Answering(p)'] = ImageId[a]
      BY <2>4, <2>5, <3>1, <3>2, OrderAssumption
    <3>4. QED
      BY <3>1, <3>2, <3>3, OrderAssumption
  <2>7. QED
    BY <2>2, <2>3, <2>4, <2>6 DEF Served, Loaded
<1>2. ArchiveInv /\ [Next]_vars
        => [\A p \in Positions : Served(p) # None /\ Served(p)' # Served(p) =>
              \/ image'[Answering(p)].position # p
              \/ \E i \in Images : /\ ImageId[i] < ImageId[Answering(p)]
                                   /\ image'[i] # None /\ image'[i].position = p]_vars
  BY <1>1
<1>3. QED
  BY <1>2, ArchiveInvariant, PTL DEF Spec, ServedUntilMoved

\* A PATCH changes no field of the owner's data that it does not name, whatever
\* was committed between its load and its commit.
THEOREM FieldsCorrect == Spec => FieldsKeepApart
<1> DEFINE Apart == user_data # None /\ user_data' # user_data =>
        \E h \in Writers : patch[h].at = "save" /\
            \A f \in DOMAIN user_data :
                user_data'[f] # user_data[f] =>
                    patch[h].update[f] # None /\ user_data'[f] = patch[h].update[f]
<1>1. ASSUME ArchiveInv, [Next]_vars, user_data # None, user_data' # user_data
      PROVE  Apart
  <2> USE DEF ArchiveInv
  <2>1. PICK h \in Writers : SaveUserData(h)
    BY <1>1
       DEF Next, Handle, Observe, ChangeSource, Receive, SelectImages, Skip, MarkPending,
           Update, Fetch, StoreImage, MarkFailed, MarkArchived, Raise, Respond, Die, vars, archiveVars
  <2> DEFINE update == patch[h].update
             loaded == patch[h].user_data
             new == [is_favorite  |-> IF update.is_favorite # None THEN update.is_favorite
                                      ELSE loaded # None /\ loaded.is_favorite,
                     private_note |-> IF update.private_note # None THEN update.private_note
                                      ELSE IF loaded = None THEN None ELSE loaded.private_note]
  <2>2. patch[h].at = "save" /\ loaded # None /\ user_data' = Written(user_data, loaded, new)
    BY <1>1, <2>1 DEF SaveUserData, Saved
  <2>3. user_data \in UserRow /\ DOMAIN user_data = {"is_favorite", "private_note"}
    BY <1>1 DEF TypeInv, UserRow
  <2>4. ASSUME NEW f \in {"is_favorite", "private_note"}, user_data'[f] # user_data[f]
        PROVE  update[f] # None /\ user_data'[f] = update[f]
    <3>1. user_data'[f] = new[f] /\ new[f] # loaded[f]
      BY <2>2, <2>3, <2>4 DEF Written
    <3>2. CASE f = "is_favorite"
      BY <2>2, <3>1, <3>2, <1>1 DEF TypeInv, Handler, UserRow
    <3>3. CASE f = "private_note"
      BY <2>2, <3>1, <3>3
    <3>4. QED
      BY <3>2, <3>3
  <2>5. QED
    BY <2>2, <2>3, <2>4
<1>2. ArchiveInv /\ [Next]_vars => [Apart]_vars
  BY <1>1
<1>3. QED
  BY <1>2, ArchiveInvariant, PTL DEF Spec, FieldsKeepApart

-----------------------------------------------------------------------------
(* Pending images *)

\* A handler at work on an image has a copy of the row that says pending, so that
\* whatever it ends with differs and is written, whoever has written the row since.
PendingInv ==
    /\ PendingHasAnOwner
    /\ \A h \in Writers : AtWork(h) =>
            patch[h].images[Current(h)].archive_status = "pending"

\* A step that takes no image's status to pending: a handler stops work on an image
\* by dying or raising only.
LEMMA PendingKept ==
  ASSUME ArchiveInv, PendingInv,
         \A i \in Images : image'[i] # None /\ image'[i].archive_status = "pending" =>
            image[i] # None /\ image[i].archive_status = "pending",
         \A i \in Images : abandoned[i] # None => abandoned'[i] # None,
         \A g \in Writers : AtWork(g) =>
            \/ AtWork(g)' /\ Current(g)' = Current(g)
            \/ abandoned'[Current(g)] # None,
         \A g \in Writers : AtWork(g)' =>
            AtWork(g) /\ patch'[g].images = patch[g].images /\ Current(g)' = Current(g)
  PROVE  PendingInv'
<1>1. ASSUME NEW i \in Images, image'[i] # None, image'[i].archive_status = "pending"
      PROVE  abandoned'[i] # None \/ \E g \in Writers : AtWork(g)' /\ Current(g)' = i
  BY <1>1 DEF PendingInv, PendingHasAnOwner, InHand
<1>2. ASSUME NEW h \in Writers, AtWork(h)'
      PROVE  patch'[h].images[Current(h)'].archive_status = "pending"
  BY <1>2 DEF PendingInv
<1>3. QED
  BY <1>1, <1>2 DEF PendingInv, PendingHasAnOwner, InHand

\* A commit of the loop: it begins the work on its image or ends it.
LEMMA PendingUpdated ==
  ASSUME ArchiveInv, PendingInv, NEW h \in Writers,
         NEW new, NEW at, NEW rest, Update(h, new, at, rest),
         new \in ArchiveRow, new.position = patch[h].images[Current(h)].position, rest \in SUBSET patch[h].rest, patch[h].rest # {},
         patch[h].at \in {"next", "fetch", "store", "failed"},
         \/ new.archive_status = "pending" /\ at = "fetch" /\ rest = patch[h].rest
         \/ new.archive_status # "pending" /\ at = "next" /\ AtWork(h)
  PROVE  PendingInv'
<1> DEFINE i == Current(h)
           loaded == patch[h].images[i]
<1>1. patch[h] \in Handler /\ i \in patch[h].rest /\ i \in Images
  <2>1. patch[h] \in Handler
    BY DEF ArchiveInv, TypeInv
  <2>2. QED
    BY <2>1, CurrentIsLeft
<1>2. loaded \in ArchiveRow /\ image[i] \in ArchiveRow
  BY <1>1 DEF ArchiveInv, TypeInv, Handler, Controlled, LoadedInv
<1>3. image' = [image EXCEPT ![i] = Written(image[i], loaded, new)]
  BY DEF Update
<1>4. /\ patch'[h].at = at /\ patch'[h].rest = rest
      /\ patch'[h].images = [patch[h].images EXCEPT ![i] = new]
      /\ \A g \in Writers : g # h => patch'[g] = patch[g]
  BY <1>1 DEF Update, ArchiveInv, TypeInv, Handler
<1>5. \A g \in Writers : g # h => (AtWork(g)' <=> AtWork(g)) /\ Current(g)' = Current(g)
  BY <1>4 DEF AtWork, Current
<1>6. AtWork(h)' => at = "fetch" /\ rest = patch[h].rest
  BY <1>4 DEF AtWork
<1>7. rest = patch[h].rest => Current(h)' = i
  <2>1. \A j \in patch[h].rest :
           /\ patch[h].images[j].position \in Nat
           /\ patch'[h].images[j].position = patch[h].images[j].position
    <3>1. ASSUME NEW j \in patch[h].rest
          PROVE  patch[h].images[j] \in ArchiveRow /\ j \in Images
      BY <1>1, <3>1, CurrentIsLeft DEF ArchiveInv, TypeInv, Handler, Controlled
    <3>2. patch[h].images \in [Images -> ArchiveRow \cup {None}]
      BY <1>1 DEF Handler
    <3>3. QED
      BY <1>1, <1>4, <3>1, <3>2, OrderAssumption DEF ArchiveRow
  <2>2. patch[h].rest \in SUBSET Images /\ patch[h].rest # {}
    BY CurrentIsLeft
  <2> DEFINE S == patch[h].rest
             a == patch[h].images
             b == patch'[h].images
  <2>3. S \in SUBSET Images /\ S # {}
        /\ \A j \in S : a[j].position \in Nat /\ b[j].position = a[j].position
    BY <2>1, <2>2
  <2> HIDE DEF S, a, b
  <2>4. First(S, b) = First(S, a)
    BY <2>3, FirstByPosition
  <2>5. QED
    BY <1>4, <2>4 DEF S, a, b, Current
<1>8. at = "next" => image'[i].archive_status # "pending"
  <2>1. SUFFICES ASSUME at = "next" PROVE image'[i].archive_status # "pending"
    OBVIOUS
  <2>2. new.archive_status # "pending" /\ loaded.archive_status = "pending"
    BY <2>1 DEF PendingInv
  <2>3. image'[i].archive_status = new.archive_status
    BY <1>1, <1>2, <1>3, <2>2 DEF Written, ArchiveRow, ArchiveInv, TypeInv
  <2>4. QED
    BY <2>2, <2>3
<1>9. PendingHasAnOwner'
  <2> SUFFICES ASSUME NEW j \in Images, image'[j] # None,
                      image'[j].archive_status = "pending"
               PROVE  \/ abandoned'[j] # None
                      \/ \E g \in Writers : AtWork(g)' /\ Current(g)' = j
    BY DEF PendingHasAnOwner, InHand
  <2>1. CASE j = i
    <3>1. at = "fetch" /\ rest = patch[h].rest
      BY <1>8, <2>1
    <3>2. QED
      BY <1>4, <1>7, <2>1, <3>1 DEF AtWork
  <2>2. CASE j # i
    <3>1. image'[j] = image[j]
      BY <1>3, <2>2 DEF ArchiveInv, TypeInv
    <3>2. CASE abandoned[j] # None
      BY <2>2, <3>2 DEF Update, ArchiveInv, TypeInv
    <3>3. ASSUME NEW g \in Writers, AtWork(g), Current(g) = j
          PROVE  AtWork(g)' /\ Current(g)' = j
      BY <1>5, <2>2, <3>3
    <3>4. QED
      BY <3>1, <3>2, <3>3 DEF PendingInv, PendingHasAnOwner, InHand
  <2>3. QED
    BY <2>1, <2>2
<1>10. ASSUME NEW g \in Writers, AtWork(g)'
       PROVE  patch'[g].images[Current(g)'].archive_status = "pending"
  <2>1. CASE g = h
    BY <1>1, <1>4, <1>6, <1>7, <1>10, <2>1 DEF Handler
  <2>2. CASE g # h
    BY <1>4, <1>5, <1>10, <2>2 DEF PendingInv
  <2>3. QED
    BY <2>1, <2>2
<1>11. QED
  BY <1>9, <1>10 DEF PendingInv

\* The copy of the row that a handler at work, or about to be, has loaded.
LEMMA LoadedRow ==
  ASSUME ArchiveInv, NEW h \in Writers, patch[h].rest # {}
  PROVE  Current(h) \in Images /\ patch[h].images[Current(h)] \in ArchiveRow
<1>1. patch[h] \in Handler
  BY DEF ArchiveInv, TypeInv
<1>2. Current(h) \in patch[h].rest /\ patch[h].rest \in SUBSET Images
  BY CurrentIsLeft
<1>3. QED
  BY <1>1, <1>2 DEF Handler, ArchiveInv, Controlled

LEMMA PendingStep ==
  ASSUME ArchiveInv, PendingInv, [Next]_vars
  PROVE  PendingInv'
<1>1. CASE UNCHANGED <<image, patch, abandoned>>
  <2>1. \A g \in Writers : (AtWork(g)' <=> AtWork(g)) /\ Current(g)' = Current(g)
    BY <1>1 DEF AtWork, Current
  <2>2. QED
    BY <1>1, <2>1, PendingKept
<1>2. ASSUME NEW seen \in SUBSET Images, NEW at \in [seen -> Positions], Observe(seen, at)
      PROVE  PendingInv'
  <2>1. patch' = patch /\ abandoned' = abandoned
    BY <1>2 DEF Observe
  <2>2. ASSUME NEW j \in Images, image'[j] # None, image'[j].archive_status = "pending"
        PROVE  image[j] # None /\ image[j].archive_status = "pending"
    BY <1>2, <2>2, ObservedRow DEF ArchiveInv, RowsInv, TypeInv
  <2>3. \A g \in Writers : (AtWork(g)' <=> AtWork(g)) /\ Current(g)' = Current(g)
    BY <2>1 DEF AtWork, Current
  <2>4. QED
    BY <2>1, <2>2, <2>3, PendingKept
<1>3. ASSUME NEW h \in Writers, NEW new, patch' = [patch EXCEPT ![h] = new],
             ~AtWork(h), new.at \notin {"fetch", "store", "failed"},
             image' = image, abandoned' = abandoned
      PROVE  PendingInv'
  <2>1. patch'[h] = new /\ \A g \in Writers : g # h => patch'[g] = patch[g]
    BY <1>3 DEF ArchiveInv, TypeInv
  <2>2. ~AtWork(h)' /\ \A g \in Writers : g # h =>
                            (AtWork(g)' <=> AtWork(g)) /\ Current(g)' = Current(g)
    BY <1>3, <2>1 DEF AtWork, Current
  <2>3. QED
    BY <1>3, <2>1, <2>2, PendingKept
<1>4. ASSUME NEW h \in Writers, NEW update \in Updates, Receive(h, update)
      PROVE  PendingInv'
  <2> DEFINE new == [Idle EXCEPT !.at = "save", !.update = update, !.user_data = user_data]
  <2>1. new.at = "save"
    BY DEF Idle
  <2>2. /\ patch' = [patch EXCEPT ![h] = new] /\ ~AtWork(h)
        /\ image' = image /\ abandoned' = abandoned
    BY <1>4 DEF Receive, AtWork
  <2>. HIDE DEF new
  <2>3. QED
    BY <1>3, <2>1, <2>2
<1>5. ASSUME NEW h \in Writers, SaveUserData(h) \/ Respond(h)
      PROVE  PendingInv'
  <2>1. PICK new : /\ patch' = [patch EXCEPT ![h] = new]
                   /\ new = Idle \/ new = [Idle EXCEPT !.at = "select"]
    BY <1>5 DEF SaveUserData, Respond
  <2>2. new.at \in {"idle", "select"}
    BY <2>1 DEF Idle
  <2>3. ~AtWork(h) /\ image' = image /\ abandoned' = abandoned
    BY <1>5 DEF SaveUserData, Respond, AtWork
  <2>4. QED
    BY <1>3, <2>1, <2>2, <2>3
<1>6. ASSUME NEW h \in Writers, SelectImages(h) \/ Skip(h)
      PROVE  PendingInv'
  <2>1. patch[h] \in Handler
    BY DEF ArchiveInv, TypeInv
  <2>2. PICK new : patch' = [patch EXCEPT ![h] = new] /\ new.at = "next"
    <3>1. CASE SelectImages(h)
      <4> DEFINE new == [patch[h] EXCEPT !.at = "next", !.images = image,
                                         !.rest = {i \in Images : image[i] # None}]
      <4>1. patch' = [patch EXCEPT ![h] = new]
        BY <3>1 DEF SelectImages
      <4>2. new.at = "next"
        BY <2>1 DEF Handler
      <4>3. QED
        BY <4>1, <4>2
    <3>2. CASE Skip(h)
      <4> DEFINE new == [patch[h] EXCEPT !.rest = Others(h)]
      <4>1. patch' = [patch EXCEPT ![h] = new] /\ patch[h].at = "next"
        BY <3>2 DEF Skip
      <4>2. new.at = "next"
        BY <2>1, <4>1 DEF Handler
      <4>3. QED
        BY <4>1, <4>2
    <3>3. QED
      BY <1>6, <3>1, <3>2
  <2>3. ~AtWork(h) /\ image' = image /\ abandoned' = abandoned
    BY <1>6 DEF SelectImages, Skip, AtWork
  <2>4. QED
    BY <1>3, <2>2, <2>3
<1>7. ASSUME NEW h \in Writers, Fetch(h)
      PROVE  PendingInv'
  <2>1. PICK at \in {"store", "failed"} : patch' = [patch EXCEPT ![h].at = at]
    BY <1>7 DEF Fetch, Goto
  <2>2. /\ AtWork(h) /\ AtWork(h)' /\ Current(h)' = Current(h)
        /\ patch'[h].images = patch[h].images
    BY <1>7, <2>1 DEF Fetch, AtWork, Current, ArchiveInv, TypeInv, Handler
  <2>3. \A g \in Writers : g # h => patch'[g] = patch[g]
    BY <2>1 DEF ArchiveInv, TypeInv
  <2>4. \A g \in Writers : g # h => (AtWork(g)' <=> AtWork(g)) /\ Current(g)' = Current(g)
    BY <2>3 DEF AtWork, Current
  <2>5. image' = image /\ abandoned' = abandoned
    BY <1>7 DEF Fetch
  <2>6. QED
    BY <2>2, <2>3, <2>4, <2>5, PendingKept
<1>8. ASSUME NEW h \in Writers, Raise(h) \/ Die(h)
      PROVE  PendingInv'
  <2>1. patch' = [patch EXCEPT ![h] = Idle] /\ image' = image
    BY <1>8 DEF Raise, Die
  <2>2. /\ ~AtWork(h)' /\ \A g \in Writers : g # h => patch'[g] = patch[g]
    BY <2>1 DEF AtWork, Idle, ArchiveInv, TypeInv
  <2>3. \A g \in Writers : g # h => (AtWork(g)' <=> AtWork(g)) /\ Current(g)' = Current(g)
    BY <2>2 DEF AtWork, Current
  <2>4. AtWork(h) => Current(h) \in Images
    BY LoadedRow DEF AtWork, ArchiveInv, Controlled
  <2>5. AtWork(h) => \E end \in {"died", "raised"} :
                        abandoned' = [abandoned EXCEPT ![Current(h)] = end]
    BY <1>8 DEF Raise, Die
  <2>6. ~AtWork(h) => abandoned' = abandoned
    BY <1>8 DEF Raise, Die, AtWork
  <2>7. /\ \A i \in Images : abandoned[i] # None => abandoned'[i] # None
        /\ AtWork(h) => abandoned'[Current(h)] # None
    BY <2>4, <2>5, <2>6, NoneAssumption DEF ArchiveInv, TypeInv
  <2>8. QED
    BY <2>1, <2>2, <2>3, <2>7, PendingKept
<1>9. ASSUME NEW h \in Writers, MarkPending(h)
      PROVE  PendingInv'
  <2> DEFINE new == [patch[h].images[Current(h)] EXCEPT !.archive_status = "pending"]
  <2>1. /\ patch[h].at = "next" /\ patch[h].rest # {}
        /\ Update(h, new, "fetch", patch[h].rest)
    BY <1>9 DEF MarkPending
  <2>2. patch[h].images[Current(h)] \in ArchiveRow
    BY <2>1, LoadedRow
  <2>3. /\ new \in ArchiveRow /\ new.archive_status = "pending"
        /\ new.position = patch[h].images[Current(h)].position
    BY <2>2 DEF ArchiveRow, Statuses
  <2>. HIDE DEF new
  <2>4. QED
    BY <2>1, <2>3, PendingUpdated
<1>10. ASSUME NEW h \in Writers, MarkFailed(h)
       PROVE  PendingInv'
  <2> DEFINE new == [patch[h].images[Current(h)] EXCEPT !.archive_status = "failed"]
  <2>1. /\ patch[h].at \in {"store", "failed"} /\ patch[h].rest # {}
        /\ Update(h, new, "next", Others(h))
    BY <1>10 DEF MarkFailed, ArchiveInv, Controlled
  <2>2. patch[h].images[Current(h)] \in ArchiveRow
    BY <2>1, LoadedRow
  <2>3. /\ new \in ArchiveRow /\ new.archive_status = "failed"
        /\ new.position = patch[h].images[Current(h)].position
    BY <2>2 DEF ArchiveRow, Statuses
  <2>4. Others(h) \in SUBSET patch[h].rest /\ AtWork(h)
    BY <2>1 DEF Others, AtWork
  <2>. HIDE DEF new
  <2>5. QED
    BY <2>1, <2>3, <2>4, PendingUpdated
<1>11. ASSUME NEW h \in Writers, MarkArchived(h)
       PROVE  PendingInv'
  <2> DEFINE new == [patch[h].images[Current(h)] EXCEPT !.archive_status = "archived",
                        !.archive_object_key = call[h].key, !.content_hash = call[h].content]
  <2>1. /\ patch[h].at = "store" /\ patch[h].rest # {}
        /\ Update(h, new, "next", Others(h))
    BY <1>11 DEF MarkArchived, ArchiveInv, Controlled
  <2>2. Current(h) \in Images /\ patch[h].images[Current(h)] \in ArchiveRow
    BY <2>1, LoadedRow
  <2>3. /\ new \in ArchiveRow /\ new.archive_status = "archived"
        /\ new.position = patch[h].images[Current(h)].position
    BY <2>1, <2>2 DEF ArchiveRow, Statuses, ArchiveInv, Controlled
  <2>4. Others(h) \in SUBSET patch[h].rest /\ AtWork(h)
    BY <2>1 DEF Others, AtWork
  <2>. HIDE DEF new
  <2>5. QED
    BY <2>1, <2>3, <2>4, PendingUpdated
<1>12. QED
  BY <1>1, <1>2, <1>4, <1>5, <1>6, <1>7, <1>8, <1>9, <1>10, <1>11
     DEF Next, Handle, ChangeSource, StoreImage, vars, archiveVars

\* No image is left pending by a handler that marks how it ended, whatever the others
\* write to the row meanwhile: only the death of a process and an error that no
\* handler catches leave one behind.
THEOREM PendingCorrect == Spec => []PendingHasAnOwner
<1>1. Init => PendingInv
  BY DEF Init, PendingInv, PendingHasAnOwner, AtWork, Idle, NewImage
<1>2. ArchiveInv /\ PendingInv /\ [Next]_vars => PendingInv'
  BY PendingStep
<1>3. PendingInv => PendingHasAnOwner
  BY DEF PendingInv
<1>4. QED
  BY <1>1, <1>2, <1>3, ArchiveInvariant, PTL DEF Spec
=============================================================================
