\* Two handlers that race for one image, or work one after the other on two that move
\* between two positions, also to the same one: two PATCHes, any earlier user data, two
\* contents of which one is a bitmap.
SPECIFICATION Spec
CONSTANTS
    None = None
    Partial = Partial
    h1 = h1
    h2 = h2
    i1 = i1
    i2 = i2
    Writers = {h1, h2}
    Images = {i1, i2}
    ObjectKeys = {i1, i2}
    ImageId <- TwoImages
    Positions = {0, 1}
    Contents = {"jpeg", "svg"}
    Bitmaps = {"jpeg"}
    Updates <- SampleUpdates
    MaxPatches = 2
CONSTRAINT RaceForOneImage
SYMMETRY Symmetry
INVARIANTS
    ArchiveTypeOK
    RowsMatchObjects
    PendingHasAnOwner
PROPERTIES
    ArchivedForGood
    ServedUntilMoved
    FieldsKeepApart
    ImplementsWriteOnce
\* The bounded number of requests is used up in the end.
CHECK_DEADLOCK FALSE
