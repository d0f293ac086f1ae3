\* Two handlers and one image: two PATCHes, two contents of which one is a bitmap.
SPECIFICATION Spec
CONSTANTS
    None = None
    Partial = Partial
    h1 = h1
    h2 = h2
    i1 = i1
    i2 = i2
    Writers = {h1, h2}
    Images = {i1}
    ObjectKeys = {i1}
    ImageId <- OneImage
    Positions = {0, 1}
    Contents = {"jpeg", "svg"}
    Bitmaps = {"jpeg"}
    Updates <- SampleUpdates
    MaxPatches = 2
SYMMETRY Symmetry
INVARIANTS
    FailuresAreMarked
\* The bounded number of requests is used up in the end.
CHECK_DEADLOCK FALSE
