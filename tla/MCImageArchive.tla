--------------------------- MODULE MCImageArchive ---------------------------
(***************************************************************************)
(* A small instance of ImageArchive for TLC.                               *)
(***************************************************************************)
EXTENDS ImageArchive, TLC

CONSTANTS h1, h2, i1, i2

body(favorite, note) == [is_favorite |-> favorite, private_note |-> note]

\* Favour, write a note, and take the favour back.
SampleUpdates == {body(TRUE, None), body(None, "n"), body(FALSE, None)}

OneImage  == i1 :> 1
TwoImages == (i1 :> 1) @@ (i2 :> 2)

Symmetry == Permutations({h1, h2})

\* Bound: handlers race for one image, and work on two one after the other.
RaceForOneImage ==
    \/ \E i \in Images : image[i] = None
    \/ \E h \in Writers : patch[h] = Idle
=============================================================================
