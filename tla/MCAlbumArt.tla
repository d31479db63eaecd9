----------------------------- MODULE MCAlbumArt -----------------------------
(***************************************************************************)
(* Small instances of AlbumArt for TLC.                                    *)
(***************************************************************************)
EXTENDS AlbumArt, TLC

CONSTANTS a1, a2

\* Sizes that let a short transfer take a piece beyond its own end.
ShortAndLong == (a1 :> 2 @@ a2 :> 3)

\* Images of equal size: what one transfer lacks another may supply.
EqualSizes == [a \in Art |-> 2]

\* Tiny images, for the runs that need many of them.
OneChunk == [a \in Art |-> 1]
=============================================================================
