--------------------------- MODULE ArtReassembly ---------------------------
(***************************************************************************)
(* What album-art reassembly promises to the code that uses it: a transfer *)
(* gains pieces one at a time and never loses one; its image appears in    *)
(* the cache in the step that brings the last missing piece, the step that *)
(* also ends the transfer; a transfer is not begun for a cached image.     *)
(***************************************************************************)
EXTENDS Integers

CONSTANTS Art, MaxChunks, TotalChunks, Absent

VARIABLES
    got,     \* the piece indices a transfer has, Absent without a transfer
    stored   \* the cached images

vars == <<got, stored>>

Pieces == 0 .. MaxChunks - 1

Needed(h) == 0 .. TotalChunks[h] - 1

Init == got = [h \in Art |-> Absent] /\ stored = {}

Begin(h) ==
    /\ got[h] = Absent
    /\ h \notin stored
    /\ got' = [got EXCEPT ![h] = {}]
    /\ UNCHANGED stored

Gain(h, i) ==
    /\ got[h] # Absent
    /\ got' = [got EXCEPT ![h] = @ \cup {i}]
    /\ UNCHANGED stored

Finish(h, i) ==
    /\ got[h] # Absent
    /\ got[h] \cup {i} = Needed(h)
    /\ got' = [got EXCEPT ![h] = Absent]
    /\ stored' = stored \cup {h}

\* Stale transfers are removed together.
Abandon(S) ==
    /\ got' = [h \in Art |-> IF h \in S THEN Absent ELSE got[h]]
    /\ UNCHANGED stored

\* Somebody else put an image in the cache, at the price of at most one other.
Put(h) ==
    /\ \E K \in {{}} \cup {{k} : k \in stored} : stored' = (stored \ K) \cup {h}
    /\ UNCHANGED got

Clear == stored' = {} /\ UNCHANGED got

Restart == got' = [h \in Art |-> Absent] /\ stored' = {}

Next ==
    \/ \E h \in Art : Begin(h) \/ Put(h)
    \/ \E h \in Art, i \in Pieces : Gain(h, i) \/ Finish(h, i)
    \/ \E S \in SUBSET Art : Abandon(S)
    \/ Clear
    \/ Restart

Spec == Init /\ [][Next]_vars
=============================================================================
