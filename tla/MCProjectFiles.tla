--------------------------- MODULE MCProjectFiles ---------------------------
(* Small instances of ProjectFiles for TLC. *)
EXTENDS ProjectFiles

CONSTANTS s1, s2, e1
TwoFiles == <<s1, s2>>
SameEpisode == [s \in {s1, s2} |-> e1]
=============================================================================
