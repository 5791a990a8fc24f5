-------------------------- MODULE MCProjectEvents --------------------------
(* TLC instance of the files of one project: the event streams that tell of   *)
(* them, with two clients (ProjectEvents); and the stills and clips of its     *)
(* shots, with two writers, a shot and a video unit, each with one of its two  *)
(* files from before versions were kept (AssetFiles).  A stream lets the files *)
(* change at any time, which is more than the writers do, so a behaviour moves *)
(* the one or the other, chosen at its start.                                  *)
EXTENDS ProjectEvents, AssetFiles

CONSTANTS a, b, w1, w2
TwoClients == {a, b}
Old == {<<"still", a>>, <<"clip", b>>}

VARIABLE side
sides == <<side, vars, assetVars>>

MCInit == /\ side \in {"streams", "assets"} /\ Init /\ AssetInit
          /\ bytes = [r \in Asset |-> IF r \in Old THEN Legacy ELSE None]

TheStreams(A) == side = "streams" /\ A /\ UNCHANGED <<side, assetVars>>
TheAssets(A) == side = "assets" /\ A /\ UNCHANGED <<side, vars>>

MCNext == TheStreams(Next) \/ TheAssets(AssetNext)

\* FairSpec on its side; of the writers nothing is asked.
MCSpec ==
    /\ MCInit /\ [][MCNext]_sides
    /\ \A c \in Channel : WF_sides(TheStreams(WatchStep(c)))
    /\ \A t \in Batch : WF_sides(TheStreams(BatchStep(t)))
    /\ \A s \in Client : WF_sides(TheStreams(ClientStep(s)))
=============================================================================
