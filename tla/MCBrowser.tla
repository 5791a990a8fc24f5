------------------------------ MODULE MCBrowser ------------------------------
(* TLC instance of one browser tab: its chat pane over two sessions of one    *)
(* project, one of them not yet made, and one of another project              *)
(* (AssistantClient); and its copy of the project it shows, with two handlers *)
(* that save (ProjectClient).  The pane lets its project change at any time,  *)
(* to any other, which is more than the copy can make of it, so a behaviour   *)
(* moves the one or the other, chosen at its start.                           *)
EXTENDS AssistantClient, ProjectClient, TLC

CONSTANTS a, b, c, p, q
MCHome == (a :> p) @@ (b :> p) @@ (c :> q)

VARIABLE side
sides == <<side, vars, projectVars>>

MCInit == side \in {"pane", "copy"} /\ Init /\ project = p /\ ProjectInit

ThePane(A) == side = "pane" /\ A /\ UNCHANGED <<side, projectVars>>
TheCopy(A) == side = "copy" /\ A /\ UNCHANGED <<side, vars>>

MCNext == ThePane(Next) \/ TheCopy(ProjectNext)

\* FairSpec and ProjectFairSpec, each for its side.
MCSpec ==
    /\ MCInit /\ [][MCNext]_sides
    /\ WF_sides(ThePane(Work))
    /\ \A s \in Session : WF_sides(ThePane(TurnEnds(s)))
    /\ WF_sides(TheCopy(Fetching))
    /\ WF_sides(TheCopy(Listening))

\* No property of the pane says anything after one of the other strays; and of
\* the changes of the projects all but one are told of.
Watched ==
    /\ strayed \subseteq {"session", "load"}
    /\ \A x \in ProjectName : loud[x] + 1 >= version[x]
    /\ loud[p] = version[p] \/ loud[q] = version[q]
=============================================================================
