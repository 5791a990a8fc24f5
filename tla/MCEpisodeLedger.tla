-------------------------- MODULE MCEpisodeLedger --------------------------
(* Small instances of EpisodeLedger for TLC. *)
EXTENDS EpisodeLedger, TLC

CONSTANTS f1, f2
TwoFiles == <<f1, f2>>
Sizes == (f1 :> 2) @@ (f2 :> 1)

Nothing == [e \in Episode |-> NULL]
First == [file |-> f1, start |-> 0, end |-> 1]
Fresh == [text |-> Nothing, step1 |-> Nothing, scripts |-> {}]
\* an episode that was split off by hand and has a script
Old == {[text |-> [Nothing EXCEPT ![1] = First],
         step1 |-> [Nothing EXCEPT ![1] = t], scripts |-> {1}] : t \in Text}
\* an episode file that was edited and is found nowhere
Lost == [text |-> [Nothing EXCEPT ![1] = Foreign], step1 |-> Nothing, scripts |-> {}]
Pasts == Old \cup {Fresh, Lost}
\* The hypothesis of the theorem about LedgerInv
ASSUME PastsInOrder == LegacyInOrder

Symmetry == Permutations(Call) \cup Permutations(Text)
=============================================================================
