--------------------------- MODULE MCSessionActor ---------------------------
(* TLC instance of SessionActor: three queries, so that one is driven, one  *)
(* waits and one is rejected.  No symmetry: the run checks liveness.        *)
EXTENDS SessionActor

=============================================================================
