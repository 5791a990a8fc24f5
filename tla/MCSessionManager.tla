-------------------------- MODULE MCSessionManager --------------------------
(* TLC instance of SessionManager: one session at rest, two that may be     *)
(* created, one slot.  No symmetry: the run checks liveness.                *)
EXTENDS SessionManager

=============================================================================
