----------------------------- MODULE MCTimeline -----------------------------
(* TLC instance of Timeline: one client, posts with one or two idempotency  *)
(* keys, a queue of two.                                                    *)
EXTENDS Timeline

=============================================================================
