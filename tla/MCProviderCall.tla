--------------------------- MODULE MCProviderCall ---------------------------
(* TLC instance of ProviderCall: one asset with two tasks, one of a backend *)
(* behind submit_post, one with the default retry and 413 on downloads.     *)
EXTENDS ProviderCall

=============================================================================
