------------------------- MODULE MCGenerationWorker -------------------------
(* TLC instances of GenerationWorker: two rows in one or two pools.  The    *)
(* rows differ (one has no provider), their dedupe keys do not.             *)
EXTENDS GenerationWorker, TLC

KeySymmetry == Permutations(Key)

=============================================================================
