----------------------------- MODULE MCPipeline -----------------------------
(* Seeds for two pools and polls of two blocks: the counter selects neither *)
(* pool at the start, the second after a poll, the first or both after a    *)
(* reseed. The samples are enough for two seed requests, or one and polls.  *)
EXTENDS Pipeline
=============================================================================
