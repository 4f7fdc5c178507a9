-------------------------- MODULE MCChunkPipeline --------------------------
(* Pipelines of three steps: every inner plugin reports its output, one in  *)
(* the middle does not, and none does.                                      *)
EXTENDS ChunkPipeline

MCPipelines ==
    LET P(a, b, c) == [k \in Steps |-> CASE k = 0 -> a [] k = 1 -> b [] k = 2 -> c]
    IN  {P("dir", "path", "data"), P("path", "plain", "dir"), P("quiet", "plain", "quiet")}
=============================================================================
