--------------------------- MODULE MCPipelineCache ---------------------------
EXTENDS PipelineCache, TLC
CONSTANTS shader, nir
MCops_of == shader :> "real" @@ nir :> "raw"
Symmetry == Permutations(Threads) \cup Permutations(Objs) \cup Permutations(Handles) \cup Permutations(Strong)
=============================================================================
