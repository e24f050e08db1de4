----------------------------- MODULE MCPipeline -----------------------------
EXTENDS Pipeline

MCModes == {"ordered", "parallel", "race", "any"}
MCSubResults == {"ok", "err"}
MCParentCauses == {"ok", "cancelled"}

=============================================================================
