--------------------------- MODULE MCRetryWorker ---------------------------
EXTENDS RetryWorker

MCTaskResults == {"ok", "err", "nonRetriable"}
MCParentCauses == {"ok", "cancelled"}

\* 0xffffffff exceeds the integers of TLC; any value above every reachable
\* tick plays the same role.
MCRetryTickDead == 4095

=============================================================================
